------------------------------ MODULE SrrSave ------------------------------
(***************************************************************************)
(* SrrWorker::requestSave (fty_srr_worker.cc), one thread per request: the   *)
(* groups of the request in the order given, the features of each in the     *)
(* order of its m_fp.  A group one of whose features cannot be saved is left *)
(* out of the payload; nothing keeps a group from being named twice.         *)
(***************************************************************************)
EXTENDS SrrAgents

CONSTANTS
  Saves,           \* the threads serving a save request
  SaveRequest      \* the requests that may arrive

ASSUME SaveAssumption ==
  /\ Saves \subseteq Thread
  /\ SaveRequest \subseteq [readable : BOOLEAN, passphraseOk : BOOLEAN,
                            m_group_list : Seq(Group \cup StrayGroup)]

VARIABLES
  saveRequest,     \* the request each thread serves
  savePc,          \* where the thread is
  groupsLeft,      \* the groups not finished, the current one first
  featuresLeft,    \* the features of the current group yet to be saved
  savedGroups,     \* savedGroups: the features saved per group, none if it is not in the map
  allGroupsSaved,
  saveStatus       \* m_status

saveVars == <<saveRequest, savePc, groupsLeft, featuresLeft, savedGroups, allGroupsSaved, saveStatus>>
saveSystemVars == <<agentVars, saveVars>>

SavedFeature == [m_feature : Feature, data : Data \ {None}]

SaveTypeOK ==
  /\ AgentsTypeOK
  /\ saveRequest \in [Saves -> SaveRequest]
  /\ savePc \in [Saves -> {"decode", "next", "saving", "answered"}]
  /\ groupsLeft \in [Saves -> Seq(Group \cup StrayGroup)]
  /\ featuresLeft \in [Saves -> Seq(Feature)]
  /\ savedGroups \in [Saves -> [Group -> Seq(SavedFeature)]]
  /\ allGroupsSaved \in [Saves -> BOOLEAN]
  /\ saveStatus \in [Saves -> {"SUCCESS", "PARTIAL_SUCCESS", "FAILED"}]

SaveInit ==
  /\ AgentsInit
  /\ saveRequest \in [Saves -> SaveRequest]
  /\ savePc = [s \in Saves |-> "decode"]
  /\ groupsLeft = [s \in Saves |-> <<>>]
  /\ featuresLeft = [s \in Saves |-> <<>>]
  /\ savedGroups = [s \in Saves |-> [g \in Group |-> <<>>]]
  /\ allGroupsSaved = [s \in Saves |-> TRUE]
  /\ saveStatus = [s \in Saves |-> "FAILED"]

-----------------------------------------------------------------------------
(* The request as a whole. *)

WellFormed(p) == p.readable /\ p.passphraseOk

SaveRejected(s) ==
  /\ savePc[s] = "decode"
  /\ ~WellFormed(saveRequest[s])
  /\ savePc' = [savePc EXCEPT ![s] = "answered"]
  /\ UNCHANGED <<agentVars, saveRequest, groupsLeft, featuresLeft, savedGroups,
                 allGroupsSaved, saveStatus>>

SaveAccepted(s) ==
  /\ savePc[s] = "decode"
  /\ WellFormed(saveRequest[s])
  /\ savePc' = [savePc EXCEPT ![s] = "next"]
  /\ groupsLeft' = [groupsLeft EXCEPT ![s] = saveRequest[s].m_group_list]
  /\ UNCHANGED <<agentVars, saveRequest, featuresLeft, savedGroups, allGroupsSaved, saveStatus>>

SaveAnswered(s) ==
  /\ savePc[s] = "next" /\ groupsLeft[s] = <<>>
  /\ saveStatus' = [saveStatus EXCEPT ![s] = IF allGroupsSaved[s] THEN "SUCCESS" ELSE "PARTIAL_SUCCESS"]
  /\ savePc' = [savePc EXCEPT ![s] = "answered"]
  /\ UNCHANGED <<agentVars, saveRequest, groupsLeft, featuresLeft, savedGroups, allGroupsSaved>>

-----------------------------------------------------------------------------
(* The groups. *)

CurrentGroup(s) == Head(groupsLeft[s])

NextGroup(s) ==
  /\ savePc' = [savePc EXCEPT ![s] = "next"]
  /\ groupsLeft' = [groupsLeft EXCEPT ![s] = Tail(@)]

(* Mutant: a group nobody knows is no failure.                                *)
UnknownGroupIgnored(s) ==
  /\ savePc[s] = "next" /\ groupsLeft[s] # <<>>
  /\ CurrentGroup(s) \notin Group
  /\ NextGroup(s)
  /\ UNCHANGED <<agentVars, saveRequest, featuresLeft, savedGroups, allGroupsSaved, saveStatus>>

UnknownGroup(s) ==
  /\ savePc[s] = "next" /\ groupsLeft[s] # <<>>
  /\ CurrentGroup(s) \notin Group
  /\ allGroupsSaved' = [allGroupsSaved EXCEPT ![s] = FALSE]
  /\ NextGroup(s)
  /\ UNCHANGED <<agentVars, saveRequest, featuresLeft, savedGroups, saveStatus>>

BeginGroup(s) ==
  /\ savePc[s] = "next" /\ groupsLeft[s] # <<>>
  /\ CurrentGroup(s) \in Group
  /\ savePc' = [savePc EXCEPT ![s] = "saving"]
  /\ LET fp == m_fp[CurrentGroup(s)]
     IN  featuresLeft' = [featuresLeft EXCEPT ![s] = [i \in DOMAIN fp |-> fp[i].m_feature]]
  /\ UNCHANGED <<agentVars, saveRequest, groupsLeft, savedGroups, allGroupsSaved, saveStatus>>

SendSave(s) ==
  /\ savePc[s] = "saving" /\ featuresLeft[s] # <<>>
  /\ Idle(s)
  /\ Call(s, "save", Head(featuresLeft[s]), None)
  /\ UNCHANGED saveVars

(* Mutant: saveFeature waits for its reply for ever.                          *)
SaveWaits(s) == answer[s].kind = "timeout" /\ TimeOut(s) /\ UNCHANGED saveVars

SaveGiveUp(s) == TimeOut(s) /\ UNCHANGED saveVars

(* Mutant: the status in the reply is not looked at.                          *)
SavedUnchecked(s) ==
  /\ savePc[s] = "saving" /\ Answered(s)
  /\ savedGroups' = [savedGroups EXCEPT ![s][CurrentGroup(s)] =
       Append(@, [m_feature |-> answer[s].feature, data |-> answer[s].data])]
  /\ featuresLeft' = [featuresLeft EXCEPT ![s] = Tail(@)]
  /\ Consume(s)
  /\ UNCHANGED <<saveRequest, savePc, groupsLeft, allGroupsSaved, saveStatus>>

(* The features the reply reports on: none if it is empty, which no check      *)
(* notices.                                                                   *)
FeatureSaved(s) ==
  /\ savePc[s] = "saving" /\ Succeeded(s)
  /\ savedGroups' = [savedGroups EXCEPT ![s][CurrentGroup(s)] =
       IF answer[s].kind = "empty" THEN @
       ELSE Append(@, [m_feature |-> answer[s].feature, data |-> answer[s].data])]
  /\ featuresLeft' = [featuresLeft EXCEPT ![s] = Tail(@)]
  /\ Consume(s)
  /\ UNCHANGED <<saveRequest, savePc, groupsLeft, allGroupsSaved, saveStatus>>

(* Mutant: what was saved of the group stays in the payload.                  *)
GroupKeptInPart(s) ==
  /\ savePc[s] = "saving" /\ Answered(s) /\ ~Succeeded(s)
  /\ allGroupsSaved' = [allGroupsSaved EXCEPT ![s] = FALSE]
  /\ NextGroup(s)
  /\ featuresLeft' = [featuresLeft EXCEPT ![s] = <<>>]
  /\ Consume(s)
  /\ UNCHANGED <<saveRequest, savedGroups, saveStatus>>

(* Any exception: the group is erased, with what an earlier mention of it in  *)
(* the request has saved.                                                     *)
GroupFailed(s) ==
  /\ savePc[s] = "saving" /\ Answered(s) /\ ~Succeeded(s)
  /\ allGroupsSaved' = [allGroupsSaved EXCEPT ![s] = FALSE]
  /\ savedGroups' = [savedGroups EXCEPT ![s][CurrentGroup(s)] = <<>>]
  /\ NextGroup(s)
  /\ featuresLeft' = [featuresLeft EXCEPT ![s] = <<>>]
  /\ Consume(s)
  /\ UNCHANGED <<saveRequest, saveStatus>>

GroupSaved(s) ==
  /\ savePc[s] = "saving" /\ featuresLeft[s] = <<>>
  /\ NextGroup(s)
  /\ UNCHANGED <<agentVars, saveRequest, featuresLeft, savedGroups, allGroupsSaved, saveStatus>>

-----------------------------------------------------------------------------

SaveStep(s) ==
  \/ SaveRejected(s) \/ SaveAccepted(s) \/ SaveAnswered(s)
  \/ UnknownGroup(s) \/ BeginGroup(s) \/ SendSave(s) \/ SaveGiveUp(s)
  \/ FeatureSaved(s) \/ GroupFailed(s) \/ GroupSaved(s)

AllSaved ==
  /\ \A s \in Saves : savePc[s] = "answered"
  /\ \A a \in Agent : queue[a] = <<>>

SaveNext ==
  \/ \E s \in Saves : SaveStep(s)
  \/ \E a \in Agent, kind \in ReplyKind : Serve(a, kind) /\ UNCHANGED saveVars
  \/ AllSaved /\ UNCHANGED saveSystemVars

SaveSpec == SaveInit /\ [][SaveNext]_saveSystemVars

(* As in SrrRestore: a thread runs, and request() returns.                    *)
FairSaveSpec == SaveSpec /\ \A s \in Saves : WF_saveSystemVars(SaveStep(s))

-----------------------------------------------------------------------------
(* What a save owes to whoever asked for it. *)

SavedOf(s, g) == {savedGroups[s][g][i].m_feature : i \in DOMAIN savedGroups[s][g]}
AskedFor(s) == {saveRequest[s].m_group_list[i] : i \in DOMAIN saveRequest[s].m_group_list}
InPayload(s, g) == g \in Group /\ savedGroups[s][g] # <<>>
NamesAGroupTwice(s) ==
  \E i, j \in DOMAIN saveRequest[s].m_group_list :
    i # j /\ saveRequest[s].m_group_list[i] = saveRequest[s].m_group_list[j]

(* A group in the payload is a group that was asked for, with every feature   *)
(* that belongs to it and no other, whichever calls failed or came too late:  *)
(* an incomplete one would be accepted by no later restore.                   *)
PayloadGroupsComplete ==
  \A s \in Saves : savePc[s] = "answered" =>
    \A g \in Group : InPayload(s, g) => g \in AskedFor(s) /\ SavedOf(s, g) = FeaturesOf(g)

(* The status agrees with the payload: SUCCESS when every group asked for is  *)
(* there, PARTIAL_SUCCESS when one is missing.  A group named twice may also   *)
(* be there because only its last mention was saved.                          *)
SaveStatusHonest ==
  \A s \in Saves : savePc[s] = "answered" =>
    LET missing == {g \in AskedFor(s) : ~InPayload(s, g)}
    IN  /\ saveStatus[s] = "FAILED" <=> ~WellFormed(saveRequest[s])
        /\ saveStatus[s] = "SUCCESS" => missing = {}
        /\ saveStatus[s] = "PARTIAL_SUCCESS" /\ ~NamesAGroupTwice(s) => missing # {}

(* Every save is answered, even if no agent ever replies.                     *)
EverySaveAnswered == \A s \in Saves : <>(savePc[s] = "answered")

-----------------------------------------------------------------------------
(* The inductive invariant behind the theorems of SrrSaveProofs. *)

LeftOf(s) == {featuresLeft[s][i] : i \in DOMAIN featuresLeft[s]}
Ahead(s) == {groupsLeft[s][i] : i \in DOMAIN groupsLeft[s]}

(* A thread calls for the feature it is at, to save it, and a reply with a     *)
(* feature has its configuration.                                             *)
SaveCall(s) ==
  /\ savePc[s] = "saving" => groupsLeft[s] # <<>> /\ CurrentGroup(s) \in Group
  /\ ~Idle(s) =>
       savePc[s] = "saving" /\ featuresLeft[s] # <<>> /\ answer[s].feature = Head(featuresLeft[s])
  /\ answer[s].kind = "ok" => answer[s].data # None
  /\ \A a \in Agent : \A i \in DOMAIN queue[a] :
       queue[a][i].from = s /\ queue[a][i].awaited => queue[a][i].op = "save"

(* Every reply reports on its feature.  A group of the payload is complete,    *)
(* but the one being saved for what is left of it.                            *)
SavedSoFar(s) ==
  /\ answer[s].kind # "empty"
  /\ Ahead(s) \subseteq AskedFor(s)
  /\ \A g \in Group :
       /\ SavedOf(s, g) \subseteq FeaturesOf(g)
       /\ InPayload(s, g) => g \in AskedFor(s)
       /\ InPayload(s, g) /\ ~(savePc[s] = "saving" /\ g = CurrentGroup(s))
            => FeaturesOf(g) \subseteq SavedOf(s, g)
  /\ savePc[s] = "saving" =>
       /\ LeftOf(s) \subseteq FeaturesOf(CurrentGroup(s))
       /\ FeaturesOf(CurrentGroup(s)) \subseteq SavedOf(s, CurrentGroup(s)) \cup LeftOf(s)

(* allGroupsSaved says whether a group asked for and no longer ahead is        *)
(* missing.                                                                   *)
SaveBooks(s) ==
  /\ ~NamesAGroupTwice(s) =>
       \A i, j \in DOMAIN groupsLeft[s] : groupsLeft[s][i] = groupsLeft[s][j] => i = j
  /\ savePc[s] = "decode" => saveStatus[s] = "FAILED" /\ allGroupsSaved[s]
  /\ savePc[s] \in {"next", "saving"} => WellFormed(saveRequest[s])
  /\ savePc[s] \in {"next", "saving"} \/ (savePc[s] = "answered" /\ WellFormed(saveRequest[s])) =>
       /\ allGroupsSaved[s] => \A g \in AskedFor(s) : g \in Ahead(s) \/ InPayload(s, g)
       /\ ~allGroupsSaved[s] /\ ~NamesAGroupTwice(s) =>
            \E g \in AskedFor(s) : g \notin Ahead(s) /\ ~InPayload(s, g)
  /\ savePc[s] = "answered" =>
       /\ ~WellFormed(saveRequest[s]) => saveStatus[s] = "FAILED"
       /\ WellFormed(saveRequest[s]) =>
            /\ groupsLeft[s] = <<>>
            /\ saveStatus[s] = IF allGroupsSaved[s] THEN "SUCCESS" ELSE "PARTIAL_SUCCESS"

SaveInv ==
  /\ SaveTypeOK /\ MailboxesInOrder /\ CallsPosted
  /\ \A s \in Saves : SaveCall(s) /\ SavedSoFar(s) /\ SaveBooks(s)
=============================================================================
