------------------------ MODULE SrrRestoreProperties ------------------------
(***************************************************************************)
(* What requestRestore owes to whoever sends it a payload: correctness      *)
(* properties of SrrRestore, and the statements of comments of the source    *)
(* that the code does not keep.                                             *)
(***************************************************************************)
EXTENDS SrrRestore

TypeOK == AgentsTypeOK /\ RestoreTypeOK

-----------------------------------------------------------------------------
(* Vocabulary. *)

Requested(r) == {request[r].items[i] : i \in DOMAIN request[r].items}

(* The items the thread has reported and found restored, or failed.  That is   *)
(* what the response says of them, but in version 1.0 of the restored ones.    *)
Entries(r, outcome) == {statusList[r][i].name :
                          i \in {j \in DOMAIN statusList[r] : statusList[r][j].outcome = outcome}}

(* The features of an item the daemon may write on behalf of r.               *)
Writable(r, it) == IF Known(r, it.id) THEN OwnFeatures(r, it.id) \cap Feature ELSE {}

Scope(r) == UNION {Writable(r, it) : it \in Requested(r)}

(* The features another request writes too: nothing excludes two of them.     *)
Contended(r) == UNION {Scope(q) : q \in Restores \ {r}}

Finished(r, it) == \A i \in DOMAIN items[r] : items[r][i].id # it.id

Refused(p) ==
  \/ p.license \in {"refused", "unavailable"}
  \/ ~p.readable \/ ~p.passphraseOk \/ p.version \notin {"1.0", "2.0", "2.1"}
  \/ p.version # "1.0" /\ ~p.force /\ \E i \in DOMAIN p.items : ~p.items[i].intact

-----------------------------------------------------------------------------
(* Safety. *)

(* A request refused by licensing, with a wrong passphrase, an unreadable or  *)
(* unsupported payload, or a group that fails its integrity check unforced,   *)
(* sends nothing to any agent, not even for its intact groups, reports on no  *)
(* item and does not reboot.                                                  *)
RefusedTouchesNothing ==
  \A r \in Restores : Refused(request[r]) =>
    /\ \A a \in Agent : \A i \in DOMAIN queue[a] : queue[a][i].from # r
    /\ statusList[r] = <<>>
    /\ status[r] \in {"FAILED", "UNKNOWN"}
    /\ ~rebooting[r]

(* The correlation id of sendRequest: a thread is blocked exactly while one    *)
(* message, and only one, waits somewhere for its reply, and that message is  *)
(* about the feature it asked about.  A late reply is never taken for the     *)
(* answer to a later call.                                                    *)
CorrelatedReply ==
  \A r \in Restores :
    /\ Idle(r) \/ Answered(r) => AwaitedBy(r) = {}
    /\ answer[r].kind = "pending" =>
         \E w \in AwaitedBy(r) :
           /\ AwaitedBy(r) = {w}
           /\ queue[w[1]][w[2]].feature = answer[r].feature
           /\ w[1] = m_agent[answer[r].feature]

(* An item reported SUCCESS - in version 1.0 also one restored and reported in  *)
(* its agent's words - has every feature of the payload that belongs to       *)
(* it restored, whatever failed, timed out or was carried out late before,    *)
(* and keeps it while later items are processed; X leaves features aside.     *)
HoldsRestored(r, X) ==
  \A it \in Requested(r) : it.id \in Entries(r, "SUCCESS") =>
    \A f \in (it.features \cap Writable(r, it)) \ X : store[f] = r
SuccessMeansRestored == \A r \in Restores : HoldsRestored(r, Contended(r))

(* Two requests for the same features are not kept apart, and each may reset  *)
(* what the other has restored.  When both report success each feature still  *)
(* holds the configuration of one of them: none is left reset or undefined.   *)
SuccessfulRestoresCompose ==
  \A f \in Feature :
    LET writers == {r \in Restores : f \in Scope(r)}
    IN  /\ writers # {}
        /\ \A r \in writers : \E it \in Requested(r) :
             f \in it.features \cap Writable(r, it) /\ it.id \in Entries(r, "SUCCESS")
        => store[f] \in writers

(* An item the thread has reported FAILED, with an error in its log, is back   *)
(* to what it was before the request once the thread has left it, but for the  *)
(* features the log names: those that could not be saved and those whose        *)
(* roll-back failed too.                                                      *)
FailedMeansRolledBack ==
  \A r \in Restores : \A it \in Requested(r) :
    it.id \in Entries(r, "FAILED") /\ Finished(r, it) =>
      \A f \in Writable(r, it) \ (Contended(r) \cup unbacked[r] \cup unrecoverable[r]) :
        store[f] = Initial

(* While an agent works on the restore of a feature, every feature of its     *)
(* group with a lower priority number, on which it depends, holds the         *)
(* restored configuration already; when the group is rolled back, what had    *)
(* been saved, unless that failed too.                                        *)
DependenciesFirst ==
  \A r \in Restores : answer[r].kind = "pending" =>
    \A f \in Owned(r) \ Contended(r) :
      getPriority(f) < getPriority(answer[r].feature) =>
        /\ pc[r] = "restore" /\ f \in Current(r).features => store[f] = r
        /\ pc[r] = "undoRestore" /\ f \in BackedUp(r) \ unrecoverable[r] => store[f] = backup[r][f]

(* Of a payload of known groups, the groups are finished in restore           *)
(* order: nothing that is to be restored earlier is left for later.           *)
GroupOrder ==
  \A r \in Restores : \A i \in DOMAIN statusList[r] : \A j \in DOMAIN items[r] :
    ~isV1(r) /\ {it.id : it \in Requested(r)} \subseteq Group =>
      m_restoreOrder[statusList[r][i].name] <= m_restoreOrder[items[r][j].id]

(* The response tells what happened.  A request carried out to the end has one *)
(* entry per item; SUCCESS says that every item was found restored, and but in  *)
(* version 1.0, where an entry is the agent's own word, shows so of each;      *)
(* PARTIAL_SUCCESS shows one at least as FAILED.  A request refused or broken   *)
(* off in the middle of an item lacks the entry of that item; version 1.0 has  *)
(* written it when it breaks off in a roll-back.                              *)
StatusHonest ==
  \A r \in Restores : pc[r] = "answered" =>
    LET list == statusList[r]
    IN  /\ status[r] \in {"SUCCESS", "PARTIAL_SUCCESS"} =>
             /\ Len(list) = Len(request[r].items)
             /\ \A it \in Requested(r) : it.id \in Entries(r, "SUCCESS") \cup Entries(r, "FAILED")
        /\ status[r] = "SUCCESS" =>
             /\ Entries(r, "FAILED") = {}
             /\ ~isV1(r) => \A i \in DOMAIN list : list[i].status = "SUCCESS"
        /\ status[r] = "PARTIAL_SUCCESS" =>
             \E i \in DOMAIN list : list[i].outcome = "FAILED" /\ list[i].status = "FAILED"
        /\ status[r] \in {"FAILED", "UNKNOWN"} /\ ~isV1(r) /\ request[r].items # <<>> =>
             Len(list) < Len(request[r].items)

(* In versions 2.0 and 2.1 a configuration that needs a restart to be active  *)
(* is never left without one, also when a later group fails or ends the       *)
(* request.                                                                   *)
RestoredImpliesReboot ==
  \A r \in Restores : pc[r] = "answered" /\ EnableReboot /\ ~isV1(r) =>
    \A it \in Requested(r) : it.id \in Entries(r, "SUCCESS") =>
      \A f \in it.features \cap Feature : m_restart[f] => rebooting[r]

-----------------------------------------------------------------------------
(* Liveness. *)

(* Every request is answered, even if no agent ever replies.                  *)
EveryRequestAnswered == \A r \in Restores : <>(pc[r] = "answered")

-----------------------------------------------------------------------------
(* The inductive invariants behind the theorems of SrrRestoreProofs. *)

Undoing(r) == pc[r] \in {"undoReset", "undoRestore"}
Working(r) == pc[r] \in {"next"} \cup CallPhase

(* The items a thread still has to go through come from its request, and it   *)
(* only ever calls agents for one it knows.                                   *)
ItemsFromRequest(r) ==
  /\ \A i \in DOMAIN items[r] : items[r][i] \in Requested(r)
  /\ pc[r] \in CallPhase => items[r] # <<>> /\ Known(r, Current(r).id)

(* An entry shows what the thread found, or what the agent said.               *)
EntriesSaid(r) ==
  \A i \in DOMAIN statusList[r] : statusList[r][i].status \in Said(r, statusList[r][i].outcome)

HasFailed(r) == \E i \in DOMAIN statusList[r] : statusList[r][i].outcome = "FAILED"
Reported(r, it) == \E i \in DOMAIN statusList[r] : statusList[r][i].name = it.id
Left(r, it) == \E i \in DOMAIN items[r] : items[r][i] = it

(* The books: an item is in the status list or still to come, allRestored     *)
(* says whether an entry is FAILED but between the failure of a restore and   *)
(* the entry for it, which version 1.0 writes before rolling back.            *)
Books(r) ==
  /\ EntriesSaid(r)
  /\ pc[r] \in {"license", "decode"} =>
       statusList[r] = <<>> /\ allRestored[r] /\ status[r] = "FAILED"
  /\ allRestored[r] => ~HasFailed(r)
  /\ Undoing(r) => ~allRestored[r]
  /\ Working(r) =>
       /\ ~(isV1(r) /\ Undoing(r)) =>
            Len(statusList[r]) + Len(items[r]) = Len(request[r].items)
       /\ isV1(r) /\ Undoing(r) =>
            Len(statusList[r]) + Len(items[r]) = Len(request[r].items) + 1
       /\ \A it \in Requested(r) : Reported(r, it) \/ Left(r, it)
       /\ ~allRestored[r] /\ (isV1(r) \/ ~Undoing(r)) => HasFailed(r)
       /\ isV1(r) /\ Undoing(r) => Reported(r, Current(r))
  /\ pc[r] \in {"reply", "answered"} /\ status[r] \in {"SUCCESS", "PARTIAL_SUCCESS"} =>
       /\ Len(statusList[r]) = Len(request[r].items)
       /\ \A it \in Requested(r) : Reported(r, it)
       /\ status[r] = "SUCCESS" <=> ~HasFailed(r)
  /\ pc[r] \in {"reply", "answered"} /\ status[r] \in {"FAILED", "UNKNOWN"} /\ ~isV1(r)
       /\ request[r].items # <<>> => Len(statusList[r]) < Len(request[r].items)

(* A refused request never leaves the entry checks.                           *)
StaysOut(r) ==
  /\ pc[r] = "decode" => request[r].license \in {"granted", "blank"}
  /\ Refused(request[r]) =>
       /\ pc[r] \in {"license", "decode", "reply", "answered"}
       /\ statusList[r] = <<>> /\ status[r] \in {"FAILED", "UNKNOWN"}
       /\ Idle(r) /\ ~restart[r] /\ ~rebooting[r]
       /\ \A a \in Agent : \A i \in DOMAIN queue[a] : queue[a][i].from # r

IInv ==
  /\ TypeOK
  /\ \A r \in Restores : ItemsFromRequest(r) /\ Books(r) /\ StaysOut(r)

-----------------------------------------------------------------------------
(* What comments and the configuration file say and the code does not do: the *)
(* runs of these find a counterexample.                                       *)

(* "if one feature is missing, set the error for the whole group and skip the *)
(* group" (fty_srr_worker.cc:683): the group gets an entry FAILED and the     *)
(* others are restored.  The exception thrown for it passes that handler.     *)
MissingSkipsOnlyItsGroup ==
  \A r \in Restores : pc[r] = "answered" /\ ~isV1(r) =>
    \A it \in Requested(r) :
      (\E f \in Writable(r, it) \ it.features : request[r].version \in m_requiredIn[f])
      => it.id \in Entries(r, "FAILED")

(* "restore failed -> rolling back the whole group" (fty_srr_worker.cc:743):   *)
(* a failed group is back to its configuration, but for the features logged   *)
(* unrecoverable.  A feature that could not be saved is reset all the same.   *)
WholeGroupRolledBack ==
  \A r \in Restores : \A it \in Requested(r) :
    it.id \in Entries(r, "FAILED") /\ Finished(r, it) =>
      \A f \in Writable(r, it) \ (Contended(r) \cup unrecoverable[r]) : store[f] = Initial

(* "unknown groups will be placed at the end and skipped"                      *)
(* (fty_srr_worker.cc:588): the comparator leaves them where they are.         *)
UnknownGroupsLast ==
  \A r \in Restores : items[r] # <<>> /\ ~Known(r, Current(r).id) =>
    \A i \in DOMAIN items[r] : ~Known(r, items[r][i].id)

(* "Enable/disable reboot after restore" (fty-srr.cfg:17): with the parameter  *)
(* set, a restored feature that needs a restart gets it.  Version 1.0 drops    *)
(* the flag of a successful restore.                                           *)
RebootAfterRestore ==
  \A r \in Restores : pc[r] = "answered" /\ EnableReboot =>
    \A it \in Requested(r) : it.id \in Entries(r, "SUCCESS") =>
      \A f \in it.features \cap Feature : m_restart[f] => rebooting[r]
=============================================================================
