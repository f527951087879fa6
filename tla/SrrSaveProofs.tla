---------------------------- MODULE SrrSaveProofs ---------------------------
(***************************************************************************)
(* Theorems about SrrSave for every table, request and number of saves: type *)
(* correctness, the completeness of the groups in a payload and the honesty   *)
(* of the status.  Then about SrrServer: saves and restores leave each other's *)
(* invariants alone, and a save tells what the restores before it reported.    *)
(***************************************************************************)
EXTENDS SrrServer, SrrAgreementProofs

-----------------------------------------------------------------------------
(* Walking a list from its head.                                              *)

LEMMA HeadAndTail ==
  ASSUME NEW S, NEW q \in Seq(S), q # <<>>
  PROVE  /\ Head(q) = q[1] /\ 1 \in DOMAIN q /\ Head(q) \in S /\ Tail(q) \in Seq(S)
         /\ \A i \in DOMAIN Tail(q) :
              i \in Nat /\ i >= 1 /\ i + 1 \in DOMAIN q /\ Tail(q)[i] = q[i + 1]
         /\ \A i \in DOMAIN q : i # 1 => i - 1 \in DOMAIN Tail(q) /\ q[i] = Tail(q)[i - 1]
<1>1. Len(q) \in Nat /\ DOMAIN q = 1..Len(q) /\ Len(q) >= 1
  BY EmptySeq, LenProperties
<1>2. /\ Tail(q) \in Seq(S) /\ DOMAIN Tail(q) = 1..(Len(q) - 1)
      /\ \A i \in 1..(Len(q) - 1) : Tail(q)[i] = q[i + 1]
  BY <1>1
<1>. QED BY <1>1, <1>2

LEMMA HeadOrTail ==
  ASSUME NEW S, NEW q \in Seq(S), q # <<>>
  PROVE  /\ {q[i] : i \in DOMAIN q} = {Head(q)} \cup {Tail(q)[i] : i \in DOMAIN Tail(q)}
         /\ (\A i, j \in DOMAIN q : q[i] = q[j] => i = j) =>
              /\ Head(q) \notin {Tail(q)[i] : i \in DOMAIN Tail(q)}
              /\ \A i, j \in DOMAIN Tail(q) : Tail(q)[i] = Tail(q)[j] => i = j
<1>1. /\ Head(q) = q[1] /\ 1 \in DOMAIN q
      /\ \A i \in DOMAIN Tail(q) : i \in Nat /\ i >= 1 /\ i + 1 \in DOMAIN q /\ Tail(q)[i] = q[i + 1]
      /\ \A i \in DOMAIN q : i # 1 => i - 1 \in DOMAIN Tail(q) /\ q[i] = Tail(q)[i - 1]
  BY HeadAndTail
<1>2. {q[i] : i \in DOMAIN q} = {Head(q)} \cup {Tail(q)[i] : i \in DOMAIN Tail(q)}
  <2>1. ASSUME NEW i \in DOMAIN q PROVE q[i] = Head(q) \/ \E j \in DOMAIN Tail(q) : q[i] = Tail(q)[j]
    BY <1>1
  <2>2. ASSUME NEW j \in DOMAIN Tail(q) PROVE \E i \in DOMAIN q : Tail(q)[j] = q[i]
    BY <1>1
  <2>3. \E i \in DOMAIN q : Head(q) = q[i]
    BY <1>1
  <2>. QED BY <2>1, <2>2, <2>3
<1>3. ASSUME \A i, j \in DOMAIN q : q[i] = q[j] => i = j
      PROVE  /\ Head(q) \notin {Tail(q)[i] : i \in DOMAIN Tail(q)}
             /\ \A i, j \in DOMAIN Tail(q) : Tail(q)[i] = Tail(q)[j] => i = j
  <2>1. \A i \in DOMAIN Tail(q) : Tail(q)[i] # Head(q)
    BY <1>1, <1>3
  <2>2. ASSUME NEW i \in DOMAIN Tail(q), NEW j \in DOMAIN Tail(q), Tail(q)[i] = Tail(q)[j]
        PROVE  i = j
    <3>1. i + 1 = j + 1
      BY <1>1, <1>3, <2>2
    <3>. QED BY <1>1, <3>1
  <2>. QED BY <2>1, <2>2
<1>. QED BY <1>2, <1>3

-----------------------------------------------------------------------------
(* Types. *)

LEMMA GroupIsListed ==
  ASSUME NEW g \in Group
  PROVE  /\ m_fp[g] \in Seq([m_feature : Feature, m_priority : Nat])
         /\ [i \in DOMAIN m_fp[g] |-> m_fp[g][i].m_feature] \in Seq(Feature)
         /\ FeaturesOf(g) \subseteq Feature /\ FeaturesOf(g) # {}
<1>1. m_fp[g] \in Seq([m_feature : Feature, m_priority : Nat]) /\ m_fp[g] # <<>>
  BY TablesAssumption
<1>2. DOMAIN m_fp[g] = 1..Len(m_fp[g]) /\ Len(m_fp[g]) \in Nat /\ 1 \in DOMAIN m_fp[g]
  BY <1>1, EmptySeq, LenProperties
<1>3. \A i \in DOMAIN m_fp[g] : m_fp[g][i] \in [m_feature : Feature, m_priority : Nat]
  BY <1>1, <1>2, ElementOfSeq
<1>4. \A i \in DOMAIN m_fp[g] : m_fp[g][i].m_feature \in Feature
  BY <1>3
<1>5. [i \in DOMAIN m_fp[g] |-> m_fp[g][i].m_feature] \in Seq(Feature)
  BY <1>2, <1>4, IsASeq
<1>. QED BY <1>1, <1>2, <1>4, <1>5 DEF FeaturesOf

LEMMA SaveTouch ==
  ASSUME NEW s \in Saves, SaveStep(s)
  PROVE  \/ SendSave(s) \/ SaveGiveUp(s)
         \/ Answered(s) /\ Consume(s) /\ (FeatureSaved(s) \/ GroupFailed(s))
         \/ UNCHANGED agentVars
BY DEF SaveStep, SaveRejected, SaveAccepted, SaveAnswered, UnknownGroup, BeginGroup, FeatureSaved,
       GroupFailed, GroupSaved, Succeeded, Answered

(* What is asked of an agent is a feature of the tables.                       *)
LEMMA SaveQuery ==
  ASSUME SaveTypeOK, NEW s \in Saves, SendSave(s)
  PROVE  /\ Head(featuresLeft[s]) \in Feature /\ Head(featuresLeft[s]) \in Name
         /\ "save" \in Op /\ None \in Data /\ Idle(s)
         /\ Call(s, "save", Head(featuresLeft[s]), None)
<1>1. featuresLeft[s] \in Seq(Feature) /\ featuresLeft[s] # <<>>
  BY DEF SendSave, SaveTypeOK
<1>2. Head(featuresLeft[s]) \in Feature
  BY <1>1, HeadAndTail
<1>. QED BY <1>2, NoNoneAmongConfigurations DEF SendSave, Name, Op

LEMMA SaveStepKeepsMail ==
  ASSUME SaveTypeOK, InOrder, NEW s \in Saves, SaveStep(s)
  PROVE  AgentsTypeOK' /\ InOrder'
<1>a. AgentsTypeOK /\ s \in Thread
  BY SaveAssumption DEF SaveTypeOK
<1>1. CASE SendSave(s)
  BY <1>a, <1>1, SaveQuery, CallKeepsTypes, CallKeepsOrder
<1>2. CASE SaveGiveUp(s)
  BY <1>a, <1>2, TimeOutKeepsTypes, TimeOutKeepsOrder DEF SaveGiveUp
<1>3. CASE Answered(s) /\ Consume(s)
  BY <1>a, <1>3, ConsumeKeepsTypes, ConsumeKeepsOrder
<1>4. CASE UNCHANGED agentVars
  BY <1>a, <1>4 DEF agentVars, AgentsTypeOK, InOrder, MailboxesInOrder, CallsPosted
<1>. QED BY <1>1, <1>2, <1>3, <1>4, SaveTouch

(* What a thread has at hand while it saves a group.                           *)
LEMMA SavingFacts ==
  ASSUME SaveTypeOK, NEW s \in Saves, SaveCall(s), savePc[s] = "saving"
  PROVE  /\ CurrentGroup(s) \in Group /\ groupsLeft[s] # <<>>
         /\ groupsLeft[s] \in Seq(Group \cup StrayGroup)
         /\ Answered(s) => /\ featuresLeft[s] # <<>> /\ answer[s].feature = Head(featuresLeft[s])
                           /\ answer[s].feature \in Feature
         /\ answer[s].kind = "ok" =>
              [m_feature |-> answer[s].feature, data |-> answer[s].data] \in SavedFeature
<1>1. featuresLeft[s] \in Seq(Feature) /\ groupsLeft[s] \in Seq(Group \cup StrayGroup)
  BY DEF SaveTypeOK
<1>2. answer[s].kind = "ok" => answer[s].data \in Data \ {None}
  BY SaveAssumption DEF SaveTypeOK, AgentsTypeOK, Answer, SaveCall
<1>3. Answered(s) => /\ featuresLeft[s] # <<>> /\ answer[s].feature = Head(featuresLeft[s])
  BY DEF SaveCall, Answered, Idle
<1>4. Answered(s) => answer[s].feature \in Feature
  BY <1>1, <1>3, HeadAndTail
<1>5. answer[s].kind = "ok" => Answered(s)
  BY DEF Answered
<1>. QED BY <1>1, <1>2, <1>3, <1>4, <1>5 DEF SaveCall, SavedFeature

(* The effect of FeatureSaved on the payload.                                  *)
LEMMA SavedEffect ==
  ASSUME SaveTypeOK, NEW s \in Saves, SaveCall(s), FeatureSaved(s)
  PROVE  /\ savedGroups' \in [Saves -> [Group -> Seq(SavedFeature)]]
         /\ \A g \in Group : g # CurrentGroup(s) => savedGroups'[s][g] = savedGroups[s][g]
         /\ \A q \in Saves \ {s} : savedGroups'[q] = savedGroups[q]
         /\ answer[s].kind = "empty" => savedGroups'[s] = savedGroups[s]
         /\ answer[s].kind # "empty" =>
              savedGroups'[s][CurrentGroup(s)] =
                Append(savedGroups[s][CurrentGroup(s)],
                       [m_feature |-> answer[s].feature, data |-> answer[s].data])
<1> DEFINE g == CurrentGroup(s)
           e == [m_feature |-> answer[s].feature, data |-> answer[s].data]
           new == IF answer[s].kind = "empty" THEN savedGroups[s][g] ELSE Append(savedGroups[s][g], e)
<1>1. g \in Group /\ (answer[s].kind = "ok" => e \in SavedFeature)
  BY SavingFacts DEF FeatureSaved
<1>2. savedGroups \in [Saves -> [Group -> Seq(SavedFeature)]]
  BY DEF SaveTypeOK
<1>3. savedGroups' = [savedGroups EXCEPT ![s][g] = new]
  BY DEF FeatureSaved
<1>4. answer[s].kind # "empty" => answer[s].kind = "ok"
  BY DEF FeatureSaved, Succeeded
<1> HIDE DEF g, e
<1>5. new \in Seq(SavedFeature)
  BY <1>1, <1>2, <1>4, AppendProperties
<1> HIDE DEF new
<1>6. savedGroups' = [savedGroups EXCEPT ![s] = [savedGroups[s] EXCEPT ![g] = new]]
  BY <1>1, <1>2, <1>3
<1>7. [savedGroups[s] EXCEPT ![g] = new] \in [Group -> Seq(SavedFeature)]
  BY <1>2, <1>5
<1>8. savedGroups' \in [Saves -> [Group -> Seq(SavedFeature)]]
  BY <1>2, <1>6, <1>7
<1>9. savedGroups'[s][g] = new
  BY <1>1, <1>2, <1>6
<1>10. \A h \in Group : h # g => savedGroups'[s][h] = savedGroups[s][h]
  BY <1>2, <1>6
<1>11. \A q \in Saves \ {s} : savedGroups'[q] = savedGroups[q]
  BY <1>2, <1>6
<1>12. answer[s].kind = "empty" => savedGroups'[s] = savedGroups[s]
  BY <1>1, <1>2, <1>6 DEF new
<1>. QED BY <1>8, <1>9, <1>10, <1>11, <1>12 DEF g, e, new

LEMMA SaveStepKeepsTypes ==
  ASSUME SaveTypeOK, InOrder, NEW s \in Saves, SaveCall(s), SaveStep(s)
  PROVE  SaveTypeOK'
<1>a. AgentsTypeOK'
  BY SaveStepKeepsMail
<1>b. \A q \in Seq(Group \cup StrayGroup) : q # <<>> => Tail(q) \in Seq(Group \cup StrayGroup)
  BY HeadAndTail
<1>1. CASE SaveRejected(s) \/ SaveAnswered(s) \/ SendSave(s) \/ SaveGiveUp(s)
  BY <1>a, <1>1 DEF SaveTypeOK, SaveRejected, SaveAnswered, SendSave, SaveGiveUp, saveVars
<1>2. CASE SaveAccepted(s)
  <2>1. saveRequest[s].m_group_list \in Seq(Group \cup StrayGroup)
    BY SaveAssumption DEF SaveTypeOK
  <2>. QED BY <1>a, <1>2, <2>1 DEF SaveTypeOK, SaveAccepted
<1>3. CASE UnknownGroup(s)
  BY <1>a, <1>b, <1>3 DEF SaveTypeOK, UnknownGroup, NextGroup
<1>4. CASE BeginGroup(s)
  <2>1. [i \in DOMAIN m_fp[CurrentGroup(s)] |-> m_fp[CurrentGroup(s)][i].m_feature] \in Seq(Feature)
    BY <1>4, GroupIsListed DEF BeginGroup
  <2>. QED BY <1>a, <1>4, <2>1 DEF SaveTypeOK, BeginGroup
<1>5. CASE FeatureSaved(s)
  <2>1. Tail(featuresLeft[s]) \in Seq(Feature)
    <3>1. featuresLeft[s] \in Seq(Feature) /\ featuresLeft[s] # <<>>
      BY <1>5, SavingFacts DEF SaveTypeOK, FeatureSaved, Succeeded, Answered
    <3>. QED BY <3>1, HeadAndTail
  <2>2. savedGroups' \in [Saves -> [Group -> Seq(SavedFeature)]]
    BY <1>5, SavedEffect
  <2>. QED BY <1>a, <1>5, <2>1, <2>2 DEF SaveTypeOK, FeatureSaved
<1>6. CASE GroupFailed(s)
  <2>1. CurrentGroup(s) \in Group /\ groupsLeft[s] # <<>>
    BY <1>6, SavingFacts DEF GroupFailed
  <2>2. <<>> \in Seq(SavedFeature) /\ <<>> \in Seq(Feature)
    OBVIOUS
  <2>. QED BY <1>a, <1>b, <1>6, <2>1, <2>2 DEF SaveTypeOK, GroupFailed, NextGroup
<1>7. CASE GroupSaved(s)
  <2>1. groupsLeft[s] # <<>>
    BY <1>7, SavingFacts DEF GroupSaved
  <2>. QED BY <1>a, <1>b, <1>7, <2>1 DEF SaveTypeOK, GroupSaved, NextGroup
<1>. QED BY <1>1, <1>2, <1>3, <1>4, <1>5, <1>6, <1>7 DEF SaveStep

-----------------------------------------------------------------------------
(* Calls. *)

SavesOnly(s) ==
  \A a \in Agent : \A i \in DOMAIN queue[a] :
    queue[a][i].from = s /\ queue[a][i].awaited => queue[a][i].op = "save"

SaveUntouched(q) ==
  /\ savePc'[q] = savePc[q] /\ groupsLeft'[q] = groupsLeft[q] /\ featuresLeft'[q] = featuresLeft[q]
  /\ savedGroups'[q] = savedGroups[q] /\ allGroupsSaved'[q] = allGroupsSaved[q]
  /\ saveStatus'[q] = saveStatus[q] /\ saveRequest'[q] = saveRequest[q]

LEMMA OtherSaves ==
  ASSUME SaveTypeOK, NEW s \in Saves, SaveCall(s), SaveStep(s), NEW q \in Saves \ {s}
  PROVE  SaveUntouched(q)
<1>1. FeatureSaved(s) => savedGroups'[q] = savedGroups[q]
  BY SavedEffect
<1>. QED
  BY <1>1
  DEF SaveStep, SaveTypeOK, SaveUntouched, SaveRejected, SaveAccepted, SaveAnswered, UnknownGroup,
      BeginGroup, SendSave, SaveGiveUp, FeatureSaved, GroupFailed, GroupSaved, NextGroup, saveVars

LEMMA NoMailNoNews ==
  ASSUME NEW t, NoNewMail(t), SavesOnly(t)
  PROVE  SavesOnly(t)'
BY DEF NoNewMail, SavesOnly, SameLetter

(* A step of a thread leaves the calls of the others alone, and is itself to    *)
(* save.                                                                      *)
LEMMA MailOfSaveStep ==
  ASSUME SaveTypeOK, NEW s \in Saves, SaveStep(s), NEW q \in Saves, SavesOnly(q)
  PROVE  SavesOnly(q)' /\ (q # s => answer'[q] = answer[q])
<1>a. AgentsTypeOK /\ s \in Thread /\ q \in Thread
  BY SaveAssumption DEF SaveTypeOK
<1>1. CASE SendSave(s)
  <2> DEFINE f == Head(featuresLeft[s])
  <2>1. f \in Feature /\ f \in Name /\ "save" \in Op /\ None \in Data /\ Call(s, "save", f, None)
    BY <1>1, SaveQuery
  <2> HIDE DEF f
  <2>2. CASE q # s
    <3>1. NoNewMail(q) /\ answer'[q] = answer[q]
      BY <1>a, <2>1, <2>2, CallSendsForItself
    <3>. QED BY <3>1, NoMailNoNews
  <2>3. CASE q = s
    <3>1. CallDoes(s, "save", f, None)
      BY <1>a, <2>1, CallEffect
    <3>. QED BY <2>3, <3>1 DEF CallDoes, Sent, SavesOnly
  <2>. QED BY <2>2, <2>3
<1>2. CASE SaveGiveUp(s)
  BY <1>a, <1>2, TimeOutSendsNothing, NoMailNoNews DEF SaveGiveUp
<1>3. CASE Consume(s)
  BY <1>a, <1>3, ConsumeSendsNothing, NoMailNoNews
<1>4. CASE UNCHANGED agentVars
  BY <1>4 DEF agentVars, SavesOnly
<1>. QED BY <1>1, <1>2, <1>3, <1>4, SaveTouch

LEMMA OwnCall ==
  ASSUME SaveTypeOK, NEW s \in Saves, SaveCall(s), SaveStep(s)
  PROVE  SaveCall(s)'
<1>a. AgentsTypeOK /\ s \in Thread
  BY SaveAssumption DEF SaveTypeOK
<1>0. SavesOnly(s)'
  BY MailOfSaveStep DEF SaveCall, SavesOnly
<1> SUFFICES
      /\ savePc'[s] = "saving" => groupsLeft'[s] # <<>> /\ CurrentGroup(s)' \in Group
      /\ ~Idle(s)' => /\ savePc'[s] = "saving" /\ featuresLeft'[s] # <<>>
                      /\ answer'[s].feature = Head(featuresLeft'[s])
      /\ answer'[s].kind = "ok" => answer'[s].data # None
  BY <1>0 DEF SaveCall, SavesOnly
<1>1. CASE SendSave(s)
  <2> DEFINE f == Head(featuresLeft[s])
  <2>1. f \in Feature /\ None \in Data /\ "save" \in Op /\ Call(s, "save", f, None)
    BY <1>1, SaveQuery
  <2>2. answer'[s] = [kind |-> "pending", feature |-> f, data |-> None]
    BY <1>a, <2>1 DEF Call, AgentsTypeOK
  <2>3. savePc' = savePc /\ groupsLeft' = groupsLeft /\ featuresLeft' = featuresLeft
        /\ savePc[s] = "saving" /\ featuresLeft[s] # <<>>
    BY <1>1 DEF SendSave, saveVars
  <2>. QED BY <2>2, <2>3 DEF SaveCall, CurrentGroup
<1>2. CASE SaveGiveUp(s)
  <2>1. TimeOutDoes(s) /\ UNCHANGED saveVars
    BY <1>a, <1>2, TimeOutEffect DEF SaveGiveUp
  <2>. QED BY <2>1 DEF TimeOutDoes, saveVars, SaveCall, Idle, CurrentGroup
<1>3. CASE FeatureSaved(s) \/ GroupFailed(s)
  <2>1. answer'[s] = NoAnswer
    BY <1>a, <1>3 DEF FeatureSaved, GroupFailed, Consume, AgentsTypeOK
  <2>2. GroupFailed(s) => savePc'[s] = "next"
    BY DEF GroupFailed, NextGroup, SaveTypeOK
  <2>3. FeatureSaved(s) => savePc' = savePc /\ groupsLeft' = groupsLeft
    BY DEF FeatureSaved
  <2>. QED BY <1>3, <2>1, <2>2, <2>3 DEF NoAnswer, Idle, SaveCall, CurrentGroup
<1>4. CASE UNCHANGED agentVars /\ ~BeginGroup(s) /\ ~FeatureSaved(s) /\ ~GroupFailed(s)
  <2>1. answer' = answer
    BY <1>4 DEF agentVars
  <2>2. savePc'[s] # "saving" \/ (savePc' = savePc /\ groupsLeft' = groupsLeft /\ featuresLeft' = featuresLeft)
    BY <1>4 DEF SaveStep, SaveTypeOK, SaveRejected, SaveAccepted, SaveAnswered, UnknownGroup, SendSave,
                SaveGiveUp, GroupSaved, NextGroup, saveVars
  <2>3. savePc'[s] # "saving" => Idle(s)
    <3>1. CASE GroupSaved(s)
      BY <3>1 DEF GroupSaved, SaveCall
    <3>2. CASE ~GroupSaved(s) /\ ~(savePc' = savePc)
      BY <1>4, <3>2 DEF SaveStep, SaveRejected, SaveAccepted, SaveAnswered, UnknownGroup, SendSave,
                        SaveGiveUp, saveVars, SaveCall
    <3>3. CASE savePc' = savePc
      BY <3>3 DEF SaveCall
    <3>. QED BY <3>1, <3>2, <3>3
  <2>. QED BY <2>1, <2>2, <2>3 DEF SaveCall, CurrentGroup, Idle
<1>5. CASE BeginGroup(s)
  <2>1. answer' = answer /\ groupsLeft' = groupsLeft /\ Idle(s)
    BY <1>5 DEF BeginGroup, agentVars, SaveCall
  <2>. QED BY <1>5, <2>1 DEF BeginGroup, CurrentGroup, Idle
<1>. QED BY <1>1, <1>2, <1>3, <1>4, <1>5, SaveTouch

LEMMA SaveStepKeepsCalls ==
  ASSUME SaveTypeOK, \A q \in Saves : SaveCall(q), NEW s \in Saves, SaveStep(s), NEW q \in Saves
  PROVE  SaveCall(q)'
<1>1. CASE q = s
  BY <1>1, OwnCall
<1>2. CASE q # s
  <2>1. SavesOnly(q)' /\ answer'[q] = answer[q]
    BY <1>2, MailOfSaveStep DEF SaveCall, SavesOnly
  <2>. QED BY <1>2, <2>1, OtherSaves DEF SaveUntouched, SaveCall, SavesOnly, Idle, CurrentGroup
<1>. QED BY <1>1, <1>2

LEMMA ServeKeepsSaveCalls ==
  ASSUME SaveTypeOK, InOrder, NEW a \in Agent, NEW kind \in ReplyKind, Serve(a, kind),
         UNCHANGED saveVars, NEW q \in Saves, SaveCall(q)
  PROVE  SaveCall(q)'
<1>a. AgentsTypeOK /\ q \in Thread
  BY SaveAssumption DEF SaveTypeOK
<1>1. ServeDoes(a, kind) /\ SavesOnly(q)'
  BY <1>a, ServeEffect, ServeSendsNothing, NoMailNoNews DEF SaveCall, SavesOnly
<1>2. CASE answer'[q] = answer[q]
  BY <1>1, <1>2 DEF saveVars, SaveCall, SavesOnly, Idle, CurrentGroup
<1>3. CASE answer'[q] # answer[q]
  <2> DEFINE m == queue[a][1]
  <2>1. m.awaited /\ m.from = q /\ 1 \in DOMAIN queue[a] /\ m.feature \in Feature
    BY <1>a, <1>1, <1>3 DEF ServeDoes, Message
  <2>2. ~Idle(q) /\ m.op = "save"
    BY <2>1 DEF InOrder, MailboxesInOrder, Idle, SaveCall
  <2>3. answer'[q].feature = answer[q].feature
    BY <1>1, <2>1 DEF ServeDoes
  <2>4. answer'[q].kind = "ok" => answer'[q].data # None
    BY <1>a, <1>1, <2>1, <2>2 DEF ServeDoes, AgentsTypeOK
  <2>. QED BY <1>1, <2>2, <2>3, <2>4 DEF saveVars, SaveCall, SavesOnly, CurrentGroup
<1>. QED BY <1>2, <1>3

-----------------------------------------------------------------------------
(* The payload. *)

(* The group at hand is one asked for, and the next step is about the others.   *)
LEMMA GroupsAhead ==
  ASSUME SaveTypeOK, NEW s \in Saves, groupsLeft[s] # <<>>
  PROVE  /\ CurrentGroup(s) \in Ahead(s)
         /\ groupsLeft'[s] = Tail(groupsLeft[s]) =>
              /\ Ahead(s) = {CurrentGroup(s)} \cup Ahead(s)'
              /\ (\A i, j \in DOMAIN groupsLeft[s] : groupsLeft[s][i] = groupsLeft[s][j] => i = j) =>
                   /\ CurrentGroup(s) \notin Ahead(s)'
                   /\ \A i, j \in DOMAIN groupsLeft'[s] : groupsLeft'[s][i] = groupsLeft'[s][j] => i = j
<1>1. groupsLeft[s] \in Seq(Group \cup StrayGroup)
  BY DEF SaveTypeOK
<1>2. CurrentGroup(s) \in Ahead(s)
  BY <1>1, HeadAndTail DEF Ahead, CurrentGroup
<1> DEFINE q == groupsLeft[s]
<1>3. /\ {q[i] : i \in DOMAIN q} = {Head(q)} \cup {Tail(q)[i] : i \in DOMAIN Tail(q)}
      /\ (\A i, j \in DOMAIN q : q[i] = q[j] => i = j) =>
           /\ Head(q) \notin {Tail(q)[i] : i \in DOMAIN Tail(q)}
           /\ \A i, j \in DOMAIN Tail(q) : Tail(q)[i] = Tail(q)[j] => i = j
  BY <1>1, HeadOrTail
<1>4. ASSUME groupsLeft'[s] = Tail(q)
      PROVE  Ahead(s)' = {Tail(q)[i] : i \in DOMAIN Tail(q)}
  BY <1>4 DEF Ahead
<1>5. Ahead(s) = {q[i] : i \in DOMAIN q} /\ CurrentGroup(s) = Head(q)
  BY DEF Ahead, CurrentGroup
<1>. QED BY <1>2, <1>3, <1>4, <1>5

LEMMA NextGroupDoes ==
  ASSUME SaveTypeOK, NEW s \in Saves, NextGroup(s)
  PROVE  savePc'[s] = "next" /\ groupsLeft'[s] = Tail(groupsLeft[s])
BY DEF NextGroup, SaveTypeOK

(* A reply that reports on the feature adds it to its group.                   *)
LEMMA FeatureSavedDoes ==
  ASSUME SaveTypeOK, NEW s \in Saves, SaveCall(s), FeatureSaved(s),
         answer[s].kind # "empty"
  PROVE  LET g == CurrentGroup(s) IN
         /\ g \in Group /\ savePc[s] = "saving"
         /\ SavedOf(s, g)' = SavedOf(s, g) \cup {answer[s].feature}
         /\ LeftOf(s) = {answer[s].feature} \cup LeftOf(s)'
         /\ InPayload(s, g)'
         /\ \A h \in Group : h # g =>
              SavedOf(s, h)' = SavedOf(s, h) /\ (InPayload(s, h)' <=> InPayload(s, h))
         /\ savePc' = savePc /\ groupsLeft' = groupsLeft /\ allGroupsSaved' = allGroupsSaved
         /\ saveRequest' = saveRequest /\ saveStatus' = saveStatus
<1> DEFINE g == CurrentGroup(s)
           e == [m_feature |-> answer[s].feature, data |-> answer[s].data]
           old == savedGroups[s][g]
<1>1. /\ savePc[s] = "saving" /\ answer[s].kind = "ok" /\ Answered(s)
      /\ featuresLeft' = [featuresLeft EXCEPT ![s] = Tail(@)]
      /\ UNCHANGED <<saveRequest, savePc, groupsLeft, allGroupsSaved, saveStatus>>
  BY DEF FeatureSaved, Succeeded, Answered
<1>2. g \in Group /\ e \in SavedFeature /\ featuresLeft[s] # <<>>
      /\ answer[s].feature = Head(featuresLeft[s])
  BY <1>1, SavingFacts
<1>3. /\ \A h \in Group : h # g => savedGroups'[s][h] = savedGroups[s][h]
      /\ savedGroups'[s][g] = Append(old, e)
  BY <1>1, SavedEffect
<1>4. old \in Seq(SavedFeature)
  BY <1>2 DEF SaveTypeOK
<1>5. e.m_feature = answer[s].feature
  OBVIOUS
<1> HIDE DEF e, old
<1>6. /\ Len(old) \in Nat /\ DOMAIN old = 1..Len(old) /\ DOMAIN Append(old, e) = 1..(Len(old) + 1)
      /\ \A i \in 1..Len(old) : Append(old, e)[i] = old[i]
      /\ Append(old, e)[Len(old) + 1] = e /\ Append(old, e) # <<>>
  BY <1>2, <1>4, AppendProperties, LenProperties
<1>7. {Append(old, e)[i].m_feature : i \in DOMAIN Append(old, e)} =
        {old[i].m_feature : i \in DOMAIN old} \cup {e.m_feature}
  <2>1. \A i \in DOMAIN Append(old, e) :
          (i \in DOMAIN old /\ Append(old, e)[i] = old[i]) \/ Append(old, e)[i] = e
    BY <1>6
  <2>2. \A i \in DOMAIN old : i \in DOMAIN Append(old, e) /\ Append(old, e)[i] = old[i]
    BY <1>6
  <2>3. Len(old) + 1 \in DOMAIN Append(old, e) /\ Append(old, e)[Len(old) + 1] = e
    BY <1>6
  <2>. QED BY <2>1, <2>2, <2>3
<1>8. CurrentGroup(s)' = g
  BY <1>1 DEF CurrentGroup
<1>9. SavedOf(s, g)' = SavedOf(s, g) \cup {answer[s].feature} /\ InPayload(s, g)'
  <2> DEFINE new == Append(old, e)
  <2>1. SavedOf(s, g) = {old[i].m_feature : i \in DOMAIN old}
    BY DEF SavedOf, old
  <2>2. savedGroups'[s][g] = new
    BY <1>3
  <2> HIDE DEF new, g
  <2>3. \A h : h = g => SavedOf(s, h)' = {new[i].m_feature : i \in DOMAIN new} /\ (InPayload(s, h)' <=> h \in Group /\ new # <<>>)
    BY <2>2 DEF SavedOf, InPayload
  <2>4. g' = g
    BY <1>8 DEF g
  <2>. QED BY <1>2, <1>5, <1>6, <1>7, <2>1, <2>3, <2>4 DEF new
<1>10. LeftOf(s) = {answer[s].feature} \cup LeftOf(s)'
  <2>1. featuresLeft[s] \in Seq(Feature) /\ featuresLeft'[s] = Tail(featuresLeft[s])
    BY <1>1 DEF SaveTypeOK
  <2> DEFINE q == featuresLeft[s]
  <2>2. {q[i] : i \in DOMAIN q} = {Head(q)} \cup {Tail(q)[i] : i \in DOMAIN Tail(q)}
    BY <1>2, <2>1, HeadOrTail
  <2>3. LeftOf(s) = {q[i] : i \in DOMAIN q}
    BY DEF LeftOf
  <2>4. LeftOf(s)' = {Tail(q)[i] : i \in DOMAIN Tail(q)}
    BY <2>1 DEF LeftOf
  <2>. QED BY <1>2, <2>2, <2>3, <2>4
<1>11. \A h \in Group : h # g =>
         SavedOf(s, h)' = SavedOf(s, h) /\ (InPayload(s, h)' <=> InPayload(s, h))
  BY <1>3 DEF SavedOf, InPayload
<1> HIDE DEF g
<1>12. g \in Group /\ SavedOf(s, g)' = SavedOf(s, g) \cup {answer[s].feature} /\ InPayload(s, g)'
  BY <1>2, <1>9
<1>. QED BY <1>1, <1>10, <1>11, <1>12 DEF g

LEMMA BeginGroupDoes ==
  ASSUME SaveTypeOK, NEW s \in Saves, BeginGroup(s)
  PROVE  /\ savePc'[s] = "saving" /\ CurrentGroup(s) \in Group /\ groupsLeft[s] # <<>>
         /\ LeftOf(s)' = FeaturesOf(CurrentGroup(s))
         /\ UNCHANGED <<groupsLeft, savedGroups, allGroupsSaved, saveRequest, saveStatus, answer>>
<1> DEFINE fp == m_fp[CurrentGroup(s)]
           fs == [i \in DOMAIN fp |-> fp[i].m_feature]
<1>1. featuresLeft'[s] = fs
  BY DEF BeginGroup, SaveTypeOK
<1>2. LeftOf(s)' = {fs[i] : i \in DOMAIN fs}
  BY <1>1 DEF LeftOf
<1>3. {fs[i] : i \in DOMAIN fs} = FeaturesOf(CurrentGroup(s))
  BY DEF FeaturesOf
<1>. QED BY <1>2, <1>3 DEF BeginGroup, SaveTypeOK, agentVars

LEMMA GroupFailedDoes ==
  ASSUME SaveTypeOK, NEW s \in Saves, SaveCall(s), GroupFailed(s)
  PROVE  /\ CurrentGroup(s) \in Group /\ groupsLeft[s] # <<>> /\ NextGroup(s)
         /\ ~allGroupsSaved'[s]
         /\ \A h \in Group :
              /\ h = CurrentGroup(s) => SavedOf(s, h)' = {} /\ ~InPayload(s, h)'
              /\ h # CurrentGroup(s) =>
                   SavedOf(s, h)' = SavedOf(s, h) /\ (InPayload(s, h)' <=> InPayload(s, h))
         /\ saveRequest' = saveRequest /\ saveStatus' = saveStatus /\ answer'[s] = NoAnswer
<1> DEFINE g == CurrentGroup(s)
<1>1. g \in Group /\ groupsLeft[s] # <<>>
  BY SavingFacts DEF GroupFailed
<1>2. savedGroups \in [Saves -> [Group -> Seq(SavedFeature)]]
  BY DEF SaveTypeOK
<1>3. savedGroups' = [savedGroups EXCEPT ![s][g] = <<>>]
  BY DEF GroupFailed
<1>4. savedGroups'[s][g] = <<>> /\ \A h \in Group : h # g => savedGroups'[s][h] = savedGroups[s][h]
  BY <1>1, <1>2, <1>3
<1>5. NextGroup(s) /\ ~allGroupsSaved'[s] /\ saveRequest' = saveRequest /\ saveStatus' = saveStatus
  BY DEF GroupFailed, SaveTypeOK
<1>6. answer'[s] = NoAnswer
  BY SaveAssumption DEF GroupFailed, Consume, SaveTypeOK, AgentsTypeOK
<1>7. \A h \in Group :
        /\ h = g => SavedOf(s, h)' = {} /\ ~InPayload(s, h)'
        /\ h # g => SavedOf(s, h)' = SavedOf(s, h) /\ (InPayload(s, h)' <=> InPayload(s, h))
  <2> HIDE DEF g
  <2>. QED BY <1>4 DEF SavedOf, InPayload
<1>. QED BY <1>1, <1>5, <1>6, <1>7 DEF g

LEMMA NoEmptyReplyOfItsOwn ==
  ASSUME SaveTypeOK, NEW s \in Saves, SaveStep(s), answer[s].kind # "empty"
  PROVE  answer'[s].kind # "empty"
<1>a. AgentsTypeOK /\ s \in Thread
  BY SaveAssumption DEF SaveTypeOK
<1>1. CASE SendSave(s)
  <2>1. answer'[s] = [kind |-> "pending", feature |-> Head(featuresLeft[s]), data |-> None]
    BY <1>a, <1>1, SaveQuery DEF Call, AgentsTypeOK
  <2>. QED BY <2>1
<1>2. CASE SaveGiveUp(s)
  BY <1>a, <1>2, TimeOutEffect DEF SaveGiveUp, TimeOutDoes
<1>3. CASE Consume(s)
  BY <1>a, <1>3 DEF Consume, AgentsTypeOK, NoAnswer
<1>4. CASE UNCHANGED agentVars
  BY <1>4 DEF agentVars
<1>. QED BY <1>1, <1>2, <1>3, <1>4, SaveTouch

(* The steps that leave the payload as it is.                                  *)
LEMMA PayloadStands ==
  ASSUME NEW s, savedGroups'[s] = savedGroups[s], saveRequest'[s] = saveRequest[s]
  PROVE  /\ AskedFor(s)' = AskedFor(s)
         /\ \A g : SavedOf(s, g)' = SavedOf(s, g) /\ (InPayload(s, g)' <=> InPayload(s, g))
         /\ NamesAGroupTwice(s)' <=> NamesAGroupTwice(s)
BY DEF AskedFor, SavedOf, InPayload, NamesAGroupTwice

LEMMA SaveStepKeepsPayload ==
  ASSUME SaveTypeOK, NEW s \in Saves, SaveCall(s), SavedSoFar(s), SaveStep(s)
  PROVE  SavedSoFar(s)'
<1>0. answer'[s].kind # "empty"
  BY NoEmptyReplyOfItsOwn DEF SavedSoFar
<1>1. CASE SaveRejected(s) \/ SaveAnswered(s) \/ SendSave(s) \/ SaveGiveUp(s)
  <2>1. /\ savedGroups' = savedGroups /\ groupsLeft' = groupsLeft /\ featuresLeft' = featuresLeft
        /\ saveRequest' = saveRequest
        /\ savePc'[s] = savePc[s] \/ (savePc'[s] = "answered" /\ savePc[s] # "saving")
    BY <1>1 DEF SaveTypeOK, SaveRejected, SaveAnswered, SendSave, SaveGiveUp, saveVars
  <2>2. Ahead(s)' = Ahead(s) /\ LeftOf(s)' = LeftOf(s) /\ CurrentGroup(s)' = CurrentGroup(s)
    BY <2>1 DEF Ahead, LeftOf, CurrentGroup
  <2>. QED BY <1>0, <2>1, <2>2, PayloadStands DEF SavedSoFar, CurrentGroup
<1>2. CASE SaveAccepted(s)
  <2>1. /\ savedGroups' = savedGroups /\ saveRequest' = saveRequest /\ savePc'[s] = "next"
        /\ groupsLeft'[s] = saveRequest[s].m_group_list /\ savePc[s] = "decode"
    BY <1>2 DEF SaveTypeOK, SaveAccepted
  <2>2. Ahead(s)' = AskedFor(s)
    BY <2>1 DEF Ahead, AskedFor
  <2>. QED BY <1>0, <2>1, <2>2, PayloadStands DEF SavedSoFar
<1>3. CASE UnknownGroup(s)
  <2>1. /\ savedGroups' = savedGroups /\ saveRequest' = saveRequest /\ savePc[s] = "next"
        /\ savePc'[s] = "next" /\ groupsLeft'[s] = Tail(groupsLeft[s]) /\ groupsLeft[s] # <<>>
    BY <1>3, NextGroupDoes DEF SaveTypeOK, UnknownGroup
  <2>2. Ahead(s)' \subseteq Ahead(s)
    BY <2>1, GroupsAhead
  <2>. QED BY <1>0, <2>1, <2>2, PayloadStands DEF SavedSoFar
<1>4. CASE BeginGroup(s)
  <2>1. /\ savePc'[s] = "saving" /\ LeftOf(s)' = FeaturesOf(CurrentGroup(s))
        /\ UNCHANGED <<groupsLeft, savedGroups, saveRequest>>
    BY <1>4, BeginGroupDoes
  <2>2. Ahead(s)' = Ahead(s) /\ CurrentGroup(s)' = CurrentGroup(s) /\ savePc[s] = "next"
    BY <1>4, <2>1 DEF Ahead, CurrentGroup, BeginGroup
  <2>. QED BY <1>0, <2>1, <2>2, PayloadStands DEF SavedSoFar
<1>5. CASE FeatureSaved(s)
  <2> DEFINE c == CurrentGroup(s)
  <2>1. /\ c \in Group /\ savePc[s] = "saving"
        /\ SavedOf(s, c)' = SavedOf(s, c) \cup {answer[s].feature}
        /\ LeftOf(s) = {answer[s].feature} \cup LeftOf(s)'
        /\ \A h \in Group : h # c =>
              SavedOf(s, h)' = SavedOf(s, h) /\ (InPayload(s, h)' <=> InPayload(s, h))
        /\ savePc' = savePc /\ groupsLeft' = groupsLeft /\ saveRequest' = saveRequest
    BY <1>5, FeatureSavedDoes DEF SavedSoFar
  <2>2. /\ Ahead(s)' = Ahead(s) /\ CurrentGroup(s)' = c /\ AskedFor(s)' = AskedFor(s)
        /\ c \in AskedFor(s)
    <3>1. groupsLeft[s] # <<>>
      BY <2>1 DEF SaveCall
    <3>2. c \in Ahead(s)
      BY <3>1, GroupsAhead
    <3>. QED BY <2>1, <3>2 DEF Ahead, CurrentGroup, AskedFor, SavedSoFar
  <2>3. ASSUME NEW g \in Group
        PROVE  /\ SavedOf(s, g)' \subseteq FeaturesOf(g)
               /\ InPayload(s, g)' => g \in AskedFor(s)
               /\ InPayload(s, g)' /\ g # c => FeaturesOf(g) \subseteq SavedOf(s, g)'
    <3>1. CASE g = c
      <4>1. g = CurrentGroup(s)' /\ SavedOf(s, g) = SavedOf(s, c)
        BY <2>2, <3>1
      <4>2. \A x : x \in SavedOf(s, g)' <=> x \in SavedOf(s, CurrentGroup(s))'
        BY <4>1 DEF SavedOf
      <4>3. SavedOf(s, g)' = SavedOf(s, g) \cup {answer[s].feature}
        BY <2>1, <4>1, <4>2
      <4>. QED BY <2>1, <2>2, <3>1, <4>3 DEF SavedSoFar
    <3>2. CASE g # c
      BY <2>1, <2>2, <3>2 DEF SavedSoFar
    <3>. QED BY <3>1, <3>2
  <2>4. /\ LeftOf(s)' \subseteq FeaturesOf(c)
        /\ FeaturesOf(c) \subseteq SavedOf(s, c)' \cup LeftOf(s)'
    BY <2>1, <2>2 DEF SavedSoFar
  <2>. QED BY <1>0, <2>1, <2>2, <2>3, <2>4 DEF SavedSoFar
<1>6. CASE GroupFailed(s)
  <2>1. /\ CurrentGroup(s) \in Group /\ groupsLeft[s] # <<>>
        /\ savePc'[s] = "next" /\ groupsLeft'[s] = Tail(groupsLeft[s])
        /\ \A h \in Group :
             /\ h = CurrentGroup(s) => SavedOf(s, h)' = {} /\ ~InPayload(s, h)'
             /\ h # CurrentGroup(s) =>
                  SavedOf(s, h)' = SavedOf(s, h) /\ (InPayload(s, h)' <=> InPayload(s, h))
        /\ saveRequest' = saveRequest
    BY <1>6, GroupFailedDoes, NextGroupDoes
  <2>2. Ahead(s)' \subseteq Ahead(s) /\ AskedFor(s)' = AskedFor(s)
    BY <2>1, GroupsAhead DEF AskedFor
  <2>. QED BY <1>0, <2>1, <2>2 DEF SavedSoFar
<1>7. CASE GroupSaved(s)
  <2>1. /\ savedGroups' = savedGroups /\ saveRequest' = saveRequest /\ savePc[s] = "saving"
        /\ featuresLeft[s] = <<>> /\ savePc'[s] = "next"
        /\ groupsLeft'[s] = Tail(groupsLeft[s]) /\ groupsLeft[s] # <<>>
    BY <1>7, NextGroupDoes, SavingFacts DEF GroupSaved
  <2>2. Ahead(s)' \subseteq Ahead(s) /\ LeftOf(s) = {}
    BY <2>1, GroupsAhead DEF LeftOf
  <2>. QED BY <1>0, <2>1, <2>2, PayloadStands DEF SavedSoFar
<1>. QED BY <1>1, <1>2, <1>3, <1>4, <1>5, <1>6, <1>7 DEF SaveStep

-----------------------------------------------------------------------------
(* The status. *)

Counted(s) == savePc[s] \in {"next", "saving"} \/ (savePc[s] = "answered" /\ WellFormed(saveRequest[s]))

(* No group asked for is lost while the thread has nothing to confess, and what  *)
(* it has to confess stays missing.                                            *)
MissingKnown(s) ==
  /\ allGroupsSaved[s] => \A g \in AskedFor(s) : g \in Ahead(s) \/ InPayload(s, g)
  /\ ~allGroupsSaved[s] /\ ~NamesAGroupTwice(s) =>
       \E g \in AskedFor(s) : g \notin Ahead(s) /\ ~InPayload(s, g)

Distinct(q) == \A i, j \in DOMAIN q : q[i] = q[j] => i = j

LEMMA SaveStepKeepsMissing ==
  ASSUME SaveTypeOK, NEW s \in Saves, SaveCall(s), SavedSoFar(s), SaveStep(s), Counted(s),
         MissingKnown(s), ~NamesAGroupTwice(s) => Distinct(groupsLeft[s])
  PROVE  MissingKnown(s)' /\ (~NamesAGroupTwice(s)' => Distinct(groupsLeft'[s]))
<1>a. saveRequest' = saveRequest /\ AskedFor(s)' = AskedFor(s)
      /\ (NamesAGroupTwice(s)' <=> NamesAGroupTwice(s))
  <2>1. saveRequest' = saveRequest
    BY DEF SaveStep, SaveRejected, SaveAccepted, SaveAnswered, UnknownGroup, BeginGroup, SendSave,
           SaveGiveUp, FeatureSaved, GroupFailed, GroupSaved, saveVars
  <2>. QED BY <2>1 DEF AskedFor, NamesAGroupTwice
<1>b. savePc[s] # "decode"
  BY DEF Counted
<1>1. CASE SaveAnswered(s) \/ SendSave(s) \/ SaveGiveUp(s) \/ BeginGroup(s)
  <2>1. savedGroups' = savedGroups /\ groupsLeft' = groupsLeft /\ allGroupsSaved' = allGroupsSaved
    BY <1>1 DEF SaveAnswered, SendSave, SaveGiveUp, BeginGroup, saveVars
  <2>. QED BY <1>a, <2>1, PayloadStands DEF MissingKnown, Ahead, Distinct
<1>2. CASE UnknownGroup(s)
  <2>1. /\ CurrentGroup(s) \notin Group /\ groupsLeft[s] # <<>> /\ ~allGroupsSaved'[s]
        /\ groupsLeft'[s] = Tail(groupsLeft[s]) /\ savedGroups' = savedGroups
    BY <1>2, NextGroupDoes DEF UnknownGroup, SaveTypeOK
  <2>2. CurrentGroup(s) \in AskedFor(s)
    BY <2>1, GroupsAhead DEF SavedSoFar
  <2>3. ~NamesAGroupTwice(s) => CurrentGroup(s) \notin Ahead(s)' /\ Distinct(groupsLeft'[s])
    BY <2>1, GroupsAhead DEF Distinct
  <2>4. \A g : g = CurrentGroup(s) => ~InPayload(s, g)'
    BY <2>1 DEF InPayload
  <2>. QED BY <1>a, <2>1, <2>2, <2>3, <2>4 DEF MissingKnown
<1>3. CASE FeatureSaved(s)
  <2>1. /\ CurrentGroup(s) \in Group /\ savePc[s] = "saving" /\ groupsLeft[s] # <<>>
        /\ InPayload(s, CurrentGroup(s))'
        /\ \A h \in Group : h # CurrentGroup(s) => (InPayload(s, h)' <=> InPayload(s, h))
        /\ groupsLeft' = groupsLeft /\ allGroupsSaved' = allGroupsSaved
    BY <1>3, FeatureSavedDoes DEF SavedSoFar, SaveCall
  <2>2. CurrentGroup(s) \in Ahead(s) /\ Ahead(s)' = Ahead(s)
    BY <2>1, GroupsAhead DEF Ahead
  <2>3. \A h : h \notin Group => ~InPayload(s, h) /\ ~InPayload(s, h)'
    BY DEF InPayload
  <2>4. \A h : h # CurrentGroup(s) => (InPayload(s, h)' <=> InPayload(s, h))
    BY <2>1, <2>3
  <2>5. allGroupsSaved'[s] => \A g \in AskedFor(s) : g \in Ahead(s) \/ InPayload(s, g)'
    BY <2>1, <2>2, <2>4 DEF MissingKnown
  <2>6. ~allGroupsSaved'[s] /\ ~NamesAGroupTwice(s) =>
          \E g \in AskedFor(s) : g \notin Ahead(s) /\ ~InPayload(s, g)'
    BY <2>1, <2>2, <2>4 DEF MissingKnown
  <2>. QED BY <1>a, <2>1, <2>2, <2>5, <2>6 DEF MissingKnown, Distinct
<1>4. CASE GroupFailed(s)
  <2>1. /\ CurrentGroup(s) \in Group /\ groupsLeft[s] # <<>> /\ ~allGroupsSaved'[s]
        /\ groupsLeft'[s] = Tail(groupsLeft[s])
        /\ \A h \in Group : h = CurrentGroup(s) => ~InPayload(s, h)'
    BY <1>4, GroupFailedDoes, NextGroupDoes
  <2>2. CurrentGroup(s) \in AskedFor(s)
    BY <2>1, GroupsAhead DEF SavedSoFar
  <2>3. ~NamesAGroupTwice(s) => CurrentGroup(s) \notin Ahead(s)' /\ Distinct(groupsLeft'[s])
    BY <2>1, GroupsAhead DEF Distinct
  <2>. QED BY <1>a, <2>1, <2>2, <2>3 DEF MissingKnown
<1>5. CASE GroupSaved(s)
  <2>1. /\ savedGroups' = savedGroups /\ savePc[s] = "saving" /\ featuresLeft[s] = <<>>
        /\ groupsLeft'[s] = Tail(groupsLeft[s]) /\ groupsLeft[s] # <<>>
        /\ allGroupsSaved' = allGroupsSaved /\ CurrentGroup(s) \in Group
    BY <1>5, NextGroupDoes, SavingFacts DEF GroupSaved
  <2>2. InPayload(s, CurrentGroup(s))
    <3> DEFINE g == CurrentGroup(s)
    <3>1. LeftOf(s) = {} /\ FeaturesOf(g) # {} /\ FeaturesOf(g) \subseteq SavedOf(s, g)
      <4>1. LeftOf(s) = {}
        BY <2>1 DEF LeftOf
      <4>2. FeaturesOf(g) # {}
        BY <2>1, GroupIsListed
      <4>3. FeaturesOf(g) \subseteq SavedOf(s, g) \cup LeftOf(s)
        BY <2>1 DEF SavedSoFar
      <4>. QED BY <4>1, <4>2, <4>3
    <3>2. savedGroups[s][g] # <<>>
      <4>1. SUFFICES ASSUME savedGroups[s][g] = <<>> PROVE SavedOf(s, g) = {}
        BY <3>1
      <4>. QED BY <4>1 DEF SavedOf
    <3>. QED BY <2>1, <3>2 DEF InPayload
  <2>3. Ahead(s) = {CurrentGroup(s)} \cup Ahead(s)'
        /\ (~NamesAGroupTwice(s) => Distinct(groupsLeft'[s]))
    BY <2>1, GroupsAhead DEF Distinct
  <2>4. \A g : InPayload(s, g)' <=> InPayload(s, g)
    BY <1>a, <2>1, PayloadStands
  <2>5. allGroupsSaved[s] => \A g \in AskedFor(s) : g \in Ahead(s)' \/ InPayload(s, g)
    BY <2>2, <2>3 DEF MissingKnown
  <2>6. ~allGroupsSaved[s] /\ ~NamesAGroupTwice(s) =>
          \E g \in AskedFor(s) : g \notin Ahead(s)' /\ ~InPayload(s, g)
    BY <2>3 DEF MissingKnown
  <2>. QED BY <1>a, <2>1, <2>3, <2>4, <2>5, <2>6 DEF MissingKnown
<1>. QED BY <1>b, <1>1, <1>2, <1>3, <1>4, <1>5 DEF SaveStep, SaveRejected, SaveAccepted

LEMMA SaveStepKeepsBooks ==
  ASSUME SaveTypeOK, NEW s \in Saves, SaveCall(s), SavedSoFar(s), SaveBooks(s), SaveStep(s)
  PROVE  SaveBooks(s)'
<1>a. saveRequest' = saveRequest /\ (WellFormed(saveRequest[s])' <=> WellFormed(saveRequest[s]))
  BY DEF SaveStep, SaveRejected, SaveAccepted, SaveAnswered, UnknownGroup, BeginGroup, SendSave,
         SaveGiveUp, FeatureSaved, GroupFailed, GroupSaved, saveVars, WellFormed
<1>1. CASE SaveRejected(s)
  <2>1. /\ savePc'[s] = "answered" /\ ~WellFormed(saveRequest[s]) /\ saveStatus'[s] = "FAILED"
        /\ groupsLeft' = groupsLeft
    BY <1>1 DEF SaveRejected, SaveTypeOK, SaveBooks
  <2>. QED BY <1>a, <2>1 DEF SaveBooks, NamesAGroupTwice
<1>2. CASE SaveAccepted(s)
  <2>1. /\ savePc'[s] = "next" /\ WellFormed(saveRequest[s]) /\ allGroupsSaved'[s]
        /\ groupsLeft'[s] = saveRequest[s].m_group_list
    BY <1>2 DEF SaveAccepted, SaveTypeOK, SaveBooks
  <2>2. Ahead(s)' = AskedFor(s)' /\ (~NamesAGroupTwice(s)' => Distinct(groupsLeft'[s]))
    BY <1>a, <2>1 DEF Ahead, AskedFor, NamesAGroupTwice, Distinct
  <2>. QED BY <1>a, <2>1, <2>2 DEF SaveBooks, Distinct
<1>3. CASE ~SaveRejected(s) /\ ~SaveAccepted(s)
  <2>1. savePc[s] \in {"next", "saving"} \/ (SaveGiveUp(s) /\ UNCHANGED saveVars)
    BY <1>3 DEF SaveStep, SaveAnswered, UnknownGroup, BeginGroup, SendSave, SaveGiveUp, FeatureSaved,
                GroupFailed, GroupSaved
  <2>2. CASE UNCHANGED saveVars
    <3>1. Ahead(s)' = Ahead(s)
      BY <2>2 DEF saveVars, Ahead
    <3>2. \A g : InPayload(s, g)' <=> InPayload(s, g)
      BY <2>2 DEF saveVars, InPayload
    <3>. QED BY <1>a, <2>2, <3>1, <3>2 DEF saveVars, SaveBooks, NamesAGroupTwice, AskedFor
  <2>3. CASE savePc[s] \in {"next", "saving"}
    <3>1. Counted(s) /\ MissingKnown(s) /\ WellFormed(saveRequest[s])
          /\ (~NamesAGroupTwice(s) => Distinct(groupsLeft[s]))
      BY <2>3 DEF Counted, SaveBooks, MissingKnown, Distinct
    <3>2. MissingKnown(s)' /\ (~NamesAGroupTwice(s)' => Distinct(groupsLeft'[s]))
      BY <3>1, SaveStepKeepsMissing
    <3>3. savePc'[s] \in {"next", "saving"} \/ SaveAnswered(s)
      BY <1>3, <2>3 DEF SaveStep, UnknownGroup, BeginGroup, SendSave, SaveGiveUp, FeatureSaved,
                        GroupFailed, GroupSaved, NextGroup, SaveTypeOK, saveVars
    <3>4. SaveAnswered(s) =>
            /\ savePc'[s] = "answered" /\ groupsLeft'[s] = <<>>
            /\ saveStatus'[s] = IF allGroupsSaved'[s] THEN "SUCCESS" ELSE "PARTIAL_SUCCESS"
      BY DEF SaveAnswered, SaveTypeOK
    <3>. QED BY <1>a, <3>1, <3>2, <3>3, <3>4 DEF SaveBooks, MissingKnown, Distinct
  <2>. QED BY <2>1, <2>2, <2>3
<1>. QED BY <1>1, <1>2, <1>3

-----------------------------------------------------------------------------
(* The invariant. *)

(* The part of it that needs nothing of the replies.                           *)
CallsInv == SaveTypeOK /\ InOrder /\ \A s \in Saves : SaveCall(s)

LEMMA InitSaveInv == SaveInit => SaveInv
<1> SUFFICES ASSUME SaveInit PROVE SaveInv
  OBVIOUS
<1>1. AgentsInit /\ Saves \subseteq Thread
  BY SaveAssumption DEF SaveInit
<1>2. AgentsTypeOK
  BY <1>1, NoNoneAmongConfigurations, EmptySeq
  DEF AgentsInit, AgentsTypeOK, NoAnswer, Answer, AnswerKind
<1>3. SaveTypeOK
  BY <1>2, EmptySeq DEF SaveInit, SaveTypeOK
<1>4. MailboxesInOrder /\ CallsPosted
  BY <1>1 DEF AgentsInit, NoAnswer, MailboxesInOrder, CallsPosted
<1>5. ASSUME NEW s \in Saves PROVE SaveCall(s) /\ SavedSoFar(s) /\ SaveBooks(s)
  <2>1. /\ savePc[s] = "decode" /\ groupsLeft[s] = <<>> /\ savedGroups[s] = [g \in Group |-> <<>>]
        /\ allGroupsSaved[s] /\ saveStatus[s] = "FAILED" /\ answer[s] = NoAnswer
        /\ \A a \in Agent : queue[a] = <<>>
    BY <1>1 DEF SaveInit, AgentsInit
  <2>2. SaveCall(s)
    BY <2>1 DEF SaveCall, Idle, NoAnswer
  <2>3. \A g : SavedOf(s, g) = {} \/ g \notin Group
    BY <2>1 DEF SavedOf
  <2>4. SavedSoFar(s)
    BY <2>1, <2>3 DEF SavedSoFar, InPayload, Ahead, NoAnswer
  <2>5. SaveBooks(s)
    BY <2>1 DEF SaveBooks
  <2>. QED BY <2>2, <2>4, <2>5
<1>. QED BY <1>3, <1>4, <1>5 DEF SaveInv

LEMMA StepKeepsCallsInv ==
  ASSUME CallsInv, [SaveNext]_saveSystemVars
  PROVE  CallsInv'
<1>a. SaveTypeOK /\ InOrder /\ \A q \in Saves : SaveCall(q)
  BY DEF CallsInv
<1>1. ASSUME NEW s \in Saves, SaveStep(s) PROVE CallsInv'
  BY <1>a, <1>1, SaveStepKeepsTypes, SaveStepKeepsMail, SaveStepKeepsCalls DEF CallsInv
<1>2. ASSUME NEW a \in Agent, NEW kind \in ReplyKind, Serve(a, kind), UNCHANGED saveVars
      PROVE  CallsInv'
  <2>1. AgentsTypeOK' /\ InOrder'
    BY <1>a, <1>2, ServeKeepsTypes, ServeKeepsOrder DEF SaveTypeOK
  <2>2. SaveTypeOK'
    BY <1>a, <1>2, <2>1 DEF SaveTypeOK, saveVars
  <2>. QED BY <1>a, <1>2, <2>1, <2>2, ServeKeepsSaveCalls DEF CallsInv
<1>3. CASE UNCHANGED saveSystemVars
  <2>1. UNCHANGED <<store, queue, answer, saveRequest, savePc, groupsLeft, featuresLeft, savedGroups,
                    allGroupsSaved, saveStatus>>
    BY <1>3 DEF saveSystemVars, agentVars, saveVars
  <2>2. SaveTypeOK'
    BY <1>a, <2>1 DEF SaveTypeOK, AgentsTypeOK
  <2>3. InOrder'
    BY <1>a, <2>1 DEF InOrder, MailboxesInOrder, CallsPosted
  <2>4. \A q \in Saves : SaveCall(q)'
    BY <1>a, <2>1 DEF SaveCall, Idle, CurrentGroup
  <2>. QED BY <2>2, <2>3, <2>4 DEF CallsInv
<1>. QED BY <1>1, <1>2, <1>3 DEF SaveNext

LEMMA PayloadAndBooksStand ==
  ASSUME NEW q \in Saves, SaveUntouched(q), SavedSoFar(q), SaveBooks(q), answer'[q].kind # "empty"
  PROVE  SavedSoFar(q)' /\ SaveBooks(q)'
<1>1. /\ AskedFor(q)' = AskedFor(q) /\ (NamesAGroupTwice(q)' <=> NamesAGroupTwice(q))
      /\ \A g : SavedOf(q, g)' = SavedOf(q, g) /\ (InPayload(q, g)' <=> InPayload(q, g))
  BY PayloadStands DEF SaveUntouched
<1>2. Ahead(q)' = Ahead(q) /\ LeftOf(q)' = LeftOf(q) /\ CurrentGroup(q)' = CurrentGroup(q)
  BY DEF SaveUntouched, Ahead, LeftOf, CurrentGroup
<1>3. /\ savePc'[q] = savePc[q] /\ groupsLeft'[q] = groupsLeft[q]
      /\ allGroupsSaved'[q] = allGroupsSaved[q] /\ saveStatus'[q] = saveStatus[q]
      /\ (WellFormed(saveRequest[q])' <=> WellFormed(saveRequest[q]))
  BY DEF SaveUntouched, WellFormed
<1>4. SavedSoFar(q)'
  <2>1. CASE savePc[q] = "saving"
    BY <1>1, <1>2, <1>3, <2>1 DEF SavedSoFar, CurrentGroup, SaveUntouched
  <2>2. CASE savePc[q] # "saving"
    BY <1>1, <1>2, <1>3, <2>2 DEF SavedSoFar
  <2>. QED BY <2>1, <2>2
<1>5. SaveBooks(q)'
  BY <1>1, <1>2, <1>3 DEF SaveBooks
<1>. QED BY <1>4, <1>5

LEMMA StepKeepsSaveInv ==
  ASSUME Reporting, SaveInv, [SaveNext]_saveSystemVars
  PROVE  SaveInv'
<1>a. /\ CallsInv /\ SaveTypeOK /\ AgentsTypeOK /\ Saves \subseteq Thread
      /\ \A q \in Saves : SaveCall(q) /\ SavedSoFar(q) /\ SaveBooks(q) /\ answer[q].kind # "empty"
  BY SaveAssumption DEF SaveInv, CallsInv, InOrder, SaveTypeOK, SavedSoFar
<1>b. CallsInv'
  BY <1>a, StepKeepsCallsInv
<1>1. ASSUME NEW s \in Saves, SaveStep(s), NEW q \in Saves
      PROVE  SavedSoFar(q)' /\ SaveBooks(q)'
  <2>1. CASE q = s
    BY <1>a, <1>1, <2>1, SaveStepKeepsPayload, SaveStepKeepsBooks
  <2>2. CASE q # s
    <3>1. answer'[q] = answer[q]
      BY <1>a, <1>1, <2>2, MailOfSaveStep DEF SaveCall, SavesOnly
    <3>. QED BY <1>a, <1>1, <2>2, <3>1, OtherSaves, PayloadAndBooksStand
  <2>. QED BY <2>1, <2>2
<1>2. ASSUME NEW a \in Agent, NEW kind \in ReplyKind, Serve(a, kind), UNCHANGED saveVars,
             NEW q \in Saves
      PROVE  SavedSoFar(q)' /\ SaveBooks(q)'
  <2>1. kind # "empty"
    BY DEF Reporting
  <2>2. ServeDoes(a, kind)
    BY <1>a, <1>2, ServeEffect
  <2>3. answer'[q].kind = kind \/ answer'[q] = answer[q]
    BY <1>a, <2>2 DEF ServeDoes
  <2>4. answer'[q].kind # "empty" /\ SaveUntouched(q)
    BY <1>a, <1>2, <2>1, <2>3 DEF saveVars, SaveUntouched
  <2>. QED BY <1>a, <2>4, PayloadAndBooksStand
<1>3. ASSUME UNCHANGED saveSystemVars, NEW q \in Saves
      PROVE  SavedSoFar(q)' /\ SaveBooks(q)'
  BY <1>a, <1>3, PayloadAndBooksStand DEF saveSystemVars, agentVars, saveVars, SaveUntouched
<1>4. \A q \in Saves : SavedSoFar(q)' /\ SaveBooks(q)'
  BY <1>1, <1>2, <1>3 DEF SaveNext
<1>. QED BY <1>b, <1>4 DEF SaveInv, CallsInv, InOrder

-----------------------------------------------------------------------------
(* What it says of the payload and of the status. *)

LEMMA InvComplete == SaveInv => PayloadGroupsComplete
<1> SUFFICES ASSUME SaveInv, NEW s \in Saves, savePc[s] = "answered",
                    NEW g \in Group, InPayload(s, g)
             PROVE  g \in AskedFor(s) /\ SavedOf(s, g) = FeaturesOf(g)
  BY DEF PayloadGroupsComplete
<1>. QED BY DEF SaveInv, SavedSoFar

LEMMA InvTold == SaveInv => SaveStatusHonest
<1> SUFFICES ASSUME SaveInv, NEW s \in Saves, savePc[s] = "answered"
             PROVE  LET missing == {g \in AskedFor(s) : ~InPayload(s, g)}
                    IN  /\ saveStatus[s] = "FAILED" <=> ~WellFormed(saveRequest[s])
                        /\ saveStatus[s] = "SUCCESS" => missing = {}
                        /\ saveStatus[s] = "PARTIAL_SUCCESS" /\ ~NamesAGroupTwice(s) => missing # {}
  BY DEF SaveStatusHonest
<1>1. SaveBooks(s)
  BY DEF SaveInv
<1>2. groupsLeft[s] = <<>> => Ahead(s) = {}
  BY DEF Ahead
<1>. QED BY <1>1, <1>2 DEF SaveBooks

-----------------------------------------------------------------------------
(* The theorems. *)

(* A save stores only features of the tables with a configuration, whatever      *)
(* the agents answer.                                                         *)
THEOREM SaveTypes == SaveSpec => []SaveTypeOK
<1>1. SaveInit => CallsInv
  BY InitSaveInv DEF SaveInv, CallsInv, InOrder
<1>2. CallsInv => SaveTypeOK
  BY DEF CallsInv
<1>. QED BY <1>1, <1>2, StepKeepsCallsInv, PTL DEF SaveSpec

(* What a payload has at any time, and what the thread takes for missing.        *)
THEOREM SaveInvariant == Reporting => (SaveSpec => []SaveInv)
<1> SUFFICES ASSUME Reporting PROVE SaveSpec => []SaveInv
  OBVIOUS
<1>. QED BY InitSaveInv, StepKeepsSaveInv, PTL DEF SaveSpec

(* No payload carries a group in part, whatever its features, the number of      *)
(* saves and the calls that failed or timed out.                              *)
THEOREM SavedCompletely == Reporting => (SaveSpec => []PayloadGroupsComplete)
<1> SUFFICES ASSUME Reporting PROVE SaveSpec => []PayloadGroupsComplete
  OBVIOUS
<1>. QED BY InvComplete, InitSaveInv, StepKeepsSaveInv, PTL DEF SaveSpec

(* The status of a save tells whether a group asked for is missing.              *)
THEOREM SaveToldHonestly == Reporting => (SaveSpec => []SaveStatusHonest)
<1> SUFFICES ASSUME Reporting PROVE SaveSpec => []SaveStatusHonest
  OBVIOUS
<1>. QED BY InvTold, InitSaveInv, StepKeepsSaveInv, PTL DEF SaveSpec

-----------------------------------------------------------------------------
(* Saves next to restores: a step of the one leaves the invariant of the other  *)
(* alone.                                                                     *)

ServerInv == RestoreInv /\ SaveInv

LEMMA ServerThreads ==
  ASSUME ServerInv
  PROVE  /\ TypeOK /\ RestoreTypeOK /\ SaveTypeOK /\ AgentsTypeOK /\ InOrder
         /\ \A q \in Restores : q \in Thread /\ q \notin Saves
         /\ \A q \in Saves : q \in Thread /\ q \notin Restores
BY ServerAssumption, SaveAssumption, PayloadAssumption
DEF ServerInv, RestoreInv, SaveInv, SaveTypeOK, TypeInv, TypeOK, InOrder

(* A save sends queries to save, of its own thread, and nothing else.           *)
LEMMA SaveStepSends ==
  ASSUME SaveTypeOK, NEW s \in Saves, SaveStep(s)
  PROVE  /\ store' = store
         /\ \A q \in Thread \ {s} : NoNewMail(q) /\ answer'[q] = answer[q]
         /\ \A a \in Agent : \A i \in DOMAIN queue'[a] : Changes(queue'[a][i]) =>
              \E j \in DOMAIN queue[a] : SameLetter(queue[a][j], queue'[a][i])
<1>a. AgentsTypeOK /\ s \in Thread
  BY SaveAssumption DEF SaveTypeOK
<1>1. CASE SendSave(s)
  <2> DEFINE f == Head(featuresLeft[s])
  <2>1. f \in Feature /\ f \in Name /\ "save" \in Op /\ None \in Data /\ Call(s, "save", f, None)
    BY <1>1, SaveQuery
  <2> HIDE DEF f
  <2>2. CallDoes(s, "save", f, None)
    BY <1>a, <2>1, CallEffect
  <2>3. store' = store
    BY <2>1 DEF Call
  <2>4. \A q \in Thread \ {s} : NoNewMail(q) /\ answer'[q] = answer[q]
    BY <1>a, <2>1, CallSendsForItself
  <2>5. ~Changes(Sent(s, "save", f, None))
    BY DEF Changes, Sent
  <2>6. ASSUME NEW a \in Agent, NEW i \in DOMAIN queue'[a], Changes(queue'[a][i])
        PROVE  \E j \in DOMAIN queue[a] : SameLetter(queue[a][j], queue'[a][i])
    <3>1. i \in DOMAIN queue[a] /\ queue'[a][i] = queue[a][i]
      BY <2>2, <2>5, <2>6 DEF CallDoes
    <3>. QED BY <3>1 DEF SameLetter
  <2>. QED BY <2>3, <2>4, <2>6
<1>2. ASSUME store' = store, \A q \in Thread : NoNewMail(q) /\ (q # s => answer'[q] = answer[q])
      PROVE  /\ store' = store
             /\ \A q \in Thread \ {s} : NoNewMail(q) /\ answer'[q] = answer[q]
             /\ \A a \in Agent : \A i \in DOMAIN queue'[a] :
                  queue'[a][i].from \in Thread =>
                    \E j \in DOMAIN queue[a] : SameLetter(queue[a][j], queue'[a][i])
  BY <1>2 DEF NoNewMail
<1>3. \A a \in Agent : \A i \in DOMAIN queue[a] : queue[a][i].from \in Thread
  BY <1>a, MessageTypes
<1>4. CASE SaveGiveUp(s)
  <2>1. TimeOutDoes(s)
    BY <1>a, <1>4, TimeOutEffect DEF SaveGiveUp
  <2>2. \A a \in Agent : \A i \in DOMAIN queue'[a] : queue'[a][i].from \in Thread
    BY <1>3, <2>1 DEF TimeOutDoes
  <2>3. store' = store /\ \A q \in Thread : NoNewMail(q) /\ (q # s => answer'[q] = answer[q])
    BY <1>a, <1>4, <2>1, TimeOutSendsNothing DEF SaveGiveUp, TimeOutDoes
  <2>. QED BY <1>2, <2>2, <2>3
<1>5. CASE Answered(s) /\ Consume(s)
  <2>1. queue' = queue /\ store' = store
    BY <1>5 DEF Consume
  <2>2. \A q \in Thread : NoNewMail(q) /\ (q # s => answer'[q] = answer[q])
    BY <1>a, <1>5, ConsumeSendsNothing
  <2>. QED BY <1>2, <1>3, <2>1, <2>2
<1>6. CASE UNCHANGED agentVars
  <2>1. queue' = queue /\ store' = store /\ answer' = answer
    BY <1>6 DEF agentVars
  <2>. QED BY <2>1 DEF NoNewMail, SameLetter
<1>. QED BY <1>1, <1>4, <1>5, <1>6, SaveTouch

LEMMA SaveStepKeepsLoops ==
  ASSUME ServerInv, NEW s \in Saves, SaveStep(s), UNCHANGED workerVars
  PROVE  LoopsInOrder' /\ \A q \in Restores : Bystander(q)
<1>a. \A q \in Restores : Bystander(q)
  BY DEF workerVars, Bystander
<1>b. LoopsInOrder
  BY DEF ServerInv, RestoreInv
<1>1. InOrder'
  BY ServerThreads, SaveStepKeepsMail
<1>2. ASSUME NEW q \in Restores PROVE CallOfLoop(q)' /\ LoopBounds(q)' /\ ItemsOnce(q)'
  <2>1. NoNewMail(q) /\ answer'[q] = answer[q]
    BY ServerThreads, SaveStepSends
  <2>. QED BY <1>a, <1>b, <2>1, CallStands, BoundsStand, OnceStands DEF LoopsInOrder
<1>. QED BY <1>a, <1>1, <1>2 DEF LoopsInOrder

LEMMA SaveStepKeepsAgreement ==
  ASSUME ServerInv, NEW s \in Saves, SaveStep(s), UNCHANGED workerVars
  PROVE  SInv'
<1>a. SInv /\ request' = request /\ store' = store
  BY ServerThreads, SaveStepSends DEF ServerInv, RestoreInv, workerVars
<1>b. \A q \in Restores : Bystander(q) /\ NoNewMail(q) /\ answer'[q] = answer[q]
  BY ServerThreads, SaveStepSends DEF workerVars, Bystander
<1>c. /\ \A q \in Restores : Scope(q)' = Scope(q)
      /\ \A f : Writers(f)' = Writers(f) /\ Writers(f) \subseteq Restores
  BY <1>a, SameScopes DEF Writers
<1>d. \A q \in Restores : \A f : (Done(q, f)' <=> Done(q, f)) /\ (AsFound(q, f)' <=> AsFound(q, f))
  BY <1>a, <1>b, ClaimsStand
<1>1. NothingLate'
  <2>1. ASSUME NEW a \in Agent, NEW i \in DOMAIN queue'[a], Changes(queue'[a][i])
        PROVE  queue'[a][i].from \in Restores /\ queue'[a][i].feature \in Scope(queue'[a][i].from)
    <3>1. PICK j \in DOMAIN queue[a] : SameLetter(queue[a][j], queue'[a][i])
      BY <2>1, ServerThreads, SaveStepSends
    <3>2. /\ Changes(queue[a][j]) /\ queue'[a][i].from = queue[a][j].from
          /\ queue'[a][i].feature = queue[a][j].feature
      BY <2>1, <3>1 DEF SameLetter, Changes
    <3>. QED BY <1>a, <3>2 DEF SInv, NothingLate
  <2>2. ASSUME NEW q \in Restores, NEW f \in Feature, Done(q, f)' \/ AsFound(q, f)'
        PROVE  ~InTheMail(q, f)'
    <3>1. ~InTheMail(q, f)
      BY <1>a, <1>d, <2>2 DEF SInv, NothingLate
    <3>. QED BY <1>b, <3>1, NoMoreInTheMail
  <2>. QED BY <1>c, <2>1, <2>2 DEF NothingLate, Changes
<1>2. Composed' /\ \A f \in Feature : Writers(f)' = {} => store'[f] = Initial
  BY <1>a, <1>c, <1>d DEF SInv, Composed
<1>3. \A q \in Restores : KeptAsFound(q)'
  BY <1>a, <1>b, KeptStands DEF SInv
<1>. QED BY <1>1, <1>2, <1>3 DEF SInv

LEMMA SaveStepKeepsRestoreInv ==
  ASSUME ServerInv, NEW s \in Saves, SaveStep(s), UNCHANGED workerVars
  PROVE  RestoreInv'
<1>1. LoopsInOrder' /\ SInv' /\ \A q \in Restores : Bystander(q)
  BY SaveStepKeepsLoops, SaveStepKeepsAgreement
<1>2. TypeInv'
  <2>1. AgentsTypeOK'
    BY ServerThreads, SaveStepKeepsMail
  <2>2. RestoreTypeOK'
    BY ServerThreads DEF workerVars, RestoreTypeOK
  <2>3. \A q \in Restores : ItemsFromRequest(q)'
    BY DEF ServerInv, RestoreInv, TypeInv, workerVars, ItemsFromRequest, Requested, Known, Current, isV1
  <2>. QED BY <2>1, <2>2, <2>3 DEF TypeInv, TypeOK
<1>3. ASSUME NEW q \in Restores
      PROVE  Books(q)' /\ RestartKept(q)' /\ OrderKept(q)' /\ EntriesKept(q)' /\ LeftOff(q)'
  <2>1. Books(q) /\ RestartKept(q) /\ OrderKept(q) /\ EntriesKept(q) /\ LeftOff(q)
    BY DEF ServerInv, RestoreInv
  <2>2. status'[q] = status[q] /\ allRestored'[q] = allRestored[q]
    BY DEF workerVars
  <2>. QED BY <1>1, <2>1, <2>2, BooksFrame, FlagAndOrderStand, ReportStands DEF Bystander
<1>. QED BY <1>1, <1>2, <1>3 DEF RestoreInv

LEMMA WorkerStepKeepsSaveInv ==
  ASSUME ServerInv, RestoreInv', NEW r \in Restores, WorkerStep(r), UNCHANGED saveVars
  PROVE  SaveInv'
<1>a. SaveInv
  BY DEF ServerInv
<1>1. SaveTypeOK'
  <2>1. AgentsTypeOK'
    BY DEF RestoreInv, TypeInv, TypeOK
  <2>. QED BY <2>1, ServerThreads DEF SaveTypeOK, saveVars
<1>2. MailboxesInOrder' /\ CallsPosted'
  BY DEF RestoreInv, LoopsInOrder, InOrder
<1>3. ASSUME NEW q \in Saves PROVE SaveCall(q)' /\ SavedSoFar(q)' /\ SaveBooks(q)'
  <2>1. NoNewMail(q) /\ answer'[q] = answer[q]
    BY ServerThreads, MailOfWorkerStep
  <2>2. SaveUntouched(q)
    BY DEF saveVars, SaveUntouched
  <2>3. SaveCall(q) /\ SavedSoFar(q) /\ SaveBooks(q)
    BY <1>a DEF SaveInv
  <2>4. SavesOnly(q)'
    BY <2>1, <2>3, NoMailNoNews DEF SaveCall, SavesOnly
  <2>5. SaveCall(q)'
    BY <2>1, <2>2, <2>3, <2>4 DEF SaveCall, SavesOnly, SaveUntouched, Idle, CurrentGroup
  <2>6. answer'[q].kind # "empty"
    BY <2>1, <2>3 DEF SavedSoFar
  <2>. QED BY <2>2, <2>3, <2>5, <2>6, PayloadAndBooksStand
<1>. QED BY <1>1, <1>2, <1>3 DEF SaveInv

LEMMA StepKeepsServerInv ==
  ASSUME Reporting, ServerInv, [ServerNext]_serverVars
  PROVE  ServerInv'
<1>a. RestoreInv /\ SaveInv
  BY DEF ServerInv
<1>1. ASSUME NEW r \in Restores, WorkerStep(r), UNCHANGED saveVars PROVE ServerInv'
  <2>1. RestoreInv'
    BY <1>a, <1>1, StepKeepsRestoreInv DEF Next
  <2>. QED BY <1>1, <2>1, WorkerStepKeepsSaveInv DEF ServerInv
<1>2. ASSUME NEW s \in Saves, SaveStep(s), UNCHANGED workerVars PROVE ServerInv'
  <2>1. SaveInv'
    BY <1>a, <1>2, StepKeepsSaveInv DEF SaveNext
  <2>. QED BY <1>2, <2>1, SaveStepKeepsRestoreInv DEF ServerInv
<1>3. ASSUME NEW a \in Agent, AgentStep(a), UNCHANGED saveVars PROVE ServerInv'
  <2>1. RestoreInv'
    BY <1>a, <1>3, StepKeepsRestoreInv DEF Next
  <2>2. SaveInv'
    BY <1>a, <1>3, StepKeepsSaveInv DEF SaveNext, AgentStep
  <2>. QED BY <2>1, <2>2 DEF ServerInv
<1>4. CASE UNCHANGED serverVars
  <2>1. UNCHANGED vars /\ UNCHANGED saveSystemVars
    BY <1>4 DEF serverVars, vars, saveSystemVars
  <2>. QED BY <1>a, <2>1, StepKeepsRestoreInv, StepKeepsSaveInv DEF ServerInv
<1>5. AllServed /\ UNCHANGED saveVars => UNCHANGED serverVars
  BY DEF AllServed, vars, serverVars
<1>. QED BY <1>1, <1>2, <1>3, <1>4, <1>5 DEF ServerNext

(* What threads and agents agree on, and what a payload has, holds of restores    *)
(* and saves served at once over the same agents.                             *)
THEOREM ServerAgreement == Reporting => (ServerSpec => [](AInv /\ SaveInv))
<1> SUFFICES ASSUME Reporting PROVE ServerSpec => [](AInv /\ SaveInv)
  OBVIOUS
<1>1. ServerInit => ServerInv
  BY InitRestoreInv, InitSaveInv DEF ServerInit, ServerInv
<1>2. ServerInv => AInv /\ SaveInv
  BY InvAgreed DEF ServerInv
<1>. QED BY <1>1, <1>2, StepKeepsServerInv, PTL DEF ServerSpec

(* So what the two promise of themselves they keep next to each other.           *)
THEOREM ServerKeepsPromises ==
  Reporting => (ServerSpec => []( /\ CorrelatedReply /\ SuccessMeansRestored
                                  /\ SuccessfulRestoresCompose /\ FailedMeansRolledBack
                                  /\ DependenciesFirst /\ PayloadGroupsComplete
                                  /\ SaveStatusHonest ))
<1> SUFFICES ASSUME Reporting
             PROVE  ServerSpec => []( /\ CorrelatedReply /\ SuccessMeansRestored
                                      /\ SuccessfulRestoresCompose /\ FailedMeansRolledBack
                                      /\ DependenciesFirst /\ PayloadGroupsComplete
                                      /\ SaveStatusHonest )
  OBVIOUS
<1>1. ServerInit => ServerInv
  BY InitRestoreInv, InitSaveInv DEF ServerInit, ServerInv
<1>2. ServerInv => /\ CorrelatedReply /\ SuccessMeansRestored /\ SuccessfulRestoresCompose
                   /\ FailedMeansRolledBack /\ DependenciesFirst /\ PayloadGroupsComplete
                   /\ SaveStatusHonest
  BY OrderMatchesReplies, InvRestored, InvComposed, InvRolledBack, InvDependencies, InvComplete,
     InvTold, ServerThreads DEF ServerInv
<1>. QED BY <1>1, <1>2, StepKeepsServerInv, PTL DEF ServerSpec

-----------------------------------------------------------------------------
(* A save after the restores. *)

(* What an agent holds is what the responses say of it.                         *)
LEMMA StoreReflects ==
  ASSUME RestoreInv, NEW f \in Feature, NEW d, d = store[f]
  PROVE  Reflects(f, d)
<1> SUFFICES ASSUME NEW r \in Restores, f \notin Contended(r)
             PROVE  /\ f \notin Scope(r) => store[f] = Initial
                    /\ \A it \in Requested(r) : f \in Writable(r, it) =>
                         /\ it.id \in Entries(r, "SUCCESS") /\ f \in it.features => store[f] = r
                         /\ /\ it.id \in Entries(r, "FAILED") /\ Finished(r, it)
                            /\ f \notin unbacked[r] \cup unrecoverable[r]
                            => store[f] = Initial
  BY DEF Reflects
<1>1. ASSUME f \notin Scope(r) PROVE store[f] = Initial
  <2>1. Writers(f) = {}
    BY <1>1 DEF Writers, Contended
  <2>. QED BY <2>1 DEF RestoreInv, SInv
<1>2. ASSUME NEW it \in Requested(r), f \in Writable(r, it)
      PROVE  /\ it.id \in Entries(r, "SUCCESS") /\ f \in it.features => store[f] = r
             /\ /\ it.id \in Entries(r, "FAILED") /\ Finished(r, it)
                /\ f \notin unbacked[r] \cup unrecoverable[r]
                => store[f] = Initial
  BY <1>2, InvRestored, InvRolledBack
  DEF SuccessMeansRestored, HoldsRestored, FailedMeansRolledBack
<1>. QED BY <1>1, <1>2

LEMMA ResponsesStand ==
  ASSUME UNCHANGED workerVars
  PROVE  \A f, d : Reflects(f, d) =>
           \A e, g : e = d /\ g = f => Reflects(g, e)'
<1> SUFFICES ASSUME NEW f, NEW d, Reflects(f, d), NEW e, NEW g, e = d, g = f
             PROVE  Reflects(g, e)'
  OBVIOUS
<1>1. request' = request
  BY DEF workerVars
<1>2. ASSUME NEW r \in Restores
      PROVE  /\ Contended(r)' = Contended(r) /\ Scope(r)' = Scope(r)
             /\ Requested(r)' = Requested(r)
             /\ \A it : Writable(r, it)' = Writable(r, it) /\ (Finished(r, it)' <=> Finished(r, it))
             /\ \A st : Entries(r, st)' = Entries(r, st)
             /\ unbacked'[r] = unbacked[r] /\ unrecoverable'[r] = unrecoverable[r]
  <2>1. /\ \A it : Finished(r, it)' <=> Finished(r, it)
        /\ \A st : Entries(r, st)' = Entries(r, st)
        /\ unbacked'[r] = unbacked[r] /\ unrecoverable'[r] = unrecoverable[r]
    BY DEF workerVars, Finished, Entries
  <2>. QED BY <1>1, <2>1, SameRequest, SameScopes
<1>. QED BY <1>2 DEF Reflects

(* A payload grows by what the agent has replied.                               *)
LEMMA SavedEntries ==
  ASSUME SaveTypeOK, NEW s \in Saves, SaveCall(s), SaveStep(s), answer[s].kind # "empty",
         NEW q \in Saves, NEW g \in Group, NEW i \in DOMAIN savedGroups'[q][g]
  PROVE  \/ i \in DOMAIN savedGroups[q][g] /\ savedGroups'[q][g][i] = savedGroups[q][g][i]
         \/ /\ q = s /\ answer[s].kind = "ok"
            /\ savedGroups'[q][g][i] = [m_feature |-> answer[s].feature, data |-> answer[s].data]
<1>1. savedGroups \in [Saves -> [Group -> Seq(SavedFeature)]]
  BY DEF SaveTypeOK
<1>2. CASE FeatureSaved(s)
  <2> DEFINE c == CurrentGroup(s)
             e == [m_feature |-> answer[s].feature, data |-> answer[s].data]
  <2>1. /\ answer[s].kind = "ok" /\ e \in SavedFeature /\ c \in Group
        /\ savedGroups'[s][c] = Append(savedGroups[s][c], e)
        /\ \A h \in Group : h # c => savedGroups'[s][h] = savedGroups[s][h]
        /\ \A t \in Saves \ {s} : savedGroups'[t] = savedGroups[t]
    BY <1>2, SavedEffect, SavingFacts DEF FeatureSaved, Succeeded
  <2> HIDE DEF c, e
  <2>2. CASE q = s /\ g = c
    <3>1. savedGroups[s][c] \in Seq(SavedFeature)
      BY <1>1, <2>1
    <3>2. \A j \in DOMAIN Append(savedGroups[s][c], e) :
            \/ j \in DOMAIN savedGroups[s][c] /\ Append(savedGroups[s][c], e)[j] = savedGroups[s][c][j]
            \/ Append(savedGroups[s][c], e)[j] = e
      BY <2>1, <3>1, AppendProperties, LenProperties
    <3>3. savedGroups'[q][g] = Append(savedGroups[s][c], e)
      BY <2>1, <2>2
    <3>4. \/ i \in DOMAIN savedGroups[s][c] /\ savedGroups'[q][g][i] = savedGroups[s][c][i]
          \/ savedGroups'[q][g][i] = e
      BY <3>2, <3>3
    <3>. QED BY <2>1, <2>2, <3>4 DEF e
  <2>3. CASE ~(q = s /\ g = c)
    BY <2>1, <2>3
  <2>. QED BY <2>2, <2>3
<1>3. CASE GroupFailed(s)
  <2>1. CurrentGroup(s) \in Group /\ savedGroups' = [savedGroups EXCEPT ![s][CurrentGroup(s)] = <<>>]
    BY <1>3, SavingFacts DEF GroupFailed
  <2>2. savedGroups'[q][g] = <<>> \/ savedGroups'[q][g] = savedGroups[q][g]
    BY <1>1, <2>1
  <2>. QED BY <2>2
<1>4. CASE ~FeatureSaved(s) /\ ~GroupFailed(s)
  <2>1. savedGroups' = savedGroups
    BY <1>4 DEF SaveStep, SaveRejected, SaveAccepted, SaveAnswered, UnknownGroup, BeginGroup, SendSave,
                SaveGiveUp, GroupSaved, saveVars
  <2>. QED BY <2>1
<1>. QED BY <1>2, <1>3, <1>4

(* A save is over the decoding once it has taken a step.                        *)
LEMMA SaveBegins ==
  ASSUME SaveTypeOK, NEW s \in Saves, SaveCall(s), SaveStep(s)
  PROVE  savePc'[s] # "decode"
<1>1. SendSave(s) \/ SaveGiveUp(s) => savePc[s] = "saving" /\ savePc' = savePc
  BY DEF SendSave, SaveGiveUp, TimeOut, SaveCall, Idle, saveVars
<1>. QED
  BY <1>1 DEF SaveStep, SaveTypeOK, SaveRejected, SaveAccepted, SaveAnswered, UnknownGroup, BeginGroup,
              FeatureSaved, GroupFailed, GroupSaved, NextGroup

(* A reply that a thread has after a step of its own it had before.             *)
LEMMA SaveStepBringsNoReply ==
  ASSUME SaveTypeOK, NEW s \in Saves, SaveStep(s), answer'[s].kind = "ok"
  PROVE  answer'[s] = answer[s]
<1>a. AgentsTypeOK /\ s \in Thread
  BY SaveAssumption DEF SaveTypeOK
<1>1. CASE SendSave(s)
  <2>1. answer'[s] = [kind |-> "pending", feature |-> Head(featuresLeft[s]), data |-> None]
    BY <1>a, <1>1, SaveQuery DEF Call, AgentsTypeOK
  <2>. QED BY <2>1
<1>2. CASE SaveGiveUp(s)
  BY <1>a, <1>2, TimeOutEffect DEF SaveGiveUp, TimeOutDoes
<1>3. CASE Consume(s)
  BY <1>a, <1>3 DEF Consume, AgentsTypeOK, NoAnswer
<1>4. CASE UNCHANGED agentVars
  BY <1>4 DEF agentVars
<1>. QED BY <1>1, <1>2, <1>3, <1>4, SaveTouch

LEMMA ReflectedNext ==
  ASSUME UNCHANGED workerVars, NEW f, NEW d, Reflects(f, d)
  PROVE  Reflects(f, d)'
BY ResponsesStand

(* While a restore is under way no save has begun.                              *)
LEMMA WorkerStepKeepsReflect ==
  ASSUME ServerInv, ReflectInv, NEW r \in Restores, WorkerStep(r), UNCHANGED saveVars
  PROVE  ReflectInv'
<1>1. pc[r] # "answered"
  BY AnsweredIsOver DEF ServerInv
<1>2. ASSUME NEW s \in Saves
      PROVE  /\ savePc'[s] = "decode" /\ answer'[s].kind # "ok"
             /\ \A g \in Group : savedGroups'[s][g] = <<>>
  <2>1. savePc[s] = "decode" /\ \A g \in Group : savedGroups[s][g] = <<>>
    BY <1>1 DEF ReflectInv
  <2>2. Idle(s)
    BY <2>1 DEF ServerInv, SaveInv, SaveCall
  <2>3. answer'[s] = answer[s]
    BY ServerThreads, MailOfWorkerStep
  <2>. QED BY <2>1, <2>2, <2>3 DEF saveVars, Idle
<1>3. SaveReflectsRestore'
  BY <1>2 DEF SaveReflectsRestore
<1>. QED BY <1>2, <1>3 DEF ReflectInv

LEMMA SaveStepKeepsReflect ==
  ASSUME ServerInv, ReflectInv, NEW s \in Saves, SaveStep(s), UNCHANGED workerVars, SavesComeLater
  PROVE  ReflectInv'
<1>a. SaveTypeOK /\ SaveCall(s) /\ answer[s].kind # "empty"
  BY ServerThreads DEF ServerInv, SaveInv, SavedSoFar
<1>1. SaveReflectsRestore'
  <2> SUFFICES ASSUME NEW q \in Saves, NEW g \in Group, NEW i \in DOMAIN savedGroups'[q][g]
               PROVE  Reflects(savedGroups[q][g][i].m_feature, savedGroups[q][g][i].data)'
    BY DEF SaveReflectsRestore
  <2>1. PICK f, d : /\ f = savedGroups'[q][g][i].m_feature /\ d = savedGroups'[q][g][i].data
    OBVIOUS
  <2>2. Reflects(f, d)
    <3>1. CASE i \in DOMAIN savedGroups[q][g] /\ savedGroups'[q][g][i] = savedGroups[q][g][i]
      BY <2>1, <3>1 DEF ReflectInv, SaveReflectsRestore
    <3>2. CASE /\ answer[s].kind = "ok"
               /\ savedGroups'[q][g][i] = [m_feature |-> answer[s].feature, data |-> answer[s].data]
      <4>1. f = answer[s].feature /\ d = answer[s].data
        BY <2>1, <3>2
      <4>. QED BY <3>2, <4>1 DEF ReflectInv
    <3>. QED BY <1>a, <3>1, <3>2, SavedEntries
  <2>3. Reflects(f, d)'
    BY <2>2, ReflectedNext
  <2>. QED BY <2>1, <2>3 DEF Reflects
<1>2. ASSUME NEW q \in Saves
      PROVE  /\ savePc'[q] = "decode" => \A g \in Group : savedGroups'[q][g] = <<>>
             /\ savePc'[q] # "decode" => \A r \in Restores : pc'[r] = "answered"
  <2>1. CASE q = s
    <3>1. savePc'[s] # "decode"
      BY <1>a, SaveBegins
    <3>2. \A r \in Restores : pc[r] = "answered"
      BY <3>1 DEF ReflectInv, SavesComeLater
    <3>. QED BY <2>1, <3>1, <3>2 DEF workerVars
  <2>2. CASE q # s
    <3>1. SaveUntouched(q)
      BY <1>a, <2>2, OtherSaves
    <3>. QED BY <3>1 DEF ReflectInv, SaveUntouched, workerVars
  <2>. QED BY <2>1, <2>2
<1>3. ASSUME NEW q \in Saves, answer'[q].kind = "ok"
      PROVE  Reflects(answer[q].feature, answer[q].data)'
  <2>1. answer'[q] = answer[q]
    BY <1>a, <1>3, ServerThreads, SaveStepSends, SaveStepBringsNoReply
  <2>2. PICK f, d : f = answer[q].feature /\ d = answer[q].data
    OBVIOUS
  <2>3. Reflects(f, d)'
    BY <1>3, <2>1, <2>2, ReflectedNext DEF ReflectInv
  <2>. QED BY <2>1, <2>2, <2>3 DEF Reflects
<1>. QED BY <1>1, <1>2, <1>3 DEF ReflectInv

LEMMA PayloadsStand ==
  ASSUME ReflectInv, UNCHANGED workerVars, UNCHANGED saveVars
  PROVE  SaveReflectsRestore'
<1> SUFFICES ASSUME NEW q \in Saves, NEW g \in Group, NEW i \in DOMAIN savedGroups'[q][g]
             PROVE  Reflects(savedGroups[q][g][i].m_feature, savedGroups[q][g][i].data)'
  BY DEF SaveReflectsRestore
<1>1. savedGroups' = savedGroups
  BY DEF saveVars
<1>2. PICK f, d : /\ f = savedGroups[q][g][i].m_feature /\ d = savedGroups[q][g][i].data
  OBVIOUS
<1>3. Reflects(f, d)'
  BY <1>1, <1>2, ReflectedNext DEF ReflectInv, SaveReflectsRestore
<1>. QED BY <1>1, <1>2, <1>3 DEF Reflects

(* An agent's reply is what it holds at that time.                              *)
LEMMA ServeKeepsReflect ==
  ASSUME ServerInv, ReflectInv, NEW a \in Agent, NEW kind \in ReplyKind, Serve(a, kind),
         UNCHANGED workerVars, UNCHANGED saveVars
  PROVE  ReflectInv'
<1>a. AgentsTypeOK /\ InOrder /\ RestoreInv /\ ServeDoes(a, kind)
  BY ServerThreads, ServeEffect DEF ServerInv
<1>1. SaveReflectsRestore'
  BY PayloadsStand
<1>2. ASSUME NEW q \in Saves
      PROVE  /\ savePc'[q] = "decode" => \A g \in Group : savedGroups'[q][g] = <<>>
             /\ savePc'[q] # "decode" => \A r \in Restores : pc'[r] = "answered"
  BY DEF ReflectInv, workerVars, saveVars
<1>3. ASSUME NEW q \in Saves, answer'[q].kind = "ok"
      PROVE  Reflects(answer[q].feature, answer[q].data)'
  <2> DEFINE m == queue[a][1]
  <2>1. PICK f, d : f = answer'[q].feature /\ d = answer'[q].data
    OBVIOUS
  <2>2. Reflects(f, d)
    <3>1. CASE answer'[q] = answer[q]
      BY <1>3, <2>1, <3>1 DEF ReflectInv
    <3>2. CASE answer'[q] # answer[q]
      <4>1. q \in Thread /\ SaveCall(q)
        BY ServerThreads DEF ServerInv, SaveInv
      <4>2. m.awaited /\ m.from = q /\ 1 \in DOMAIN queue[a] /\ m.feature \in Feature
        BY <1>a, <3>2, <4>1 DEF ServeDoes, Message
      <4>3. m.op = "save" /\ answer[q].feature = m.feature
        BY <1>a, <4>1, <4>2 DEF SaveCall, InOrder, MailboxesInOrder
      <4>4. f = m.feature /\ d = store[m.feature]
        BY <1>a, <1>3, <2>1, <4>2, <4>3 DEF ServeDoes
      <4>. QED BY <1>a, <4>2, <4>4, StoreReflects
    <3>. QED BY <3>1, <3>2
  <2>3. Reflects(f, d)'
    BY <2>2, ReflectedNext
  <2>. QED BY <2>1, <2>3 DEF Reflects
<1>. QED BY <1>1, <1>2, <1>3 DEF ReflectInv

LEMMA StepKeepsReflect ==
  ASSUME ServerInv, ReflectInv, [ServerNext /\ SavesComeLater]_serverVars
  PROVE  ReflectInv'
<1>1. CASE UNCHANGED serverVars
  <2>1. UNCHANGED workerVars /\ UNCHANGED saveVars /\ answer' = answer
    BY <1>1 DEF serverVars, agentVars
  <2>2. ASSUME NEW q \in Saves, answer[q].kind = "ok"
        PROVE  Reflects(answer[q].feature, answer[q].data)'
    <3>1. PICK f, d : f = answer[q].feature /\ d = answer[q].data
      OBVIOUS
    <3>2. Reflects(f, d)'
      BY <2>1, <2>2, <3>1, ReflectedNext DEF ReflectInv
    <3>. QED BY <2>1, <3>1, <3>2 DEF Reflects
  <2>. QED BY <2>1, <2>2, PayloadsStand DEF ReflectInv, workerVars, saveVars
<1>2. ASSUME NEW a \in Agent, AgentStep(a), UNCHANGED saveVars PROVE ReflectInv'
  BY <1>2, ServeKeepsReflect DEF AgentStep
<1>3. AllServed /\ UNCHANGED saveVars => UNCHANGED serverVars
  BY DEF AllServed, vars, serverVars
<1>. QED BY <1>1, <1>2, <1>3, WorkerStepKeepsReflect, SaveStepKeepsReflect DEF ServerNext

LEMMA InitReflect == ServerInit => ReflectInv
<1> SUFFICES ASSUME ServerInit PROVE ReflectInv
  OBVIOUS
<1>1. \A s \in Saves : savePc[s] = "decode" /\ \A g \in Group : savedGroups[s][g] = <<>>
  BY DEF ServerInit, SaveInit
<1>2. \A s \in Saves : answer[s].kind = "none"
  BY SaveAssumption DEF ServerInit, SaveInit, AgentsInit, NoAnswer
<1>. QED BY <1>1, <1>2 DEF ReflectInv, SaveReflectsRestore

(* A save that is asked for after the restores were answered returns what their   *)
(* responses say, whatever they left in the mailboxes, whoever failed or was     *)
(* late, and in however many requests.                                        *)
THEOREM SavedReflects == Reporting => (SaveAfterRestoreSpec => []SaveReflectsRestore)
<1> SUFFICES ASSUME Reporting PROVE SaveAfterRestoreSpec => []SaveReflectsRestore
  OBVIOUS
<1>1. ServerInit => ServerInv /\ ReflectInv
  BY InitRestoreInv, InitSaveInv, InitReflect DEF ServerInit, ServerInv
<1>2. ServerInv /\ ReflectInv /\ [ServerNext /\ SavesComeLater]_serverVars => (ServerInv /\ ReflectInv)'
  BY StepKeepsServerInv, StepKeepsReflect
<1>3. ReflectInv => SaveReflectsRestore
  BY DEF ReflectInv
<1>. QED BY <1>1, <1>2, <1>3, PTL DEF SaveAfterRestoreSpec
=============================================================================
