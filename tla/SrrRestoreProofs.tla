-------------------------- MODULE SrrRestoreProofs -------------------------
(***************************************************************************)
(* Theorems about SrrRestore for every table, payload and number of          *)
(* requests: type correctness, the refusal of requests and the honesty of    *)
(* the response.                                                            *)
(***************************************************************************)
EXTENDS SrrRestoreProperties, SrrAgentsProofs

-----------------------------------------------------------------------------
(* Lemmas about the operators of the worker.                                  *)

LEMMA RequestFacts ==
  ASSUME RestoreTypeOK, NEW r \in Restores
  PROVE  /\ request[r] \in Payload
         /\ request[r].items \in Seq(Item)
         /\ Requested(r) \subseteq Item
         /\ isV1(r) => \A it \in Requested(r) : it.id \in Name
BY PayloadAssumption DEF RestoreTypeOK, Requested, isV1

(* std::sort neither loses nor invents a group.                               *)
LEMMA GroupOrdersPermute ==
  ASSUME NEW S, NEW s \in Seq(S), NEW t \in GroupOrders(s)
  PROVE  /\ t \in Seq(S) /\ Len(t) = Len(s)
         /\ \A i \in DOMAIN t : \E j \in DOMAIN s : t[i] = s[j]
         /\ \A j \in DOMAIN s : \E i \in DOMAIN t : t[i] = s[j]
<1> DEFINE n == Len(s)
<1>1. PICK p \in [1..n -> 1..n] : /\ \A j \in 1..n : \E i \in 1..n : p[i] = j
                                 /\ t = [i \in 1..n |-> s[p[i]]]
  BY DEF GroupOrders
<1>2. n \in Nat /\ DOMAIN s = 1..n /\ \A j \in 1..n : s[j] \in S
  BY LenProperties, ElementOfSeq
<1>3. \A i \in 1..n : s[p[i]] \in S
  BY <1>2
<1>4. t \in Seq(S)
  BY <1>1, <1>2, <1>3, IsASeq
<1>5. DOMAIN t = 1..n /\ Len(t) = n
  BY <1>1, <1>2, <1>4, LenProperties
<1>. QED BY <1>1, <1>2, <1>4, <1>5

LEMMA FeaturesOfGroups == \A g \in Group : FeaturesOf(g) \subseteq Feature
<1> SUFFICES ASSUME NEW g \in Group, NEW i \in DOMAIN m_fp[g]
             PROVE  m_fp[g][i].m_feature \in Feature
  BY DEF FeaturesOf
<1>1. m_fp[g] \in Seq([m_feature : Feature, m_priority : Nat])
  BY TablesAssumption
<1>2. m_fp[g][i] \in [m_feature : Feature, m_priority : Nat]
  BY <1>1, ElementOfSeq, LenProperties
<1>. QED BY <1>2

(* The first item of a thread that has one.                                   *)
LEMMA CurrentIsRequested ==
  ASSUME RestoreTypeOK, NEW r \in Restores, ItemsFromRequest(r), items[r] # <<>>
  PROVE  /\ Current(r) \in Requested(r) /\ Current(r) \in Item
         /\ Known(r, Current(r).id) => Owned(r) \subseteq Name
<1>1. items[r] \in Seq(Item)
  BY DEF RestoreTypeOK
<1>2. Current(r) = items[r][1] /\ 1 \in DOMAIN items[r]
  BY <1>1 DEF Current
<1>3. Current(r) \in Requested(r)
  BY <1>2 DEF ItemsFromRequest
<1>4. Current(r) \in Item
  BY <1>3, RequestFacts
<1>5. ASSUME NEW g \in Group PROVE FeaturesOf(g) \subseteq Name
  BY FeaturesOfGroups, <1>5 DEF Name
<1>6. Known(r, Current(r).id) => Owned(r) \subseteq Name
  BY <1>3, <1>5, RequestFacts DEF Known, Owned, OwnFeatures
<1>. QED BY <1>3, <1>4, <1>6

(* Dropping the current item keeps the others and where they came from.       *)
LEMMA FinishItemKeeps ==
  ASSUME RestoreTypeOK, NEW r \in Restores, ItemsFromRequest(r), items[r] # <<>>,
         FinishItem(r), request' = request
  PROVE  /\ pc' \in [Restores -> Phase] /\ todo' \in [Restores -> SUBSET Name]
         /\ items' \in [Restores -> Seq(Item)]
         /\ ItemsFromRequest(r)'
         /\ Len(items'[r]) = Len(items[r]) - 1
         /\ \A it : Left(r, it) => it = Current(r) \/ Left(r, it)'
<1> DEFINE s == items[r]
<1>1. s \in Seq(Item) /\ s # <<>>
  BY DEF RestoreTypeOK
<1>2. /\ Tail(s) \in Seq(Item) /\ Len(Tail(s)) = Len(s) - 1
      /\ \A i \in 1..(Len(s) - 1) : Tail(s)[i] = s[i+1]
      /\ Len(s) \in Nat /\ DOMAIN s = 1..Len(s) /\ DOMAIN Tail(s) = 1..(Len(s) - 1)
  BY <1>1
<1>3. items' = [items EXCEPT ![r] = Tail(s)] /\ items \in [Restores -> Seq(Item)]
  BY DEF FinishItem, RestoreTypeOK
<1>4. items'[r] = Tail(s) /\ items' \in [Restores -> Seq(Item)]
  BY <1>2, <1>3
<1>5. pc' = [pc EXCEPT ![r] = "next"] /\ todo' = [todo EXCEPT ![r] = {}]
  BY DEF FinishItem, Goto
<1>6. pc' \in [Restores -> Phase] /\ todo' \in [Restores -> SUBSET Name] /\ pc'[r] = "next"
  BY <1>5 DEF RestoreTypeOK, Phase
<1>7. ItemsFromRequest(r)'
  <2>1. \A i \in DOMAIN Tail(s) : Tail(s)[i] \in Requested(r)
    BY <1>2 DEF ItemsFromRequest
  <2>. QED BY <1>4, <1>6, <2>1 DEF ItemsFromRequest, Requested, CallPhase
<1>8. ASSUME NEW it, Left(r, it) PROVE it = Current(r) \/ Left(r, it)'
  <2>1. PICK i \in DOMAIN s : s[i] = it
    BY <1>8 DEF Left
  <2>2. CASE i = 1
    BY <1>1, <2>1, <2>2 DEF Current
  <2>3. CASE i # 1
    <3>1. i - 1 \in 1..(Len(s) - 1) /\ Tail(s)[i - 1] = it
      BY <1>2, <2>1, <2>3
    <3>. QED BY <1>2, <1>4, <3>1 DEF Left
  <2>. QED BY <2>2, <2>3
<1>. QED BY <1>2, <1>4, <1>6, <1>7, <1>8

LEMMA PushStatusKeeps ==
  ASSUME RestoreTypeOK, NEW r \in Restores, ItemsFromRequest(r), items[r] # <<>>,
         NEW st \in ItemOutcome, PushStatus(r, st)
  PROVE  /\ statusList' \in [Restores -> Seq(ListEntry)]
         /\ Len(statusList'[r]) = Len(statusList[r]) + 1
         /\ \A it : Reported(r, it) => Reported(r, it)'
         /\ \A it : it.id = Current(r).id => Reported(r, it)'
         /\ st = "FAILED" => HasFailed(r)'
         /\ HasFailed(r) => HasFailed(r)'
         /\ st # "FAILED" /\ HasFailed(r)' => HasFailed(r)
         /\ EntriesSaid(r) /\ request' = request => EntriesSaid(r)'
<1>0. PICK sd \in Said(r, st) :
        statusList' = [statusList EXCEPT ![r] =
                         Append(@, [name |-> Current(r).id, outcome |-> st, status |-> sd])]
  BY DEF PushStatus
<1> DEFINE e == [name |-> Current(r).id, outcome |-> st, status |-> sd]
           E == ListEntry
           s == statusList[r]
<1>1. e \in E
  <2>1. sd \in Status
    BY <1>0 DEF Said, Status
  <2>2. Current(r).id \in ItemId
    BY CurrentIsRequested DEF Item
  <2>. QED BY <2>1, <2>2 DEF ListEntry
<1>2. s \in Seq(E) /\ statusList \in [Restores -> Seq(E)]
  BY DEF RestoreTypeOK
<1>3. statusList' = [statusList EXCEPT ![r] = Append(s, e)]
  BY <1>0
<1> HIDE DEF e, E, s
<1>4. /\ Append(s, e) \in Seq(E) /\ Len(Append(s, e)) = Len(s) + 1
      /\ Len(s) \in Nat /\ DOMAIN s = 1..Len(s) /\ DOMAIN Append(s, e) = 1..(Len(s) + 1)
      /\ \A i \in 1..Len(s) : Append(s, e)[i] = s[i]
      /\ Append(s, e)[Len(s) + 1] = e
  BY <1>1, <1>2, AppendProperties, LenProperties
<1>5. statusList'[r] = Append(s, e) /\ statusList' \in [Restores -> Seq(E)]
  BY <1>2, <1>3, <1>4
<1>6. e.name = Current(r).id /\ e.outcome = st /\ e.status = sd
  BY DEF e
<1>7. \A it : Reported(r, it) => Reported(r, it)'
  BY <1>4, <1>5 DEF Reported, s
<1>8. Len(s) + 1 \in DOMAIN statusList'[r] /\ statusList'[r][Len(s) + 1] = e
  BY <1>4, <1>5
<1>9. HasFailed(r) => HasFailed(r)'
  BY <1>4, <1>5 DEF HasFailed, s
<1>10. ASSUME st # "FAILED", HasFailed(r)' PROVE HasFailed(r)
  <2>1. PICK i \in DOMAIN statusList'[r] : statusList'[r][i].outcome = "FAILED"
    BY <1>10 DEF HasFailed
  <2>2. i # Len(s) + 1
    BY <1>6, <1>8, <1>10, <2>1
  <2>3. i \in DOMAIN s /\ s[i].outcome = "FAILED"
    BY <1>4, <1>5, <2>1, <2>2
  <2>. QED BY <2>3 DEF HasFailed, s
<1>11. \A it : it.id = Current(r).id => Reported(r, it)'
  BY <1>6, <1>8 DEF Reported
<1>12. st = "FAILED" => HasFailed(r)'
  BY <1>6, <1>8 DEF HasFailed
<1>13. ASSUME EntriesSaid(r), request' = request PROVE EntriesSaid(r)'
  <2>1. \A o : Said(r, o)' = Said(r, o)
    BY <1>13 DEF Said, isV1
  <2>2. \A i \in DOMAIN s : s[i].status \in Said(r, s[i].outcome)
    BY <1>13 DEF EntriesSaid, s
  <2>3. e.status \in Said(r, e.outcome)
    BY <1>0, <1>6
  <2>4. \A i \in DOMAIN statusList'[r] :
          statusList'[r][i].status \in Said(r, statusList'[r][i].outcome)
    BY <1>4, <1>5, <2>2, <2>3
  <2>. QED BY <2>1, <2>4 DEF EntriesSaid
<1>. QED BY <1>4, <1>5, <1>7, <1>9, <1>10, <1>11, <1>12, <1>13 DEF E, s

(* An unchanged list says what it said.                                       *)
LEMMA SaidKept ==
  ASSUME NEW r \in Restores, EntriesSaid(r), request'[r] = request[r], statusList'[r] = statusList[r]
  PROVE  EntriesSaid(r)'
<1>1. \A o : Said(r, o)' = Said(r, o)
  BY DEF Said, isV1
<1>. QED BY <1>1 DEF EntriesSaid

-----------------------------------------------------------------------------
(* Every step keeps the types, and the items those of the request.            *)

LEMMA SameItemsKept ==
  ASSUME NEW r \in Restores, ItemsFromRequest(r), items' = items, request' = request,
         pc'[r] \in CallPhase => items[r] # <<>> /\ Known(r, Current(r).id)
  PROVE  ItemsFromRequest(r)'
BY DEF ItemsFromRequest, Requested, Known, Current, isV1

(* A loop moves to another phase, its items being what they were.             *)
LEMMA GotoKeeps ==
  ASSUME RestoreTypeOK, NEW r \in Restores, NEW phase \in Phase, NEW S \in SUBSET Name,
         Goto(r, phase, S)
  PROVE  /\ pc' \in [Restores -> Phase] /\ todo' \in [Restores -> SUBSET Name]
         /\ pc'[r] = phase
BY DEF Goto, RestoreTypeOK

LEMMA WorkerStepKeepsTypes ==
  ASSUME TypeOK, NEW r \in Restores, ItemsFromRequest(r), WorkerStep(r)
  PROVE  RestoreTypeOK' /\ ItemsFromRequest(r)'
<1>a. RestoreTypeOK /\ AgentsTypeOK /\ r \in Thread
  BY PayloadAssumption DEF TypeOK
<1>b. pc[r] \in CallPhase => items[r] # <<>> /\ Known(r, Current(r).id)
  BY DEF ItemsFromRequest
<1>c. \A S : Resettable(S) \in SUBSET Name
  BY DEF Resettable, Name
<1>d. {} \in SUBSET Name /\ BackedUp(r) \in SUBSET Name
  BY DEF BackedUp, Name
<1>e. answer[r] \in Answer
  BY <1>a DEF AgentsTypeOK
<1>1. CASE LicenseGranted(r)
  <2>1. pc' \in [Restores -> Phase] /\ todo' \in [Restores -> SUBSET Name] /\ pc'[r] = "decode"
    BY <1>1, <1>a, <1>d, GotoKeeps DEF LicenseGranted, Phase
  <2>2. RestoreTypeOK'
    BY <1>1, <1>a, <2>1 DEF LicenseGranted, RestoreTypeOK
  <2>3. ItemsFromRequest(r)'
    BY <1>1, <2>1, SameItemsKept DEF LicenseGranted, CallPhase
  <2>. QED BY <2>2, <2>3
<1>2. ASSUME Abort(r) PROVE RestoreTypeOK' /\ ItemsFromRequest(r)'
  <2>1. pc' \in [Restores -> Phase] /\ todo' \in [Restores -> SUBSET Name] /\ pc'[r] = "reply"
    BY <1>2, <1>a, <1>d, GotoKeeps DEF Abort, Phase
  <2>2. RestoreTypeOK'
    BY <1>2, <1>a, <2>1 DEF Abort, RestoreTypeOK, Status, ItemOutcome
  <2>3. ItemsFromRequest(r)'
    BY <1>2, <2>1, SameItemsKept DEF Abort, CallPhase
  <2>. QED BY <2>2, <2>3
<1>3. CASE LicenseRefused(r) \/ Reject(r) \/ MissingFeature(r) \/ UnexpectedReply(r)
  BY <1>2, <1>3 DEF LicenseRefused, Reject, MissingFeature, UnexpectedReply
<1>4. CASE IntegrityCheckFailed(r)
  <2>1. pc' \in [Restores -> Phase] /\ todo' \in [Restores -> SUBSET Name] /\ pc'[r] = "reply"
    BY <1>4, <1>a, <1>d, GotoKeeps DEF IntegrityCheckFailed, Phase
  <2>2. RestoreTypeOK'
    BY <1>4, <1>a, <2>1 DEF IntegrityCheckFailed, RestoreTypeOK, Status
  <2>3. ItemsFromRequest(r)'
    BY <1>4, <2>1, SameItemsKept DEF IntegrityCheckFailed, CallPhase
  <2>. QED BY <2>2, <2>3
<1>5. CASE Accept(r)
  <2>1. pc' \in [Restores -> Phase] /\ todo' \in [Restores -> SUBSET Name] /\ pc'[r] = "next"
    BY <1>5, <1>a, <1>d, GotoKeeps DEF Accept, Phase
  <2>2. request[r].items \in Seq(Item)
    BY <1>a, RequestFacts
  <2>3. PICK s : /\ s = request[r].items \/ s \in GroupOrders(request[r].items)
                 /\ items' = [items EXCEPT ![r] = s]
    BY <1>5 DEF Accept
  <2>4. s \in Seq(Item) /\ \A i \in DOMAIN s : \E j \in DOMAIN request[r].items : s[i] = request[r].items[j]
    <3>1. CASE s = request[r].items
      BY <2>2, <3>1
    <3>2. CASE s \in GroupOrders(request[r].items)
      <4> DEFINE its == request[r].items
      <4>1. its \in Seq(Item) /\ s \in GroupOrders(its)
        BY <2>2, <3>2
      <4> HIDE DEF its
      <4>2. s \in Seq(Item) /\ \A i \in DOMAIN s : \E j \in DOMAIN its : s[i] = its[j]
        BY ONLY <4>1, GroupOrdersPermute
      <4>. QED BY <4>2 DEF its
    <3>. QED BY <2>3, <3>1, <3>2
  <2>5. items' \in [Restores -> Seq(Item)] /\ items'[r] = s
    BY <1>a, <2>3, <2>4 DEF RestoreTypeOK
  <2>6. RestoreTypeOK'
    BY <1>5, <1>a, <2>1, <2>5 DEF Accept, RestoreTypeOK
  <2>7. ItemsFromRequest(r)'
    BY <1>5, <2>1, <2>4, <2>5 DEF Accept, ItemsFromRequest, Requested, CallPhase
  <2>. QED BY <2>6, <2>7
<1>6. CASE SkipUnknownGroup(r)
  <2>1. items[r] # <<>> /\ request' = request /\ FinishItem(r) /\ PushStatus(r, "FAILED")
    BY <1>6 DEF SkipUnknownGroup
  <2>2. "FAILED" \in ItemOutcome
    BY DEF ItemOutcome
  <2>3. RestoreTypeOK'
    BY <1>6, <1>a, <2>1, <2>2, FinishItemKeeps, PushStatusKeeps DEF SkipUnknownGroup, RestoreTypeOK
  <2>. QED BY <1>a, <2>1, <2>3, FinishItemKeeps
<1>7. CASE BeginItem(r)
  <2>1. items[r] # <<>> /\ Known(r, Current(r).id) /\ Owned(r) \in SUBSET Name
    BY <1>7, <1>a, CurrentIsRequested DEF BeginItem
  <2>2. pc' \in [Restores -> Phase] /\ todo' \in [Restores -> SUBSET Name]
    BY <1>7, <1>a, <2>1, GotoKeeps DEF BeginItem, Phase, CallPhase
  <2>3. backup' \in [Restores -> [Feature -> Data]]
    BY <1>7, <1>a, NoNoneAmongConfigurations DEF BeginItem, RestoreTypeOK
  <2>4. RestoreTypeOK'
    BY <1>7, <1>a, <2>2, <2>3 DEF BeginItem, RestoreTypeOK
  <2>5. ItemsFromRequest(r)'
    BY <1>7, <2>1, SameItemsKept DEF BeginItem
  <2>. QED BY <2>4, <2>5
<1>8. CASE AllItemsDone(r)
  <2>1. pc' \in [Restores -> Phase] /\ todo' \in [Restores -> SUBSET Name] /\ pc'[r] = "reply"
    BY <1>8, <1>a, <1>d, GotoKeeps DEF AllItemsDone, Phase
  <2>2. RestoreTypeOK'
    BY <1>8, <1>a, <2>1 DEF AllItemsDone, OverallStatus, RestoreTypeOK, Status, ItemOutcome
  <2>3. ItemsFromRequest(r)'
    BY <1>8, <2>1, SameItemsKept DEF AllItemsDone, CallPhase
  <2>. QED BY <2>2, <2>3
<1>9. CASE Reply(r)
  <2>1. pc' \in [Restores -> Phase] /\ todo' \in [Restores -> SUBSET Name] /\ pc'[r] = "answered"
    BY <1>9, <1>a, <1>d, GotoKeeps DEF Reply, Phase
  <2>2. Reboots(r) \in BOOLEAN
    BY <1>a, PayloadAssumption DEF Reboots, RestoreTypeOK
  <2>3. RestoreTypeOK'
    BY <1>9, <1>a, <2>1, <2>2 DEF Reply, RestoreTypeOK
  <2>4. ItemsFromRequest(r)'
    BY <1>9, <2>1, SameItemsKept DEF Reply, CallPhase
  <2>. QED BY <2>3, <2>4
<1>10. CASE SendQuery(r) \/ GiveUp(r)
  <2>1. UNCHANGED workerVars
    BY <1>10 DEF SendQuery, GiveUp
  <2>2. RestoreTypeOK'
    BY <1>a, <2>1 DEF workerVars, RestoreTypeOK
  <2>3. ItemsFromRequest(r)'
    BY <1>b, <2>1, SameItemsKept DEF workerVars
  <2>. QED BY <2>2, <2>3
<1>11. ASSUME Advance(r) PROVE todo' \in [Restores -> SUBSET Name] /\ pc' = pc
  BY <1>11, <1>a DEF Advance, RestoreTypeOK
<1>12. CASE BackupOk(r)
  <2>1. backup' \in [Restores -> [Feature -> Data]]
    <3>1. answer[r].data \in Data
      BY <1>e DEF Answer
    <3>. QED BY <1>12, <1>a, <3>1 DEF BackupOk, RestoreTypeOK
  <2>2. RestoreTypeOK'
    BY <1>12, <1>11, <1>a, <2>1 DEF BackupOk, RestoreTypeOK
  <2>3. ItemsFromRequest(r)'
    BY <1>12, <1>11, <1>b, SameItemsKept DEF BackupOk
  <2>. QED BY <2>2, <2>3
<1>13. CASE BackupFailedSkip(r)
  <2>1. items[r] # <<>> /\ request' = request /\ FinishItem(r) /\ PushStatus(r, "FAILED")
    BY <1>13, <1>b DEF BackupFailedSkip, CallPhase
  <2>2. "FAILED" \in ItemOutcome
    BY DEF ItemOutcome
  <2>3. RestoreTypeOK'
    BY <1>13, <1>a, <2>1, <2>2, FinishItemKeeps, PushStatusKeeps DEF BackupFailedSkip, RestoreTypeOK
  <2>. QED BY <1>a, <2>1, <2>3, FinishItemKeeps
<1>14. CASE BackupFailedGoOn(r)
  <2>1. pc' \in [Restores -> Phase] /\ todo' \in [Restores -> SUBSET Name] /\ pc[r] \in CallPhase
    BY <1>14, <1>a, <1>c, GotoKeeps DEF BackupFailedGoOn, Phase, CallPhase
  <2>2. RestoreTypeOK'
    BY <1>14, <1>a, <2>1 DEF BackupFailedGoOn, RestoreTypeOK
  <2>3. ItemsFromRequest(r)'
    BY <1>14, <1>b, <2>1, SameItemsKept DEF BackupFailedGoOn
  <2>. QED BY <2>2, <2>3
<1>15. CASE BackupDone(r)
  <2>1. pc' \in [Restores -> Phase] /\ todo' \in [Restores -> SUBSET Name] /\ pc[r] \in CallPhase
    BY <1>15, <1>a, <1>c, GotoKeeps DEF BackupDone, Phase, CallPhase
  <2>2. RestoreTypeOK'
    BY <1>15, <1>a, <2>1 DEF BackupDone, RestoreTypeOK
  <2>3. ItemsFromRequest(r)'
    BY <1>15, <1>b, <2>1, SameItemsKept DEF BackupDone
  <2>. QED BY <2>2, <2>3
<1>16. CASE ResetAnswered(r)
  <2>1. RestoreTypeOK'
    BY <1>16, <1>11, <1>a DEF ResetAnswered, RestoreTypeOK
  <2>2. ItemsFromRequest(r)'
    BY <1>16, <1>11, <1>b, SameItemsKept DEF ResetAnswered
  <2>. QED BY <2>1, <2>2
<1>17. CASE ResetDone(r)
  <2>1. pc[r] \in CallPhase /\ Current(r) \in Item
    BY <1>17, <1>a, <1>b, CurrentIsRequested DEF ResetDone, CallPhase
  <2>2. pc' \in [Restores -> Phase] /\ todo' \in [Restores -> SUBSET Name]
    BY <1>17, <1>a, <2>1, GotoKeeps DEF ResetDone, Phase, CallPhase, Item
  <2>3. RestoreTypeOK'
    BY <1>17, <1>a, <2>2 DEF ResetDone, RestoreTypeOK
  <2>4. ItemsFromRequest(r)'
    BY <1>17, <1>b, <2>1, SameItemsKept DEF ResetDone
  <2>. QED BY <2>3, <2>4
<1>18. CASE RestoreOk(r)
  <2>1. restart' \in [Restores -> BOOLEAN]
    BY <1>18, <1>a, TablesAssumption DEF RestoreOk, RestoreTypeOK
  <2>2. RestoreTypeOK'
    BY <1>18, <1>11, <1>a, <2>1 DEF RestoreOk, RestoreTypeOK
  <2>3. ItemsFromRequest(r)'
    BY <1>18, <1>11, <1>b, SameItemsKept DEF RestoreOk
  <2>. QED BY <2>2, <2>3
<1>19. CASE RestoreDone(r)
  <2>1. items[r] # <<>> /\ request' = request /\ FinishItem(r) /\ PushStatus(r, "SUCCESS")
    BY <1>19, <1>b DEF RestoreDone, CallPhase
  <2>2. "SUCCESS" \in ItemOutcome
    BY DEF ItemOutcome
  <2>3. RestoreTypeOK'
    BY <1>19, <1>a, <2>1, <2>2, FinishItemKeeps, PushStatusKeeps DEF RestoreDone, RestoreTypeOK
  <2>. QED BY <1>a, <2>1, <2>3, FinishItemKeeps
<1>20. CASE RestoreFailed(r)
  <2>1. pc' \in [Restores -> Phase] /\ todo' \in [Restores -> SUBSET Name] /\ pc[r] \in CallPhase
    BY <1>20, <1>a, <1>c, GotoKeeps DEF RestoreFailed, Phase, CallPhase
  <2>2. statusList' \in [Restores -> Seq(ListEntry)]
    BY <1>20, <1>a, <1>b, <2>1, PushStatusKeeps DEF RestoreFailed, RestoreTypeOK, ItemOutcome
  <2>3. RestoreTypeOK'
    BY <1>20, <1>a, <2>1, <2>2 DEF RestoreFailed, RestoreTypeOK
  <2>4. ItemsFromRequest(r)'
    BY <1>20, <1>b, <2>1, SameItemsKept DEF RestoreFailed
  <2>. QED BY <2>3, <2>4
<1>21. CASE UndoResetDone(r)
  <2>1. pc' \in [Restores -> Phase] /\ todo' \in [Restores -> SUBSET Name] /\ pc[r] \in CallPhase
    BY <1>21, <1>a, <1>d, GotoKeeps DEF UndoResetDone, Phase, CallPhase
  <2>2. RestoreTypeOK'
    BY <1>21, <1>a, <2>1 DEF UndoResetDone, RestoreTypeOK
  <2>3. ItemsFromRequest(r)'
    BY <1>21, <1>b, <2>1, SameItemsKept DEF UndoResetDone
  <2>. QED BY <2>2, <2>3
<1>22. CASE UndoRestoreAnswered(r)
  <2>1. unrecoverable' \in [Restores -> SUBSET (Name \cup {None})]
    <3>1. answer[r].feature \in Name \cup {None}
      BY <1>e DEF Answer
    <3>. QED BY <1>22, <1>a, <3>1 DEF UndoRestoreAnswered, RestoreTypeOK
  <2>2. RestoreTypeOK'
    BY <1>22, <1>11, <1>a, <2>1 DEF UndoRestoreAnswered, RestoreTypeOK
  <2>3. ItemsFromRequest(r)'
    BY <1>22, <1>11, <1>b, SameItemsKept DEF UndoRestoreAnswered
  <2>. QED BY <2>2, <2>3
<1>23. CASE UndoDone(r)
  <2>1. items[r] # <<>> /\ request' = request /\ FinishItem(r)
    BY <1>23, <1>b DEF UndoDone, CallPhase
  <2>2. statusList' \in [Restores -> Seq(ListEntry)]
    BY <1>23, <1>a, <2>1, PushStatusKeeps DEF UndoDone, RestoreTypeOK, ItemOutcome
  <2>3. restart' \in [Restores -> BOOLEAN]
    BY <1>23, <1>a DEF UndoDone, RestoreTypeOK
  <2>4. RestoreTypeOK'
    BY <1>23, <1>a, <2>1, <2>2, <2>3, FinishItemKeeps DEF UndoDone, RestoreTypeOK
  <2>. QED BY <1>a, <2>1, <2>4, FinishItemKeeps
<1>. QED
  BY <1>1, <1>3, <1>4, <1>5, <1>6, <1>7, <1>8, <1>9, <1>10, <1>12, <1>13, <1>14, <1>15, <1>16,
     <1>17, <1>18, <1>19, <1>20, <1>21, <1>22, <1>23 DEF WorkerStep

LEMMA WorkerStepKeepsAgentTypes ==
  ASSUME TypeOK, NEW r \in Restores, WorkerStep(r)
  PROVE  AgentsTypeOK'
<1>a. AgentsTypeOK /\ RestoreTypeOK /\ r \in Thread
  BY PayloadAssumption DEF TypeOK
<1>1. CASE SendQuery(r)
  <2>1. PICK f \in todo[r], op \in Op : Call(r, op, f, QueryData(r, f))
    BY <1>1 DEF SendQuery, Op, Highest, Lowest
  <2>2. f \in Name
    BY <1>a, <2>1 DEF RestoreTypeOK
  <2>3. f \in Feature => QueryData(r, f) \in Data
    BY <1>a, NoNoneAmongConfigurations DEF QueryData, RestoreTypeOK, Data
  <2>. QED BY <1>a, <2>1, <2>2, <2>3, CallKeepsTypes
<1>2. CASE GiveUp(r)
  BY <1>a, <1>2, TimeOutKeepsTypes DEF GiveUp
<1>3. CASE Consume(r)
  BY <1>a, <1>3, ConsumeKeepsTypes
<1>4. CASE UNCHANGED agentVars
  BY <1>a, <1>4 DEF agentVars, AgentsTypeOK
<1>5. SendQuery(r) \/ GiveUp(r) \/ Consume(r) \/ UNCHANGED agentVars
  BY DEF WorkerStep, LicenseGranted, LicenseRefused, Reject, IntegrityCheckFailed, Accept,
         SkipUnknownGroup, MissingFeature, BeginItem, AllItemsDone, Reply, BackupOk,
         BackupFailedSkip, BackupFailedGoOn, BackupDone, ResetAnswered, ResetDone,
         UnexpectedReply, RestoreOk, RestoreDone, RestoreFailed, UndoResetDone,
         UndoRestoreAnswered, UndoDone, Advance
<1>. QED BY <1>1, <1>2, <1>3, <1>4, <1>5

(* What a thread does leaves the bookkeeping of the others alone.             *)
Untouched(q) ==
  /\ request'[q] = request[q] /\ pc'[q] = pc[q] /\ items'[q] = items[q]
  /\ statusList'[q] = statusList[q] /\ status'[q] = status[q]
  /\ allRestored'[q] = allRestored[q] /\ restart'[q] = restart[q]
  /\ rebooting'[q] = rebooting[q]

LEMMA OthersUntouched ==
  ASSUME RestoreTypeOK, NEW r \in Restores, WorkerStep(r), NEW q \in Restores \ {r}
  PROVE  Untouched(q)
<1>p. \A outcome : PushStatus(r, outcome) => statusList'[q] = statusList[q]
  BY DEF PushStatus, RestoreTypeOK
<1> USE <1>p DEF RestoreTypeOK, Untouched, Goto, FinishItem, Abort, Advance
<1>1. CASE LicenseGranted(r) \/ LicenseRefused(r) \/ Reject(r) \/ IntegrityCheckFailed(r)
  BY <1>1 DEF LicenseGranted, LicenseRefused, Reject, IntegrityCheckFailed
<1>2. CASE Accept(r)
  BY <1>2 DEF Accept
<1>3. CASE SkipUnknownGroup(r) \/ MissingFeature(r) \/ BeginItem(r) \/ AllItemsDone(r) \/ Reply(r)
  BY <1>3 DEF SkipUnknownGroup, MissingFeature, BeginItem, AllItemsDone, Reply
<1>4. CASE SendQuery(r) \/ GiveUp(r)
  BY <1>4 DEF SendQuery, GiveUp, workerVars
<1>5. CASE BackupOk(r) \/ BackupFailedSkip(r) \/ BackupFailedGoOn(r) \/ BackupDone(r)
  BY <1>5 DEF BackupOk, BackupFailedSkip, BackupFailedGoOn, BackupDone
<1>6. CASE ResetAnswered(r) \/ ResetDone(r) \/ UnexpectedReply(r)
  BY <1>6 DEF ResetAnswered, ResetDone, UnexpectedReply
<1>7. CASE RestoreOk(r) \/ RestoreDone(r) \/ RestoreFailed(r)
  BY <1>7 DEF RestoreOk, RestoreDone, RestoreFailed
<1>8. CASE UndoResetDone(r) \/ UndoRestoreAnswered(r) \/ UndoDone(r)
  BY <1>8 DEF UndoResetDone, UndoRestoreAnswered, UndoDone
<1>. QED BY <1>1, <1>2, <1>3, <1>4, <1>5, <1>6, <1>7, <1>8 DEF WorkerStep

(* TypeOK and ItemsFromRequest are inductive together.                        *)
TypeInv == TypeOK /\ \A r \in Restores : ItemsFromRequest(r)

LEMMA InitTypes == Init => TypeInv
<1> SUFFICES ASSUME Init PROVE TypeInv
  OBVIOUS
<1>1. AgentsTypeOK
  BY NoNoneAmongConfigurations DEF Init, AgentsInit, AgentsTypeOK, NoAnswer, Answer, AnswerKind
<1>2. RestoreTypeOK
  BY NoNoneAmongConfigurations DEF Init, RestoreTypeOK, Phase, Status, ItemOutcome
<1>3. \A r \in Restores : ItemsFromRequest(r)
  BY DEF Init, ItemsFromRequest, CallPhase
<1>. QED BY <1>1, <1>2, <1>3 DEF TypeInv, TypeOK

LEMMA StepKeepsTypes == TypeInv /\ [Next]_vars => TypeInv'
<1> SUFFICES ASSUME TypeInv, [Next]_vars PROVE TypeInv'
  OBVIOUS
<1> USE DEF TypeInv
<1>1. ASSUME NEW r \in Restores, WorkerStep(r) PROVE TypeInv'
  <2>1. TypeOK'
    BY <1>1, WorkerStepKeepsTypes, WorkerStepKeepsAgentTypes DEF TypeOK
  <2>2. ASSUME NEW q \in Restores PROVE ItemsFromRequest(q)'
    <3>1. CASE q = r
      BY <1>1, <3>1, WorkerStepKeepsTypes
    <3>2. CASE q # r
      <4>1. Untouched(q) /\ ItemsFromRequest(q)
        BY <1>1, <3>2, OthersUntouched DEF TypeOK
      <4>. QED BY <4>1 DEF Untouched, ItemsFromRequest, Requested, Known, Current, isV1
    <3>. QED BY <3>1, <3>2
  <2>. QED BY <2>1, <2>2
<1>2. ASSUME UNCHANGED workerVars, AgentsTypeOK' PROVE TypeInv'
  <2>1. RestoreTypeOK'
    BY <1>2 DEF workerVars, RestoreTypeOK, TypeOK
  <2>2. \A q \in Restores : ItemsFromRequest(q)'
    BY <1>2 DEF workerVars, ItemsFromRequest, Requested, Known, Current, isV1
  <2>. QED BY <1>2, <2>1, <2>2 DEF TypeOK
<1>3. ASSUME NEW a \in Agent, AgentStep(a) PROVE TypeInv'
  BY <1>2, <1>3, ServeKeepsTypes DEF AgentStep, TypeOK
<1>4. CASE UNCHANGED vars
  <2>1. AgentsTypeOK' /\ UNCHANGED workerVars
    BY <1>4 DEF vars, agentVars, AgentsTypeOK, TypeOK
  <2>. QED BY <1>2, <2>1
<1>. QED BY <1>1, <1>3, <1>4 DEF Next, AllServed

(* Every variable keeps its type, in every behaviour of any number of         *)
(* requests on any tables.                                                    *)
THEOREM TypeCorrect == Spec => []TypeOK
<1>1. TypeInv => TypeOK
  BY DEF TypeInv
<1>. QED BY <1>1, InitTypes, StepKeepsTypes, PTL DEF Spec

-----------------------------------------------------------------------------
(* Refused requests. *)

(* A thread that calls nobody and of which no mailbox holds a message.        *)
Silent(q) == Idle(q) /\ \A a \in Agent : \A i \in DOMAIN queue[a] : queue[a][i].from # q

LEMMA WorkerStepKeepsSilence ==
  ASSUME TypeOK, NEW r \in Restores, WorkerStep(r), NEW q \in Restores \ {r}, Silent(q)
  PROVE  Silent(q)'
<1>a. AgentsTypeOK /\ RestoreTypeOK /\ r \in Thread /\ q \in Thread
  BY PayloadAssumption DEF TypeOK
<1>b. answer \in [Thread -> Answer] /\ queue \in [Agent -> Seq(Message)]
  BY <1>a DEF AgentsTypeOK
<1>1. CASE SendQuery(r)
  <2>1. PICK f \in todo[r], op \in Op : Call(r, op, f, QueryData(r, f))
    BY <1>1 DEF SendQuery, Op, Highest, Lowest
  <2>2. CASE f \in Feature
    <3> DEFINE msg == [from |-> r, op |-> op, feature |-> f, data |-> QueryData(r, f), awaited |-> TRUE]
               b == m_agent[f]
    <3>0. PICK x : answer' = [answer EXCEPT ![r] = x]
      BY <2>1, <2>2 DEF Call
    <3>1. answer'[q] = answer[q] /\ queue' = [queue EXCEPT ![b] = Append(queue[b], msg)]
      BY <1>a, <1>b, <2>1, <2>2, <3>0, ExceptElsewhere DEF Call
    <3>2. msg.from = r
      OBVIOUS
    <3> HIDE DEF msg
    <3>3. ASSUME NEW a \in Agent, NEW i \in DOMAIN queue'[a] PROVE queue'[a][i].from # q
      <4>1. CASE a = b
        <5>1. queue'[a] = Append(queue[a], msg) /\ queue[a] \in Seq(Message)
          BY <1>b, <3>1, <4>1
        <5>2. /\ DOMAIN queue[a] = 1..Len(queue[a]) /\ Len(queue[a]) \in Nat
              /\ DOMAIN queue'[a] = 1..(Len(queue[a]) + 1)
              /\ \A j \in 1..Len(queue[a]) : queue'[a][j] = queue[a][j]
              /\ queue'[a][Len(queue[a]) + 1] = msg
          BY <5>1
        <5>3. CASE i = Len(queue[a]) + 1
          BY <3>2, <5>2, <5>3
        <5>4. CASE i # Len(queue[a]) + 1
          BY <3>3, <5>2, <5>4 DEF Silent
        <5>. QED BY <5>3, <5>4
      <4>2. CASE a # b
        BY <1>b, <3>1, <3>3, <4>2 DEF Silent
      <4>. QED BY <4>1, <4>2
    <3>. QED BY <3>1, <3>3 DEF Silent, Idle
  <2>3. CASE f \notin Feature
    <3>1. PICK x : answer' = [answer EXCEPT ![r] = x]
      BY <2>1, <2>3 DEF Call
    <3>2. answer'[q] = answer[q] /\ queue' = queue
      BY <1>a, <1>b, <2>1, <2>3, <3>1, ExceptElsewhere DEF Call
    <3>. QED BY <3>2 DEF Silent, Idle
  <2>. QED BY <2>2, <2>3
<1>2. CASE GiveUp(r)
  <2> DEFINE b == m_agent[answer[r].feature]
             forget(s) == [i \in DOMAIN s |-> IF s[i].from = r THEN [s[i] EXCEPT !.awaited = FALSE] ELSE s[i]]
  <2>1. answer'[q] = answer[q] /\ queue' = [queue EXCEPT ![b] = forget(queue[b])]
    BY <1>2, <1>b DEF GiveUp, TimeOut
  <2>2. ASSUME NEW a \in Agent, NEW i \in DOMAIN queue'[a] PROVE queue'[a][i].from # q
    <3>1. queue'[a] = queue[a] \/ queue'[a] = forget(queue[a])
      BY <1>b, <2>1
    <3>2. DOMAIN forget(queue[a]) = DOMAIN queue[a]
      OBVIOUS
    <3>3. i \in DOMAIN queue[a] /\ queue[a][i].from # q
      BY <2>2, <3>1, <3>2 DEF Silent
    <3>4. queue[a][i] \in Message
      BY <1>b, <3>3
    <3>5. forget(queue[a])[i].from = queue[a][i].from
      BY <3>3, <3>4 DEF Message
    <3>. QED BY <3>1, <3>3, <3>5
  <2>. QED BY <2>1, <2>2 DEF Silent, Idle
<1>3. CASE Consume(r)
  <2>1. answer'[q] = answer[q] /\ queue' = queue
    BY <1>a, <1>b, <1>3, ExceptElsewhere DEF Consume
  <2>. QED BY <2>1 DEF Silent, Idle
<1>4. CASE UNCHANGED agentVars
  BY <1>4 DEF agentVars, Silent, Idle
<1>. QED
  BY <1>1, <1>2, <1>3, <1>4
  DEF WorkerStep, LicenseGranted, LicenseRefused, Reject, IntegrityCheckFailed, Accept,
      SkipUnknownGroup, MissingFeature, BeginItem, AllItemsDone, Reply, BackupOk,
      BackupFailedSkip, BackupFailedGoOn, BackupDone, ResetAnswered, ResetDone,
      UnexpectedReply, RestoreOk, RestoreDone, RestoreFailed, UndoResetDone,
      UndoRestoreAnswered, UndoDone, Advance

LEMMA AgentStepKeepsSilence ==
  ASSUME TypeOK, NEW b \in Agent, NEW kind \in ReplyKind, Serve(b, kind),
         NEW q \in Restores, Silent(q)
  PROVE  Silent(q)'
<1>1. queue \in [Agent -> Seq(Message)] /\ answer \in [Thread -> Answer] /\ q \in Thread
  BY PayloadAssumption DEF TypeOK, AgentsTypeOK
<1>2. queue[b] \in Seq(Message) /\ queue[b] # <<>> /\ queue' = [queue EXCEPT ![b] = Tail(queue[b])]
  BY <1>1 DEF Serve
<1>3. /\ DOMAIN Tail(queue[b]) = 1..(Len(queue[b]) - 1) /\ DOMAIN queue[b] = 1..Len(queue[b])
      /\ \A i \in 1..(Len(queue[b]) - 1) : Tail(queue[b])[i] = queue[b][i+1]
      /\ Head(queue[b]) = queue[b][1] /\ Len(queue[b]) \in Nat \ {0}
  BY <1>2
<1>4. Head(queue[b]).from # q
  BY <1>3 DEF Silent
<1>5. answer'[q] = answer[q]
  BY <1>1, <1>4 DEF Serve, Delivered
<1>6. ASSUME NEW a \in Agent, NEW i \in DOMAIN queue'[a] PROVE queue'[a][i].from # q
  <2>1. CASE a = b
    BY <1>1, <1>2, <1>3, <1>6, <2>1 DEF Silent
  <2>2. CASE a # b
    BY <1>1, <1>2, <1>6, <2>2 DEF Silent
  <2>. QED BY <2>1, <2>2
<1>. QED BY <1>5, <1>6 DEF Silent, Idle

LEMMA WorkerStepStaysOut ==
  ASSUME TypeOK, NEW r \in Restores, WorkerStep(r), StaysOut(r)
  PROVE  StaysOut(r)'
<1>a. AgentsTypeOK /\ RestoreTypeOK
  BY DEF TypeOK
<1>b. request'[r] = request[r]
  BY DEF WorkerStep, LicenseGranted, LicenseRefused, Reject, IntegrityCheckFailed, Accept,
      SkipUnknownGroup, MissingFeature, BeginItem, AllItemsDone, Reply, SendQuery, GiveUp,
      BackupOk, BackupFailedSkip, BackupFailedGoOn, BackupDone, ResetAnswered, ResetDone,
      UnexpectedReply, RestoreOk, RestoreDone, RestoreFailed, UndoResetDone,
      UndoRestoreAnswered, UndoDone, Abort, workerVars
<1>1. CASE LicenseGranted(r)
  BY <1>1, <1>a, <1>b DEF LicenseGranted, Goto, RestoreTypeOK, StaysOut, Idle, agentVars
<1>2. CASE LicenseRefused(r) \/ Reject(r)
  BY <1>2, <1>a, <1>b
  DEF LicenseRefused, Reject, Abort, Goto, RestoreTypeOK, StaysOut, Idle, agentVars
<1>3. CASE IntegrityCheckFailed(r)
  BY <1>3, <1>a, <1>b DEF IntegrityCheckFailed, Goto, RestoreTypeOK, StaysOut, Idle, agentVars
<1>4. CASE Accept(r)
  <2>1. ~Refused(request[r])
    BY <1>4 DEF Accept, StaysOut, Refused, isV1, Acceptable, IntegrityOk, GroupVersion
  <2>2. pc'[r] = "next"
    BY <1>4, <1>a DEF Accept, Goto, RestoreTypeOK
  <2>. QED BY <1>b, <2>1, <2>2 DEF StaysOut
<1>5. CASE Reply(r)
  BY <1>5, <1>a, <1>b DEF Reply, Reboots, Goto, RestoreTypeOK, StaysOut, Idle, agentVars
<1>6. CASE ~(LicenseGranted(r) \/ LicenseRefused(r) \/ Reject(r) \/ IntegrityCheckFailed(r)
             \/ Accept(r) \/ Reply(r))
  <2>1. pc'[r] = "decode" => pc[r] = "decode"
    BY <1>6, <1>a
    DEF WorkerStep, SkipUnknownGroup, MissingFeature, BeginItem, AllItemsDone, SendQuery, GiveUp,
        BackupOk, BackupFailedSkip, BackupFailedGoOn, BackupDone, ResetAnswered, ResetDone,
        UnexpectedReply, RestoreOk, RestoreDone, RestoreFailed, UndoResetDone,
        UndoRestoreAnswered, UndoDone, Abort, Goto, FinishItem, Advance, workerVars, RestoreTypeOK
  <2>2. ~Refused(request[r])
    BY <1>6
    DEF WorkerStep, SkipUnknownGroup, MissingFeature, BeginItem, AllItemsDone, SendQuery, GiveUp,
        TimeOut, BackupOk, BackupFailedSkip, BackupFailedGoOn, BackupDone, ResetAnswered, ResetDone,
        UnexpectedReply, RestoreOk, RestoreDone, RestoreFailed, UndoResetDone,
        UndoRestoreAnswered, UndoDone, CallPhase, StaysOut, Idle
  <2>. QED BY <1>b, <2>1, <2>2 DEF StaysOut
<1>. QED BY <1>1, <1>2, <1>3, <1>4, <1>5, <1>6

LEMMA InitRefusal == Init => \A r \in Restores : StaysOut(r)
BY PayloadAssumption DEF Init, AgentsInit, NoAnswer, StaysOut, Idle

LEMMA StepKeepsRefusal ==
  ASSUME TypeOK, \A r \in Restores : StaysOut(r), [Next]_vars
  PROVE  \A r \in Restores : StaysOut(r)'
<1>1. ASSUME NEW r \in Restores, WorkerStep(r), NEW q \in Restores PROVE StaysOut(q)'
  <2>1. CASE q = r
    BY <1>1, <2>1, WorkerStepStaysOut
  <2>2. CASE q # r
    <3>1. Untouched(q) /\ StaysOut(q)
      BY <1>1, <2>2, OthersUntouched DEF TypeOK
    <3>2. Refused(request[q]) => Silent(q)'
      BY <1>1, <2>2, <3>1, WorkerStepKeepsSilence DEF StaysOut, Silent
    <3>. QED BY <3>1, <3>2 DEF Untouched, StaysOut, Silent
  <2>. QED BY <2>1, <2>2
<1>2. ASSUME NEW a \in Agent, AgentStep(a), NEW q \in Restores PROVE StaysOut(q)'
  <2>1. UNCHANGED workerVars /\ StaysOut(q)
    BY <1>2 DEF AgentStep
  <2>2. Refused(request[q]) => Silent(q)'
    BY <1>2, <2>1, AgentStepKeepsSilence DEF AgentStep, StaysOut, Silent
  <2>. QED BY <2>1, <2>2 DEF workerVars, StaysOut, Silent
<1>3. ASSUME UNCHANGED vars, NEW q \in Restores PROVE StaysOut(q)'
  BY <1>3 DEF vars, agentVars, workerVars, StaysOut, Idle
<1>. QED BY <1>1, <1>2, <1>3 DEF Next, AllServed

(* Whatever the tables, the payloads and the other requests are, a refused    *)
(* request sends nothing to any agent and reports on no item.                 *)
THEOREM Refusal == Spec => []RefusedTouchesNothing
<1>1. (\A r \in Restores : StaysOut(r)) => RefusedTouchesNothing
  BY DEF RefusedTouchesNothing, StaysOut
<1>2. (\A r \in Restores : StaysOut(r)) /\ TypeOK /\ [Next]_vars => (\A r \in Restores : StaysOut(r))'
  BY StepKeepsRefusal
<1>. QED BY <1>1, <1>2, InitRefusal, TypeCorrect, PTL DEF Spec

-----------------------------------------------------------------------------
(* The books behind the response. *)

(* An entry more, an item less, against n items requested.                    *)
LEMMA Ledger ==
  ASSUME NEW entries \in Nat, NEW left \in Nat, NEW n \in Nat
  PROVE  /\ entries + left = n => (entries + 1) + (left - 1) = n
         /\ entries + left = n => (entries + 1) + left = n + 1
         /\ entries + left = n + 1 => entries + (left - 1) = n
OBVIOUS

(* The books are about the thread's own variables only.                       *)
LEMMA BooksFrame ==
  ASSUME NEW r \in Restores, Books(r),
         request'[r] = request[r], pc'[r] = pc[r], items'[r] = items[r],
         statusList'[r] = statusList[r], status'[r] = status[r], allRestored'[r] = allRestored[r]
  PROVE  Books(r)'
<1>1. /\ isV1(r)' <=> isV1(r)
      /\ Undoing(r)' <=> Undoing(r)
      /\ Working(r)' <=> Working(r)
      /\ HasFailed(r)' <=> HasFailed(r)
      /\ Requested(r)' = Requested(r)
      /\ Current(r)' = Current(r)
  BY DEF isV1, Undoing, Working, HasFailed, Requested, Current
<1>2. \A it : (Reported(r, it)' <=> Reported(r, it)) /\ (Left(r, it)' <=> Left(r, it))
  BY DEF Reported, Left
<1>3. EntriesSaid(r)'
  BY SaidKept DEF Books
<1>. QED BY <1>1, <1>2, <1>3 DEF Books

LEMMA SameBooksKept ==
  ASSUME NEW r \in Restores, Books(r), Working(r), Working(r)',
         Undoing(r)' <=> Undoing(r),
         request' = request, items' = items, statusList' = statusList, allRestored' = allRestored
  PROVE  Books(r)'
<1>1. pc'[r] \notin {"license", "decode", "reply", "answered"}
  BY DEF Working, CallPhase
<1>2. /\ isV1(r)' <=> isV1(r)
      /\ HasFailed(r)' <=> HasFailed(r)
      /\ Requested(r)' = Requested(r)
      /\ Current(r)' = Current(r)
  BY DEF isV1, HasFailed, Requested, Current
<1>3. \A it : (Reported(r, it)' <=> Reported(r, it)) /\ (Left(r, it)' <=> Left(r, it))
  BY DEF Reported, Left
<1>4. EntriesSaid(r)'
  BY SaidKept DEF Books
<1>. QED BY <1>1, <1>2, <1>3, <1>4 DEF Books

(* The current item gets its entry and is left behind.                        *)
LEMMA EntryAndFinishKeepBooks ==
  ASSUME RestoreTypeOK, NEW r \in Restores, ItemsFromRequest(r), Books(r), Working(r),
         items[r] # <<>>, NEW st \in ItemOutcome, PushStatus(r, st), FinishItem(r),
         request' = request, ~(isV1(r) /\ Undoing(r)),
         \/ st = "FAILED" /\ ~allRestored'[r]
         \/ st # "FAILED" /\ ~Undoing(r) /\ allRestored' = allRestored
  PROVE  Books(r)'
<1>1. pc'[r] = "next"
  BY DEF FinishItem, Goto, RestoreTypeOK
<1>2. /\ Len(statusList'[r]) = Len(statusList[r]) + 1 /\ Len(items'[r]) = Len(items[r]) - 1
      /\ Len(statusList[r]) \in Nat /\ Len(items[r]) \in Nat /\ Len(request[r].items) \in Nat
  <2>1. Len(statusList'[r]) = Len(statusList[r]) + 1
    BY PushStatusKeeps
  <2>2. Len(items'[r]) = Len(items[r]) - 1
    BY FinishItemKeeps
  <2>3. statusList[r] \in Seq(ListEntry) /\ items[r] \in Seq(Item)
        /\ request[r].items \in Seq(Item)
    BY RequestFacts DEF RestoreTypeOK
  <2>. QED BY <2>1, <2>2, <2>3, LenProperties
<1>3. Requested(r)' = Requested(r) /\ isV1(r)' = isV1(r) /\ request'[r] = request[r]
  BY DEF Requested, isV1
<1>4. ~Undoing(r)' /\ Working(r)' /\ pc'[r] \notin {"license", "decode", "reply", "answered"}
  BY <1>1 DEF Undoing, Working
<1>5. \A it \in Requested(r) : Reported(r, it) \/ Left(r, it)
  BY DEF Books
<1>6. \A it \in Requested(r) : Reported(r, it)' \/ Left(r, it)'
  BY <1>5, PushStatusKeeps, FinishItemKeeps
<1>7. Len(statusList'[r]) + Len(items'[r]) = Len(request'[r].items)
  <2>1. Len(statusList[r]) + Len(items[r]) = Len(request[r].items)
    BY DEF Books
  <2>2. (Len(statusList[r]) + 1) + (Len(items[r]) - 1) = Len(request[r].items)
    <3> DEFINE entries == Len(statusList[r])  left == Len(items[r])  n == Len(request[r].items)
    <3>1. entries \in Nat /\ left \in Nat /\ n \in Nat /\ entries + left = n
      BY <1>2, <2>1
    <3> HIDE DEF entries, left, n
    <3>2. (entries + 1) + (left - 1) = n
      BY <3>1, Ledger
    <3>. QED BY <3>2 DEF entries, left, n
  <2>3. Len(statusList'[r]) + Len(items'[r]) = (Len(statusList[r]) + 1) + (Len(items[r]) - 1)
    BY <1>2
  <2>4. Len(request'[r].items) = Len(request[r].items)
    BY <1>3
  <2>. QED BY <2>2, <2>3, <2>4
<1>8. allRestored'[r] => ~HasFailed(r)'
  BY PushStatusKeeps DEF Books
<1>9. ~allRestored'[r] => HasFailed(r)'
  BY PushStatusKeeps DEF Books
<1>10. EntriesSaid(r)'
  BY PushStatusKeeps DEF Books
<1>. QED BY <1>3, <1>4, <1>6, <1>7, <1>8, <1>9, <1>10 DEF Books

LEMMA WorkerStepKeepsBooks ==
  ASSUME TypeOK, NEW r \in Restores, ItemsFromRequest(r), Books(r), WorkerStep(r)
  PROVE  Books(r)'
<1>a. RestoreTypeOK
  BY DEF TypeOK
<1>b. pc[r] \in CallPhase => items[r] # <<>>
  BY DEF ItemsFromRequest
<1>c. {"SUCCESS", "FAILED"} \subseteq ItemOutcome
  BY DEF ItemOutcome
<1>1. CASE LicenseGranted(r)
  <2>1. pc'[r] = "decode" /\ pc[r] = "license"
    BY <1>1, <1>a DEF LicenseGranted, Goto, RestoreTypeOK
  <2>2. ~Undoing(r)' /\ ~Working(r)'
    BY <2>1 DEF Undoing, Working, CallPhase
  <2>3. EntriesSaid(r)'
    BY <1>1, SaidKept DEF LicenseGranted, Books
  <2>. QED BY <1>1, <2>1, <2>2, <2>3 DEF LicenseGranted, Books, HasFailed
<1>2. ASSUME Abort(r), pc[r] \in {"license", "decode", "next"} \cup CallPhase,
             pc[r] = "next" => items[r] # <<>>
      PROVE  Books(r)'
  <2>1. pc'[r] = "reply" /\ status'[r] = "FAILED"
    BY <1>2, <1>a DEF Abort, Goto, RestoreTypeOK
  <2>2. ~Undoing(r)' /\ ~Working(r)' /\ request'[r] = request[r] /\ statusList'[r] = statusList[r]
    BY <1>2, <2>1 DEF Undoing, Working, CallPhase, Abort
  <2>3. EntriesSaid(r)'
    BY <2>2, SaidKept DEF Books
  <2>4. ASSUME ~isV1(r), request[r].items # <<>>
        PROVE  Len(statusList[r]) < Len(request[r].items)
    <3>1. Len(statusList[r]) \in Nat /\ request[r].items \in Seq(Item) /\ items[r] \in Seq(Item)
      BY <1>a, RequestFacts, LenProperties DEF RestoreTypeOK
    <3>2. CASE pc[r] \in {"license", "decode"}
      <4>1. Len(statusList[r]) = 0
        BY <3>2 DEF Books
      <4>2. Len(request[r].items) \in Nat \ {0}
        BY <2>4, <3>1, EmptySeq, LenProperties
      <4>. QED BY <4>1, <4>2
    <3>3. CASE pc[r] \in {"next"} \cup CallPhase
      <4>1. Len(statusList[r]) + Len(items[r]) = Len(request[r].items)
        BY <2>4, <3>3 DEF Books, Working
      <4>2. Len(items[r]) \in Nat \ {0} /\ Len(request[r].items) \in Nat
        BY <1>2, <1>b, <3>1, <3>3, EmptySeq, LenProperties
      <4> DEFINE entries == Len(statusList[r])  left == Len(items[r])  n == Len(request[r].items)
      <4>3. entries \in Nat /\ left \in Nat \ {0} /\ n \in Nat /\ entries + left = n
        BY <3>1, <4>1, <4>2
      <4> HIDE DEF entries, left, n
      <4>4. entries < n
        BY <4>3
      <4>. QED BY <4>4 DEF entries, n
    <3>. QED BY <1>2, <3>2, <3>3
  <2>5. isV1(r)' <=> isV1(r)
    BY <2>2 DEF isV1
  <2>. QED BY <1>2, <2>1, <2>2, <2>3, <2>4, <2>5 DEF Abort, Books, HasFailed
<1>3. CASE LicenseRefused(r) \/ Reject(r) \/ MissingFeature(r) \/ UnexpectedReply(r)
  BY <1>2, <1>3 DEF LicenseRefused, Reject, MissingFeature, UnexpectedReply, CallPhase
<1>4. CASE IntegrityCheckFailed(r)
  <2>1. pc'[r] = "reply" /\ status'[r] = "UNKNOWN"
    BY <1>4, <1>a DEF IntegrityCheckFailed, Goto, RestoreTypeOK
  <2>2. ~Undoing(r)' /\ ~Working(r)'
    BY <2>1 DEF Undoing, Working, CallPhase
  <2>3. request'[r] = request[r] /\ statusList'[r] = statusList[r] /\ statusList[r] = <<>> /\ pc[r] = "decode"
    BY <1>4 DEF IntegrityCheckFailed, Books
  <2>4. EntriesSaid(r)'
    BY <2>3, SaidKept DEF Books
  <2>5. request[r].items # <<>> => Len(statusList[r]) < Len(request[r].items)
    <3>1. request[r].items \in Seq(Item) /\ Len(statusList[r]) = 0
      BY <1>a, <2>3, RequestFacts
    <3>. QED BY <3>1, EmptySeq, LenProperties
  <2>. QED BY <1>4, <2>1, <2>2, <2>3, <2>4, <2>5 DEF IntegrityCheckFailed, Books, HasFailed
<1>5. CASE Accept(r)
  <2>1. pc[r] = "decode" /\ pc'[r] = "next" /\ request' = request
    BY <1>5, <1>a DEF Accept, Goto, RestoreTypeOK
  <2>2. ~Undoing(r)' /\ Working(r)'
    BY <2>1 DEF Undoing, Working
  <2>3. request[r].items \in Seq(Item)
    BY <1>a, RequestFacts
  <2>4. /\ Len(items'[r]) = Len(request[r].items)
        /\ \A j \in DOMAIN request[r].items : \E i \in DOMAIN items'[r] : items'[r][i] = request[r].items[j]
    <3>1. CASE items' = [items EXCEPT ![r] = request[r].items]
      BY <1>a, <3>1 DEF RestoreTypeOK
    <3>2. CASE \E s \in GroupOrders(request[r].items) : items' = [items EXCEPT ![r] = s]
      <4> DEFINE its == request[r].items
      <4>1. PICK s \in GroupOrders(its) : items' = [items EXCEPT ![r] = s]
        BY <3>2
      <4>2. items'[r] = s
        BY <1>a, <4>1 DEF RestoreTypeOK
      <4>3. its \in Seq(Item)
        BY <2>3
      <4> HIDE DEF its
      <4>4. Len(s) = Len(its) /\ \A j \in DOMAIN its : \E i \in DOMAIN s : s[i] = its[j]
        BY ONLY <4>3, s \in GroupOrders(its), GroupOrdersPermute
      <4>. QED BY <4>2, <4>4 DEF its
    <3>. QED BY <1>5, <3>1, <3>2 DEF Accept
  <2>5. \A it \in Requested(r) : Left(r, it)'
    BY <2>4 DEF Requested, Left
  <2>6. statusList'[r] = <<>> /\ allRestored'[r] /\ ~HasFailed(r)'
    BY <1>5, <2>1 DEF Accept, Books, HasFailed
  <2>7. Len(request[r].items) \in Nat /\ request'[r] = request[r] /\ Requested(r)' = Requested(r)
    BY <2>1, <2>3 DEF Requested
  <2>8. Len(statusList'[r]) + Len(items'[r]) = Len(request'[r].items)
    BY <2>4, <2>6, <2>7
  <2>9. EntriesSaid(r)'
    BY <2>6 DEF EntriesSaid
  <2>. QED BY <2>1, <2>2, <2>5, <2>6, <2>7, <2>8, <2>9 DEF Books
<1>6. CASE SkipUnknownGroup(r) \/ BackupFailedSkip(r)
  <2>1. /\ items[r] # <<>> /\ PushStatus(r, "FAILED") /\ FinishItem(r)
        /\ request' = request /\ ~allRestored'[r] /\ pc[r] \in {"next", "backup"}
    BY <1>6, <1>a, <1>b DEF SkipUnknownGroup, BackupFailedSkip, RestoreTypeOK, CallPhase
  <2>2. Working(r) /\ ~Undoing(r)
    BY <2>1 DEF Working, Undoing, CallPhase
  <2>. QED BY <1>a, <1>c, <2>1, <2>2, EntryAndFinishKeepBooks
<1>7. CASE RestoreDone(r)
  <2>1. /\ items[r] # <<>> /\ PushStatus(r, "SUCCESS") /\ FinishItem(r)
        /\ request' = request /\ allRestored' = allRestored /\ pc[r] = "restore"
    BY <1>7, <1>b DEF RestoreDone, CallPhase
  <2>2. Working(r) /\ ~Undoing(r)
    BY <2>1 DEF Working, Undoing, CallPhase
  <2>. QED BY <1>a, <1>c, <2>1, <2>2, EntryAndFinishKeepBooks
<1>8. CASE BeginItem(r) \/ BackupFailedGoOn(r) \/ BackupDone(r) \/ ResetDone(r) \/ UndoResetDone(r)
  <2>1. /\ request' = request /\ items' = items /\ statusList' = statusList
        /\ allRestored' = allRestored
    BY <1>8 DEF BeginItem, BackupFailedGoOn, BackupDone, ResetDone, UndoResetDone
  <2>2. \/ pc[r] \in {"next", "backup", "reset"} /\ pc'[r] \in {"backup", "reset", "restore"}
        \/ pc[r] = "undoReset" /\ pc'[r] = "undoRestore"
    BY <1>8, <1>a DEF BeginItem, BackupFailedGoOn, BackupDone, ResetDone, UndoResetDone, Goto, RestoreTypeOK
  <2>3. Working(r) /\ Working(r)' /\ (Undoing(r)' <=> Undoing(r))
    BY <2>2 DEF Working, Undoing, CallPhase
  <2>. QED BY <1>a, <2>1, <2>3, SameBooksKept
<1>9. CASE SendQuery(r) \/ GiveUp(r)
  BY <1>9, BooksFrame DEF SendQuery, GiveUp, workerVars
<1>10. CASE BackupOk(r) \/ ResetAnswered(r) \/ RestoreOk(r) \/ UndoRestoreAnswered(r)
  BY <1>10, BooksFrame DEF BackupOk, ResetAnswered, RestoreOk, UndoRestoreAnswered, Advance
<1>11. CASE AllItemsDone(r)
  <2>1. /\ pc[r] = "next" /\ pc'[r] = "reply" /\ items[r] = <<>> /\ statusList' = statusList
        /\ request' = request /\ allRestored' = allRestored
        /\ status'[r] = IF allRestored[r] THEN "SUCCESS" ELSE "PARTIAL_SUCCESS"
    BY <1>11, <1>a DEF AllItemsDone, OverallStatus, Goto, RestoreTypeOK
  <2>2. Working(r) /\ ~Undoing(r) /\ ~Working(r)' /\ ~Undoing(r)'
    BY <2>1 DEF Working, Undoing, CallPhase
  <2>3. Len(statusList[r]) = Len(request[r].items)
    <3>1. Len(statusList[r]) \in Nat /\ Len(request[r].items) \in Nat /\ Len(items[r]) = 0
      BY <1>a, <2>1, RequestFacts DEF RestoreTypeOK
    <3>. QED BY <2>2, <3>1 DEF Books
  <2>4. \A it \in Requested(r) : Reported(r, it)
    BY <2>1, <2>2 DEF Books, Left
  <2>5. allRestored[r] <=> ~HasFailed(r)
    BY <2>2 DEF Books
  <2>6. (HasFailed(r)' <=> HasFailed(r)) /\ Requested(r)' = Requested(r)
        /\ \A it : Reported(r, it)' <=> Reported(r, it)
    BY <2>1 DEF HasFailed, Requested, Reported
  <2>7. EntriesSaid(r)' /\ status'[r] \notin {"FAILED", "UNKNOWN"}
    BY <2>1, SaidKept DEF Books
  <2>. QED BY <2>1, <2>2, <2>3, <2>4, <2>5, <2>6, <2>7 DEF Books
<1>12. CASE Reply(r)
  <2>1. /\ pc[r] = "reply" /\ pc'[r] = "answered" /\ statusList' = statusList /\ status' = status
        /\ request' = request /\ allRestored' = allRestored
    BY <1>12, <1>a DEF Reply, Goto, RestoreTypeOK
  <2>2. ~Working(r)' /\ ~Undoing(r)'
    BY <2>1 DEF Working, Undoing, CallPhase
  <2>3. EntriesSaid(r)' /\ (isV1(r)' <=> isV1(r))
    BY <2>1, SaidKept DEF Books, isV1
  <2>. QED BY <2>1, <2>2, <2>3 DEF Books, HasFailed, Requested, Reported
<1>13. CASE RestoreFailed(r)
  <2>1. /\ pc[r] = "restore" /\ pc'[r] = "undoReset" /\ items' = items /\ request' = request
        /\ ~allRestored'[r] /\ items[r] # <<>>
        /\ IF isV1(r) THEN PushStatus(r, "FAILED") ELSE statusList' = statusList
    BY <1>13, <1>a, <1>b DEF RestoreFailed, Goto, RestoreTypeOK, CallPhase
  <2>2. Working(r) /\ ~Undoing(r) /\ Working(r)' /\ Undoing(r)'
        /\ pc'[r] \notin {"license", "decode", "reply", "answered"}
    BY <2>1 DEF Working, Undoing, CallPhase
  <2>3. /\ Requested(r)' = Requested(r) /\ isV1(r)' = isV1(r) /\ Current(r)' = Current(r)
        /\ \A it : Left(r, it)' <=> Left(r, it)
    BY <2>1 DEF Requested, isV1, Current, Left
  <2>4. /\ Len(statusList[r]) + Len(items[r]) = Len(request[r].items)
        /\ Len(statusList[r]) \in Nat /\ Len(items[r]) \in Nat /\ Len(request[r].items) \in Nat
    <3>1. Len(statusList[r]) \in Nat /\ Len(items[r]) \in Nat /\ Len(request[r].items) \in Nat
      BY <1>a, RequestFacts DEF RestoreTypeOK
    <3>2. Len(statusList[r]) + Len(items[r]) = Len(request[r].items)
      BY <2>2 DEF Books
    <3>. QED BY <3>1, <3>2
  <2>s. EntriesSaid(r)'
    <3>1. EntriesSaid(r)
      BY DEF Books
    <3>. QED BY <1>a, <1>c, <2>1, <3>1, PushStatusKeeps, SaidKept
  <2>5. CASE isV1(r)
    <3>1. /\ Len(statusList'[r]) = Len(statusList[r]) + 1 /\ HasFailed(r)' /\ Reported(r, Current(r))'
          /\ \A it : Reported(r, it) => Reported(r, it)'
      BY <1>a, <1>c, <2>1, <2>3, <2>5, PushStatusKeeps
    <3>2. Len(statusList'[r]) + Len(items'[r]) = Len(request'[r].items) + 1
      <4>1. (Len(statusList[r]) + 1) + Len(items[r]) = Len(request[r].items) + 1
        <5> DEFINE entries == Len(statusList[r])  left == Len(items[r])  n == Len(request[r].items)
        <5>1. entries \in Nat /\ left \in Nat /\ n \in Nat /\ entries + left = n
          BY <2>4
        <5> HIDE DEF entries, left, n
        <5>2. (entries + 1) + left = n + 1
          BY <5>1, Ledger
        <5>. QED BY <5>2 DEF entries, left, n
      <4>2. Len(statusList'[r]) + Len(items'[r]) = (Len(statusList[r]) + 1) + Len(items[r])
        BY <2>1, <3>1
      <4>3. Len(request'[r].items) = Len(request[r].items)
        BY <2>1
      <4>. QED BY <4>1, <4>2, <4>3
    <3>3. \A it \in Requested(r) : Reported(r, it)' \/ Left(r, it)'
      BY <2>2, <2>3, <3>1 DEF Books
    <3>. QED BY <2>1, <2>2, <2>3, <2>s, <2>5, <3>1, <3>2, <3>3 DEF Books
  <2>6. CASE ~isV1(r)
    <3>1. Len(statusList'[r]) + Len(items'[r]) = Len(request'[r].items)
      BY <2>1, <2>4, <2>6
    <3>2. \A it \in Requested(r) : Reported(r, it)' \/ Left(r, it)'
      <4>1. \A it : Reported(r, it)' <=> Reported(r, it)
        BY <2>1, <2>6 DEF Reported
      <4>. QED BY <2>2, <2>3, <4>1 DEF Books
    <3>. QED BY <2>1, <2>2, <2>3, <2>s, <2>6, <3>1, <3>2 DEF Books
  <2>. QED BY <2>5, <2>6
<1>14. CASE UndoDone(r)
  <2>1. /\ pc[r] = "undoRestore" /\ FinishItem(r) /\ request' = request /\ items[r] # <<>>
        /\ allRestored' = allRestored
        /\ IF isV1(r) THEN statusList' = statusList ELSE PushStatus(r, "FAILED")
    BY <1>14, <1>b DEF UndoDone, CallPhase
  <2>2. Working(r) /\ Undoing(r) /\ ~allRestored[r] /\ ~allRestored'[r]
    BY <2>1 DEF Working, Undoing, CallPhase, Books
  <2>3. CASE ~isV1(r)
    BY <1>a, <1>c, <2>1, <2>2, <2>3, EntryAndFinishKeepBooks
  <2>4. CASE isV1(r)
    <3>1. pc'[r] = "next"
      BY <1>a, <2>1 DEF FinishItem, Goto, RestoreTypeOK
    <3>2. ~Undoing(r)' /\ Working(r)'
      BY <3>1 DEF Undoing, Working
    <3>3. /\ Requested(r)' = Requested(r) /\ isV1(r)' = isV1(r) /\ (HasFailed(r)' <=> HasFailed(r))
          /\ \A it : Reported(r, it)' <=> Reported(r, it)
      BY <2>1, <2>4 DEF Requested, isV1, HasFailed, Reported
    <3>4. Len(statusList[r]) + Len(items[r]) = Len(request[r].items) + 1
      BY <2>2, <2>4 DEF Books
    <3>5. Len(statusList'[r]) + Len(items'[r]) = Len(request'[r].items)
      <4>1. Len(statusList[r]) \in Nat /\ Len(items[r]) \in Nat /\ Len(request[r].items) \in Nat
        BY <1>a, RequestFacts DEF RestoreTypeOK
      <4>2. Len(items'[r]) = Len(items[r]) - 1
        BY <1>a, <2>1, FinishItemKeeps
      <4>3. Len(statusList[r]) + (Len(items[r]) - 1) = Len(request[r].items)
        <5> DEFINE entries == Len(statusList[r])  left == Len(items[r])  n == Len(request[r].items)
        <5>1. entries \in Nat /\ left \in Nat /\ n \in Nat /\ entries + left = n + 1
          BY <3>4, <4>1
        <5> HIDE DEF entries, left, n
        <5>2. entries + (left - 1) = n
          BY <5>1, Ledger
        <5>. QED BY <5>2 DEF entries, left, n
      <4>4. Len(statusList'[r]) + Len(items'[r]) = Len(statusList[r]) + (Len(items[r]) - 1)
        BY <2>1, <2>4, <4>2
      <4>5. Len(request'[r].items) = Len(request[r].items)
        BY <2>1
      <4>. QED BY <4>3, <4>4, <4>5
    <3>6. \A it \in Requested(r) : Reported(r, it)' \/ Left(r, it)'
      BY <1>a, <2>1, <2>2, <2>4, <3>3, FinishItemKeeps DEF Books
    <3>7. HasFailed(r)
      BY <2>2, <2>4 DEF Books
    <3>8. EntriesSaid(r)'
      BY <2>1, <2>4, SaidKept DEF Books
    <3>. QED BY <2>2, <3>1, <3>2, <3>3, <3>5, <3>6, <3>7, <3>8 DEF Books
  <2>. QED BY <2>3, <2>4
<1>. QED
  BY <1>1, <1>3, <1>4, <1>5, <1>6, <1>7, <1>8, <1>9, <1>10, <1>11, <1>12, <1>13, <1>14
  DEF WorkerStep

LEMMA InitBooks == Init => \A r \in Restores : Books(r)
BY DEF Init, Books, EntriesSaid, HasFailed, Working, Undoing, CallPhase

LEMMA StepKeepsBooks ==
  ASSUME TypeInv, \A r \in Restores : Books(r), [Next]_vars
  PROVE  \A r \in Restores : Books(r)'
<1> USE DEF TypeInv
<1>1. ASSUME NEW r \in Restores, WorkerStep(r), NEW q \in Restores PROVE Books(q)'
  <2>1. CASE q = r
    BY <1>1, <2>1, WorkerStepKeepsBooks
  <2>2. CASE q # r
    <3>1. Untouched(q) /\ Books(q)
      BY <1>1, <2>2, OthersUntouched DEF TypeOK
    <3>. QED BY <3>1, BooksFrame DEF Untouched
  <2>. QED BY <2>1, <2>2
<1>2. ASSUME UNCHANGED workerVars, NEW q \in Restores PROVE Books(q)'
  BY <1>2, BooksFrame DEF workerVars
<1>. QED BY <1>1, <1>2 DEF Next, AgentStep, AllServed, vars

(* The response tells what happened, whatever the agents did and however many  *)
(* requests were served at once.                                              *)
THEOREM Honesty == Spec => []StatusHonest
<1>1. TypeInv /\ (\A r \in Restores : Books(r)) => StatusHonest
  <2> SUFFICES ASSUME TypeInv, NEW r \in Restores, Books(r), pc[r] = "answered"
               PROVE  /\ status[r] \in {"SUCCESS", "PARTIAL_SUCCESS"} =>
                           /\ Len(statusList[r]) = Len(request[r].items)
                           /\ \A it \in Requested(r) : it.id \in Entries(r, "SUCCESS") \cup Entries(r, "FAILED")
                      /\ status[r] = "SUCCESS" =>
                           /\ Entries(r, "FAILED") = {}
                           /\ ~isV1(r) => \A i \in DOMAIN statusList[r] : statusList[r][i].status = "SUCCESS"
                      /\ status[r] = "PARTIAL_SUCCESS" =>
                           \E i \in DOMAIN statusList[r] :
                             statusList[r][i].outcome = "FAILED" /\ statusList[r][i].status = "FAILED"
                      /\ status[r] \in {"FAILED", "UNKNOWN"} /\ ~isV1(r) /\ request[r].items # <<>> =>
                           Len(statusList[r]) < Len(request[r].items)
    BY DEF StatusHonest
  <2>1. statusList[r] \in Seq(ListEntry)
    BY DEF TypeInv, TypeOK, RestoreTypeOK
  <2>2. \A i \in DOMAIN statusList[r] :
          /\ statusList[r][i].outcome \in {"SUCCESS", "FAILED"}
          /\ statusList[r][i].outcome = "FAILED" => statusList[r][i].status = "FAILED"
          /\ statusList[r][i].outcome = "SUCCESS" /\ ~isV1(r) => statusList[r][i].status = "SUCCESS"
    <3> SUFFICES ASSUME NEW i \in DOMAIN statusList[r]
                 PROVE  /\ statusList[r][i].outcome \in {"SUCCESS", "FAILED"}
                        /\ statusList[r][i].outcome = "FAILED" => statusList[r][i].status = "FAILED"
                        /\ statusList[r][i].outcome = "SUCCESS" /\ ~isV1(r) => statusList[r][i].status = "SUCCESS"
      OBVIOUS
    <3>1. i \in 1..Len(statusList[r])
      BY <2>1, LenProperties
    <3>2. statusList[r][i] \in ListEntry
      BY <2>1, <3>1, ElementOfSeq
    <3>3. statusList[r][i].status \in Said(r, statusList[r][i].outcome)
      BY DEF Books, EntriesSaid
    <3>. QED BY <3>2, <3>3 DEF ListEntry, ItemOutcome, Said
  <2>3. status[r] \in {"SUCCESS", "PARTIAL_SUCCESS"} => \A it \in Requested(r) : Reported(r, it)
    BY DEF Books
  <2>4. \A it : Reported(r, it) => it.id \in Entries(r, "SUCCESS") \cup Entries(r, "FAILED")
    BY <2>2 DEF Reported, Entries
  <2>5. HasFailed(r) <=> Entries(r, "FAILED") # {}
    BY DEF HasFailed, Entries
  <2>6. /\ status[r] \in {"SUCCESS", "PARTIAL_SUCCESS"} => Len(statusList[r]) = Len(request[r].items)
        /\ status[r] = "SUCCESS" => ~HasFailed(r)
        /\ status[r] = "PARTIAL_SUCCESS" => HasFailed(r)
        /\ status[r] \in {"FAILED", "UNKNOWN"} /\ ~isV1(r) /\ request[r].items # <<>> =>
             Len(statusList[r]) < Len(request[r].items)
    BY DEF Books
  <2>7. ~HasFailed(r) => \A i \in DOMAIN statusList[r] : statusList[r][i].outcome = "SUCCESS"
    BY <2>2 DEF HasFailed
  <2>8. HasFailed(r) => \E i \in DOMAIN statusList[r] :
          statusList[r][i].outcome = "FAILED" /\ statusList[r][i].status = "FAILED"
    BY <2>2 DEF HasFailed
  <2>. QED BY <2>2, <2>3, <2>4, <2>5, <2>6, <2>7, <2>8
<1>2. TypeInv /\ (\A r \in Restores : Books(r)) /\ [Next]_vars => (\A r \in Restores : Books(r))'
  BY StepKeepsBooks
<1>. QED BY <1>1, <1>2, InitBooks, InitTypes, StepKeepsTypes, PTL DEF Spec

(* The strengthening itself, which the runs check too: every item is counted    *)
(* once, a refused request has sent nothing, and the items left are items of    *)
(* the request.                                                               *)
THEOREM Inductive == Spec => []IInv
<1> DEFINE Rest == \A r \in Restores : Books(r) /\ StaysOut(r)
<1>1. Init => TypeInv /\ Rest
  BY InitTypes, InitBooks, InitRefusal
<1>2. TypeInv /\ Rest /\ [Next]_vars => TypeInv' /\ Rest'
  BY StepKeepsTypes, StepKeepsBooks, StepKeepsRefusal DEF TypeInv
<1>3. TypeInv /\ Rest => IInv
  BY DEF TypeInv, IInv
<1>. QED BY <1>1, <1>2, <1>3, PTL DEF Spec
=============================================================================
