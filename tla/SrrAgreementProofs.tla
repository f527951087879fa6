-------------------------- MODULE SrrAgreementProofs ------------------------
(***************************************************************************)
(* The second half of the invariant AInv: what a thread takes for restored,   *)
(* or for rolled back, is what the agents hold, and no request that is still  *)
(* in a mailbox will change that.  With it, what the status list tells of the  *)
(* features is true whatever failed, timed out or was carried out late.       *)
(***************************************************************************)
EXTENDS SrrLoopProofs

-----------------------------------------------------------------------------
(* A thread claims something new of a feature by no step of its own: only an   *)
(* agent's reply adds to what it may believe.                                 *)

ClaimsShrink(r) ==
  \A f : (Done(r, f)' => Done(r, f)) /\ (AsFound(r, f)' => AsFound(r, f))

LEMMA SameRequest ==
  ASSUME NEW r \in Restores, request' = request
  PROVE  /\ isV1(r)' = isV1(r) /\ Requested(r)' = Requested(r) /\ Scope(r)' = Scope(r)
         /\ \A it : Writable(r, it)' = Writable(r, it)
         /\ \A id : Known(r, id)' = Known(r, id)
<1>1. isV1(r)' = isV1(r) /\ Requested(r)' = Requested(r)
  BY DEF isV1, Requested
<1>2. \A id : Known(r, id)' = Known(r, id) /\ OwnFeatures(r, id)' = OwnFeatures(r, id)
  BY <1>1 DEF Known, OwnFeatures
<1>3. \A it : Writable(r, it)' = Writable(r, it)
  BY <1>2 DEF Writable
<1>. QED BY <1>1, <1>2, <1>3 DEF Scope

LEMMA SameScopes ==
  ASSUME request' = request
  PROVE  /\ \A r \in Restores : Contended(r)' = Contended(r) /\ Scope(r)' = Scope(r)
         /\ \A f : Writers(f)' = Writers(f)
<1>1. \A r \in Restores : Scope(r)' = Scope(r)
  BY SameRequest
<1>. QED BY <1>1 DEF Contended, Writers

(* The item at work is the current one.                                       *)
LEMMA AtWorkIsCurrent ==
  ASSUME RestoreTypeOK, NEW r \in Restores, ItemsFromRequest(r),
         NEW it \in Requested(r), AtWork(r, it.id)
  PROVE  it = Current(r) /\ items[r] # <<>>
<1>1. items[r] # <<>> /\ Current(r).id = it.id
  BY DEF AtWork, Begun
<1>. QED BY <1>1, CurrentIsRequested, RequestedOnce

(* The steps that stay with the item, or leave the loops for good.             *)
Onward(r) ==
  /\ items'[r] = items[r] /\ statusList'[r] = statusList[r]
  /\ unbacked[r] \subseteq unbacked'[r] /\ unrecoverable[r] \subseteq unrecoverable'[r]
  /\ (Begun(r)' <=> Begun(r))
  /\ pc'[r] = "backup" => pc[r] = "backup"
  /\ pc'[r] = "restore" => \A f \in Current(r).features :
       Through(r, f)' => pc[r] = "restore" /\ Through(r, f)
  /\ pc'[r] = "undoRestore" => \A f \in BackedUp(r)' \ unrecoverable'[r] :
       Through(r, f)' =>
         pc[r] = "undoRestore" /\ f \in BackedUp(r) \ unrecoverable[r] /\ Through(r, f)

LEMMA OnwardShrinks ==
  ASSUME RestoreTypeOK, NEW r \in Restores, ItemsFromRequest(r), request' = request, Onward(r)
  PROVE  ClaimsShrink(r)
<1>1. /\ Requested(r)' = Requested(r) /\ Current(r)' = Current(r)
      /\ \A it : Writable(r, it)' = Writable(r, it) /\ (Reported(r, it)' <=> Reported(r, it))
      /\ \A st : Entries(r, st)' = Entries(r, st)
  BY SameRequest DEF Onward, Current, Reported, Entries
<1>2. \A id : AtWork(r, id)' <=> AtWork(r, id)
  BY <1>1 DEF AtWork, Onward
<1>3. ASSUME NEW f, Done(r, f)' PROVE Done(r, f)
  <2>1. PICK it \in Requested(r) :
          /\ f \in it.features \cap Writable(r, it)
          /\ \/ it.id \in Entries(r, "SUCCESS")
             \/ AtWork(r, it.id) /\ pc'[r] = "restore" /\ Through(r, f)'
    BY <1>1, <1>2, <1>3 DEF Done
  <2>2. AtWork(r, it.id) => f \in Current(r).features
    BY <2>1, AtWorkIsCurrent
  <2>. QED BY <2>1, <2>2 DEF Done, Onward
<1>4. ASSUME NEW f, AsFound(r, f)' PROVE AsFound(r, f)
  <2>1. PICK it \in Requested(r) :
          /\ f \in Writable(r, it)
          /\ \/ ~Reported(r, it) /\ ~AtWork(r, it.id)
             \/ AtWork(r, it.id) /\ pc'[r] = "backup"
             \/ /\ it.id \in Entries(r, "FAILED") /\ ~AtWork(r, it.id)
                /\ f \notin unbacked'[r] \cup unrecoverable'[r]
             \/ /\ AtWork(r, it.id) /\ pc'[r] = "undoRestore"
                /\ f \in BackedUp(r)' \ unrecoverable'[r] /\ Through(r, f)'
    BY <1>1, <1>2, <1>4 DEF AsFound
  <2>. QED BY <2>1 DEF AsFound, Onward
<1>. QED BY <1>3, <1>4 DEF ClaimsShrink

LEMMA BegunKept ==
  ASSUME NEW r \in Restores, items'[r] = items[r], request' = request,
         \/ items[r] = <<>>
         \/ pc[r] \in CallPhase /\ pc'[r] \in CallPhase
         \/ pc[r] \in {"reply", "answered"} /\ pc'[r] \in {"reply", "answered"}
         \/ /\ pc[r] \in CallPhase /\ pc'[r] = "reply" /\ Known(r, Current(r).id)
            /\ isV1(r) \/ MissingRequired(r) = {}
         \/ /\ pc[r] = "next" /\ pc'[r] = "reply"
            /\ ~isV1(r) /\ MissingRequired(r) # {}
  PROVE  Begun(r)' <=> Begun(r)
<1>1. /\ isV1(r)' = isV1(r) /\ Current(r)' = Current(r) /\ Known(r, Current(r).id)' = Known(r, Current(r).id)
      /\ MissingRequired(r)' = MissingRequired(r)
  BY DEF isV1, Current, Known, MissingRequired, Owned, OwnFeatures
<1>. QED BY <1>1 DEF Begun, CallPhase
LEMMA NoReplyOfItsOwn ==
  ASSUME TypeOK, NEW r \in Restores, WorkerStep(r), CallOfLoop(r), ItemsFromRequest(r)
  PROVE  answer'[r].kind # "ok" /\ \A f : Through(r, f)' <=> f \notin todo'[r]
<1>a. AgentsTypeOK /\ RestoreTypeOK /\ r \in Thread
  BY PayloadAssumption DEF TypeOK
<1>1. CASE SendQuery(r)
  <2>1. PICK f \in todo[r] : Call(r, OpOf(r), f, QueryData(r, f))
    BY <1>1, <1>a, QueryOfLoop
  <2>. QED BY <1>a, <2>1 DEF Call, AgentsTypeOK, Through
<1>2. CASE GiveUp(r)
  BY <1>2, <1>a DEF GiveUp, TimeOut, AgentsTypeOK, Answer, Through
<1>3. CASE Idle(r)'
  BY <1>3 DEF Idle, Through
<1>. QED BY <1>1, <1>2, <1>3, IdleAfterStep

LEMMA OnwardSteps ==
  ASSUME TypeOK, NEW r \in Restores, ItemsFromRequest(r), CallOfLoop(r), LoopBounds(r),
         ItemsOnce(r), WorkerStep(r), ~Settles(r), ~BeginItem(r)
  PROVE  Onward(r)
<1>a. RestoreTypeOK /\ request' = request
  BY RequestKept DEF TypeOK
<1>b. items'[r] = items[r] /\ statusList'[r] = statusList[r]
  BY <1>a, OtherStepsSettleNothing
<1>c. \A f : Through(r, f)' <=> f \notin todo'[r]
  BY NoReplyOfItsOwn
<1>d. \A phase, S : Goto(r, phase, S) => pc'[r] = phase /\ todo'[r] = S
  BY DEF Goto, RestoreTypeOK, TypeOK
<1>e. pc[r] \in CallPhase =>
        items[r] # <<>> /\ Known(r, Current(r).id) /\ (isV1(r) \/ MissingRequired(r) = {})
  BY DEF ItemsFromRequest, LoopBounds
<1>1. CASE SendQuery(r) \/ GiveUp(r)
  <2>1. Bystander(r)
    BY <1>1 DEF SendQuery, GiveUp, workerVars, Bystander
  <2>2. pc'[r] = pc[r] /\ todo'[r] = todo[r] /\ BackedUp(r)' = BackedUp(r) /\ pc[r] \in CallPhase
        /\ unbacked'[r] = unbacked[r] /\ unrecoverable'[r] = unrecoverable[r]
    <3>1. ~Idle(r) => pc[r] \in CallPhase
      BY DEF CallOfLoop
    <3>2. pc[r] \in CallPhase
      BY <1>1, <3>1 DEF SendQuery, GiveUp, TimeOut, Idle
    <3>. QED BY <2>1, <3>2, SameLoop DEF Bystander
  <2>3. Begun(r)' <=> Begun(r)
    BY <1>a, <1>b, <2>2, BegunKept
  <2>. QED BY <1>b, <1>c, <2>2, <2>3 DEF Onward, Through
<1>2. CASE \/ LicenseGranted(r) \/ LicenseRefused(r) \/ Reject(r) \/ IntegrityCheckFailed(r)
           \/ AllItemsDone(r)
  <2>1. items[r] = <<>>
    BY <1>2 DEF LicenseGranted, LicenseRefused, Reject, IntegrityCheckFailed, AllItemsDone, ItemsOnce
  <2>2. Begun(r)' <=> Begun(r)
    BY <1>a, <1>b, <2>1, BegunKept
  <2>3. pc'[r] \in {"decode", "reply"} /\ unbacked' = unbacked /\ unrecoverable' = unrecoverable
    BY <1>2, <1>d
    DEF LicenseGranted, LicenseRefused, Reject, IntegrityCheckFailed, AllItemsDone, Abort
  <2>. QED BY <1>b, <2>2, <2>3 DEF Onward
<1>3. CASE MissingFeature(r) \/ UnexpectedReply(r) \/ Reply(r)
  <2>1. /\ pc'[r] \in {"reply", "answered"} /\ unbacked' = unbacked /\ unrecoverable' = unrecoverable
    BY <1>3, <1>d DEF MissingFeature, UnexpectedReply, Reply, Abort
  <2>2. \/ pc[r] = "next" /\ pc'[r] = "reply" /\ ~isV1(r) /\ MissingRequired(r) # {}
        \/ pc[r] \in CallPhase /\ pc'[r] = "reply"
        \/ pc[r] = "reply" /\ pc'[r] = "answered"
    BY <1>3, <1>d DEF MissingFeature, UnexpectedReply, Reply, Abort, CallPhase
  <2>3. Begun(r)' <=> Begun(r)
    BY <1>a, <1>b, <1>e, <2>2, BegunKept
  <2>. QED BY <1>b, <2>1, <2>3 DEF Onward
<1>4. ASSUME pc[r] \in CallPhase, pc'[r] \in CallPhase PROVE Begun(r)' <=> Begun(r)
  BY <1>a, <1>b, <1>4, BegunKept
<1>5. CASE BackupOk(r) \/ ResetAnswered(r)
  <2>1. /\ pc'[r] = pc[r] /\ pc[r] \in {"backup", "reset", "undoReset"}
        /\ unbacked' = unbacked /\ unrecoverable' = unrecoverable
    BY <1>5 DEF BackupOk, ResetAnswered, Advance
  <2>2. Begun(r)' <=> Begun(r)
    BY <1>4, <2>1 DEF CallPhase
  <2>. QED BY <1>b, <2>1, <2>2 DEF Onward
<1>6. CASE BackupFailedGoOn(r) \/ BackupDone(r) \/ (RestoreFailed(r) /\ ~isV1(r))
  <2>1. /\ pc'[r] \in {"reset", "undoReset"} /\ pc[r] \in {"backup", "restore"}
        /\ unbacked[r] \subseteq unbacked'[r] /\ unrecoverable' = unrecoverable
    BY <1>6, <1>a, <1>d DEF BackupFailedGoOn, BackupDone, RestoreFailed, RestoreTypeOK
  <2>2. Begun(r)' <=> Begun(r)
    BY <1>4, <2>1 DEF CallPhase
  <2>. QED BY <1>b, <2>1, <2>2 DEF Onward
<1>7. CASE ResetDone(r)
  <2>1. /\ pc'[r] = "restore" /\ pc[r] = "reset" /\ todo'[r] = Current(r).features
        /\ unbacked' = unbacked /\ unrecoverable' = unrecoverable
    BY <1>7, <1>d DEF ResetDone
  <2>2. Begun(r)' <=> Begun(r)
    BY <1>4, <2>1 DEF CallPhase
  <2>. QED BY <1>b, <1>c, <2>1, <2>2 DEF Onward
<1>8. CASE UndoResetDone(r)
  <2>1. /\ pc'[r] = "undoRestore" /\ pc[r] = "undoReset" /\ todo'[r] = BackedUp(r)
        /\ unbacked' = unbacked /\ unrecoverable' = unrecoverable /\ BackedUp(r)' = BackedUp(r)
    BY <1>8, <1>d DEF UndoResetDone, BackedUp
  <2>2. Begun(r)' <=> Begun(r)
    BY <1>4, <2>1 DEF CallPhase
  <2>. QED BY <1>b, <1>c, <2>1, <2>2 DEF Onward
<1>9. CASE RestoreOk(r)
  <2>1. /\ pc'[r] = "restore" /\ pc[r] = "restore" /\ todo'[r] = todo[r] \ {answer[r].feature}
        /\ unbacked' = unbacked /\ unrecoverable' = unrecoverable
    BY <1>9, <1>a DEF RestoreOk, Advance, RestoreTypeOK
  <2>2. answer[r].kind = "ok"
    BY <1>9 DEF RestoreOk, RestoreSucceeded, Succeeded, CallOfLoop
  <2>3. Begun(r)' <=> Begun(r)
    BY <1>4, <2>1 DEF CallPhase
  <2>. QED BY <1>b, <1>c, <2>1, <2>2, <2>3 DEF Onward, Through
<1>10. CASE UndoRestoreAnswered(r)
  <2>1. /\ pc'[r] = "undoRestore" /\ pc[r] = "undoRestore"
        /\ todo'[r] = todo[r] \ {answer[r].feature}
        /\ unbacked' = unbacked /\ BackedUp(r)' = BackedUp(r)
        /\ unrecoverable'[r] = IF Failed(r) THEN unrecoverable[r] \cup {answer[r].feature}
                               ELSE unrecoverable[r]
    BY <1>10, <1>a DEF UndoRestoreAnswered, Advance, RestoreTypeOK, BackedUp
  <2>2. answer[r].kind = "ok" \/ Failed(r)
    BY <1>10 DEF UndoRestoreAnswered, Succeeded, CallOfLoop
  <2>3. Begun(r)' <=> Begun(r)
    BY <1>4, <2>1 DEF CallPhase
  <2>. QED BY <1>b, <1>c, <2>1, <2>2, <2>3 DEF Onward, Through
<1>. QED
  BY <1>1, <1>2, <1>3, <1>5, <1>6, <1>7, <1>8, <1>9, <1>10 DEF WorkerStep, Settles
LEMMA AcceptShrinks ==
  ASSUME RestoreTypeOK, NEW r \in Restores, ItemsOnce(r), Accept(r)
  PROVE  ClaimsShrink(r)
<1>1. pc[r] = "decode" /\ pc'[r] = "next" /\ items[r] = <<>> /\ request' = request
      /\ statusList' = statusList /\ unbacked' = unbacked /\ unrecoverable' = unrecoverable
  BY DEF Accept, Goto, RestoreTypeOK, ItemsOnce
<1>2. \A id : ~AtWork(r, id) /\ ~AtWork(r, id)'
  BY <1>1 DEF AtWork, Begun, CallPhase
<1>3. /\ Requested(r)' = Requested(r)
      /\ \A it : Writable(r, it)' = Writable(r, it) /\ (Reported(r, it)' <=> Reported(r, it))
      /\ \A st : Entries(r, st)' = Entries(r, st)
  BY <1>1, SameRequest DEF Reported, Entries
<1>4. \A f : Done(r, f)' => Done(r, f)
  BY <1>2, <1>3 DEF Done
<1>5. \A f : AsFound(r, f)' => AsFound(r, f)
  BY <1>1, <1>2, <1>3 DEF AsFound
<1>. QED BY <1>4, <1>5 DEF ClaimsShrink

LEMMA BeginItemShrinks ==
  ASSUME RestoreTypeOK, NEW r \in Restores, ItemsOnce(r), BeginItem(r)
  PROVE  ClaimsShrink(r)
<1>1. /\ pc[r] = "next" /\ pc'[r] = "backup" /\ items[r] # <<>> /\ request' = request
      /\ items' = items
      /\ statusList' = statusList /\ unbacked' = unbacked /\ unrecoverable' = unrecoverable
  BY DEF BeginItem, Goto, RestoreTypeOK
<1>2. \A id : ~AtWork(r, id) /\ (AtWork(r, id)' => id = Current(r).id)
  BY <1>1 DEF AtWork, Begun, CallPhase, Current
<1>3. /\ Requested(r)' = Requested(r)
      /\ \A it : Writable(r, it)' = Writable(r, it) /\ (Reported(r, it)' <=> Reported(r, it))
      /\ \A st : Entries(r, st)' = Entries(r, st)
  BY <1>1, SameRequest DEF Reported, Entries
<1>4. \A it : it.id = Current(r).id => ~Reported(r, it)
  <2>1. items[r][1] = Current(r) /\ 1 \in DOMAIN items[r]
    <3>1. items[r] \in Seq(Item) /\ items[r] # <<>>
      BY <1>1 DEF RestoreTypeOK
    <3>. QED BY <3>1 DEF Current
  <2>2. Current(r).id \notin Entries(r, "SUCCESS") \cup Entries(r, "FAILED")
    BY <1>1, <2>1 DEF ItemsOnce
  <2>. QED BY <2>2, ReportedHow
<1>5. \A f : Done(r, f)' => Done(r, f)
  BY <1>1, <1>3 DEF Done
<1>6. \A f : AsFound(r, f)' => AsFound(r, f)
  BY <1>1, <1>2, <1>3, <1>4 DEF AsFound
<1>. QED BY <1>5, <1>6 DEF ClaimsShrink

LEMMA FailingV1Shrinks ==
  ASSUME TypeOK, NEW r \in Restores, ItemsFromRequest(r), RestoreFailed(r), isV1(r),
         WorkerStep(r)
  PROVE  ClaimsShrink(r)
<1>a. RestoreTypeOK /\ request' = request
  BY RequestKept DEF TypeOK
<1>1. /\ pc[r] = "restore" /\ pc'[r] = "undoReset" /\ items' = items /\ items[r] # <<>>
      /\ PushStatus(r, "FAILED") /\ unbacked' = unbacked /\ unrecoverable' = unrecoverable
  BY <1>a DEF RestoreFailed, Goto, RestoreTypeOK, ItemsFromRequest, CallPhase
<1>2. \A id : AtWork(r, id) /\ AtWork(r, id)' <=> id = Current(r).id
  BY <1>1 DEF AtWork, Begun, CallPhase, Current
<1>3. /\ Requested(r)' = Requested(r)
      /\ \A it : Writable(r, it)' = Writable(r, it)
      /\ \A id : AtWork(r, id)' <=> AtWork(r, id)
  BY <1>a, <1>1, SameRequest DEF AtWork, Begun, CallPhase, Current
<1>4. /\ Entries(r, "FAILED")' = Entries(r, "FAILED") \cup {Current(r).id}
      /\ Entries(r, "SUCCESS")' = Entries(r, "SUCCESS")
      /\ \A it : Reported(r, it)' <=> Reported(r, it) \/ it.id = Current(r).id
  <2>1. Current(r).id \in ItemId /\ {"SUCCESS", "FAILED"} \subseteq ItemOutcome
    BY <1>a, <1>1, CurrentIsRequested DEF Item, ItemOutcome
  <2>. QED BY <1>a, <1>1, <2>1, EntriesAfterPush
<1>5. \A f : Done(r, f)' => Done(r, f)
  BY <1>1, <1>3, <1>4 DEF Done
<1>6. \A f : AsFound(r, f)' => AsFound(r, f)
  BY <1>1, <1>2, <1>3, <1>4 DEF AsFound
<1>. QED BY <1>5, <1>6 DEF ClaimsShrink

(* The item left behind is claimed for what the loop it ends with has done.     *)
LEMMA FinishShrinks ==
  ASSUME TypeOK, NEW r \in Restores, ItemsFromRequest(r), Books(r), LoopBounds(r), ItemsOnce(r),
         WorkerStep(r),
         SkipUnknownGroup(r) \/ BackupFailedSkip(r) \/ RestoreDone(r) \/ UndoDone(r)
  PROVE  ClaimsShrink(r)
<1>a. RestoreTypeOK /\ request' = request /\ ~Accept(r) /\ Settles(r)
  BY RequestKept DEF TypeOK, Accept, SkipUnknownGroup, BackupFailedSkip, RestoreDone, UndoDone, Settles
<1>b. /\ items[r] # <<>> /\ Current(r).id \in ItemId
      /\ SkipUnknownGroup(r) \/ BackupFailedSkip(r) => PushStatus(r, "FAILED") /\ FinishItem(r)
      /\ RestoreDone(r) => PushStatus(r, "SUCCESS") /\ FinishItem(r)
      /\ UndoDone(r) => /\ IF isV1(r) THEN statusList' = statusList ELSE PushStatus(r, "FAILED")
                        /\ FinishItem(r)
  BY <1>a, SettlingStep
<1>c. Current(r) \in Requested(r) /\ {"SUCCESS", "FAILED"} \subseteq ItemOutcome
  BY <1>a, <1>b, CurrentIsRequested DEF ItemOutcome
<1>1. pc'[r] = "next" /\ unbacked' = unbacked /\ unrecoverable' = unrecoverable
      /\ items[r][1] = Current(r) /\ 1 \in DOMAIN items[r]
  BY <1>a, <1>b, ItemsAfterFinish DEF SkipUnknownGroup, BackupFailedSkip, RestoreDone, UndoDone
<1>2. /\ Requested(r)' = Requested(r)
      /\ \A it : Writable(r, it)' = Writable(r, it)
      /\ \A id : ~AtWork(r, id)'
  BY <1>a, <1>1, SameRequest DEF AtWork, Begun, CallPhase
<1>3. \A it \in Requested(r) : it.id = Current(r).id => it = Current(r)
  BY <1>a, <1>c, RequestedOnce
<1>4. AtWork(r, Current(r).id) \/ SkipUnknownGroup(r)
  BY <1>b DEF AtWork, Begun, CallPhase, BackupFailedSkip, RestoreDone, UndoDone
<1>5. /\ \A it : Reported(r, it)' <=> Reported(r, it) \/ it.id = Current(r).id
      /\ \A id \in Entries(r, "SUCCESS")' \ Entries(r, "SUCCESS") :
           id = Current(r).id /\ RestoreDone(r)
      /\ \A id \in Entries(r, "FAILED")' \ Entries(r, "FAILED") :
           id = Current(r).id /\ ~RestoreDone(r)
  <2>1. CASE PushStatus(r, "SUCCESS") /\ RestoreDone(r)
    <3>1. /\ Entries(r, "SUCCESS")' = Entries(r, "SUCCESS") \cup {Current(r).id}
          /\ Entries(r, "FAILED")' = Entries(r, "FAILED")
          /\ \A it : Reported(r, it)' <=> Reported(r, it) \/ it.id = Current(r).id
      BY <1>a, <1>b, <1>c, <2>1, EntriesAfterPush
    <3>. QED BY <2>1, <3>1
  <2>2. CASE PushStatus(r, "FAILED") /\ ~RestoreDone(r)
    <3>1. /\ Entries(r, "FAILED")' = Entries(r, "FAILED") \cup {Current(r).id}
          /\ Entries(r, "SUCCESS")' = Entries(r, "SUCCESS")
          /\ \A it : Reported(r, it)' <=> Reported(r, it) \/ it.id = Current(r).id
      BY <1>a, <1>b, <1>c, <2>2, EntriesAfterPush
    <3>. QED BY <2>2, <3>1
  <2>3. CASE UndoDone(r) /\ isV1(r)
    <3>1. Reported(r, Current(r))
      BY <2>3 DEF UndoDone, Books, Undoing, Working, CallPhase
    <3>2. statusList' = statusList
      BY <1>b, <2>3
    <3>. QED BY <3>1, <3>2 DEF Reported, Entries
  <2>4. RestoreDone(r) => ~UndoDone(r) /\ ~SkipUnknownGroup(r) /\ ~BackupFailedSkip(r)
    BY DEF RestoreDone, UndoDone, SkipUnknownGroup, BackupFailedSkip
  <2>. QED BY <1>b, <2>1, <2>2, <2>3, <2>4
<1>6. ASSUME NEW f, Done(r, f)' PROVE Done(r, f)
  <2>1. PICK it \in Requested(r) : f \in it.features \cap Writable(r, it) /\ it.id \in Entries(r, "SUCCESS")'
    BY <1>1, <1>2, <1>6 DEF Done
  <2>2. CASE it.id \in Entries(r, "SUCCESS")
    BY <2>1, <2>2 DEF Done
  <2>3. CASE it.id \notin Entries(r, "SUCCESS")
    <3>1. it = Current(r) /\ RestoreDone(r)
      BY <1>3, <1>5, <2>1, <2>3
    <3>2. pc[r] = "restore" /\ todo[r] = {} /\ AtWork(r, it.id)
      BY <1>4, <3>1 DEF RestoreDone, SkipUnknownGroup
    <3>. QED BY <2>1, <3>2 DEF Done, Through
  <2>. QED BY <2>2, <2>3
<1>7. ASSUME NEW f, AsFound(r, f)' PROVE AsFound(r, f)
  <2>1. PICK it \in Requested(r) :
          /\ f \in Writable(r, it)
          /\ \/ ~Reported(r, it)'
             \/ it.id \in Entries(r, "FAILED")' /\ f \notin unbacked[r] \cup unrecoverable[r]
    BY <1>1, <1>2, <1>7 DEF AsFound
  <2>2. AtWork(r, it.id) => it.id = Current(r).id
    BY DEF AtWork
  <2>3. CASE it.id # Current(r).id
    BY <1>5, <2>1, <2>2, <2>3 DEF AsFound
  <2>4. CASE it.id = Current(r).id
    <3>1. it = Current(r)
      BY <1>3, <2>4
    <3>2. it.id \in Entries(r, "FAILED")' /\ f \notin unbacked[r] \cup unrecoverable[r]
      BY <1>5, <2>1, <2>4
    <3>3. CASE SkipUnknownGroup(r)
      BY <2>1, <3>1, <3>3 DEF SkipUnknownGroup, Writable
    <3>4. CASE BackupFailedSkip(r)
      <4>1. pc[r] = "backup" /\ AtWork(r, it.id)
        BY <1>4, <3>1, <3>4 DEF BackupFailedSkip, SkipUnknownGroup
      <4>. QED BY <2>1, <4>1 DEF AsFound
    <3>5. CASE RestoreDone(r)
      <4>1. it.id \in Entries(r, "FAILED") /\ pc[r] = "restore"
        BY <1>5, <3>2, <3>5 DEF RestoreDone
      <4>. QED BY <1>1, <3>1, <4>1 DEF ItemsOnce
    <3>6. CASE UndoDone(r)
      <4>1. pc[r] = "undoRestore" /\ todo[r] = {} /\ AtWork(r, it.id)
        BY <1>4, <3>1, <3>6 DEF UndoDone, SkipUnknownGroup
      <4>2. f \in Owned(r) \cap Feature
        BY <2>1, <3>1 DEF Writable, Owned
      <4>3. f \in BackedUp(r)
        BY <3>2, <4>1, <4>2 DEF LoopBounds, CallPhase
      <4>. QED BY <2>1, <3>2, <4>1, <4>3 DEF AsFound, Through
    <3>. QED BY <3>3, <3>4, <3>5, <3>6
  <2>. QED BY <2>3, <2>4
<1>. QED BY <1>6, <1>7 DEF ClaimsShrink

LEMMA WorkerStepShrinks ==
  ASSUME TypeOK, NEW r \in Restores, ItemsFromRequest(r), Books(r), CallOfLoop(r), LoopBounds(r),
         ItemsOnce(r), WorkerStep(r)
  PROVE  ClaimsShrink(r)
<1>a. RestoreTypeOK /\ request' = request
  BY RequestKept DEF TypeOK
<1>1. CASE ~Settles(r) /\ ~BeginItem(r)
  BY <1>a, <1>1, OnwardSteps, OnwardShrinks
<1>. QED
  BY <1>a, <1>1, AcceptShrinks, BeginItemShrinks, FailingV1Shrinks, FinishShrinks DEF Settles

(* The others claim what they did.                                            *)
LEMMA ClaimsStand ==
  ASSUME NEW q \in Restores, Bystander(q), request' = request, answer'[q] = answer[q]
  PROVE  \A f : (Done(q, f)' <=> Done(q, f)) /\ (AsFound(q, f)' <=> AsFound(q, f))
<1>1. /\ Requested(q)' = Requested(q) /\ BackedUp(q)' = BackedUp(q) /\ pc'[q] = pc[q]
      /\ unbacked'[q] = unbacked[q] /\ unrecoverable'[q] = unrecoverable[q]
      /\ \A it : Writable(q, it)' = Writable(q, it) /\ (Reported(q, it)' <=> Reported(q, it))
      /\ \A st : Entries(q, st)' = Entries(q, st)
      /\ \A f : Through(q, f)' <=> Through(q, f)
  BY SameRequest, SameLoop DEF Bystander, Reported, Entries, Through
<1>2. \A id : AtWork(q, id)' <=> AtWork(q, id)
  <2>1. /\ Current(q)' = Current(q) /\ MissingRequired(q)' = MissingRequired(q) /\ isV1(q)' = isV1(q)
        /\ \A id : Known(q, id)' = Known(q, id)
    BY SameRequest, SameLoop
  <2>. QED BY <1>1, <2>1 DEF Bystander, AtWork, Begun
<1>3. \A f : Done(q, f)' <=> Done(q, f)
  BY <1>1, <1>2 DEF Done
<1>4. \A f : AsFound(q, f)' <=> AsFound(q, f)
  BY <1>1, <1>2 DEF AsFound
<1>. QED BY <1>3, <1>4
-----------------------------------------------------------------------------
(* Nothing is late: what a thread claims is in nobody's mailbox on its behalf. *)

(* A feature belongs to one item of a request at most.                        *)
LEMMA OneItem ==
  ASSUME RestoreTypeOK, NEW r \in Restores, NEW it1 \in Requested(r), NEW it2 \in Requested(r),
         NEW f, f \in Writable(r, it1), f \in Writable(r, it2)
  PROVE  it1 = it2
<1>1. CASE isV1(r)
  BY <1>1, RequestedOnce DEF Writable, Known, OwnFeatures
<1>2. CASE ~isV1(r)
  <2>1. it1.id \in Group /\ it2.id \in Group /\ f \in FeaturesOf(it1.id) \cap FeaturesOf(it2.id)
    BY <1>2 DEF Writable, Known, OwnFeatures
  <2>2. it1.id = it2.id
    BY <2>1, TablesAssumption
  <2>. QED BY <2>2, RequestedOnce
<1>. QED BY <1>1, <1>2

(* The item of a loop: it is requested, at work, and without an entry unless it *)
(* is being rolled back.                                                      *)
LEMMA ItemOfLoop ==
  ASSUME RestoreTypeOK, NEW r \in Restores, ItemsFromRequest(r), ItemsOnce(r), pc[r] \in CallPhase
  PROVE  /\ Current(r) \in Requested(r) /\ Known(r, Current(r).id)
         /\ AtWork(r, Current(r).id)
         /\ Writable(r, Current(r)) = Owned(r) \cap Feature
         /\ Current(r).id \notin Entries(r, "SUCCESS")
<1>1. items[r] # <<>> /\ Known(r, Current(r).id)
  BY DEF ItemsFromRequest
<1>2. items[r][1] = Current(r) /\ 1 \in DOMAIN items[r]
  <2>1. items[r] \in Seq(Item) /\ items[r] # <<>>
    BY <1>1 DEF RestoreTypeOK
  <2>. QED BY <2>1 DEF Current
<1>3. Current(r) \in Requested(r)
  BY <1>1, CurrentIsRequested
<1>. QED BY <1>1, <1>2, <1>3 DEF AtWork, Begun, Writable, Owned, ItemsOnce

(* A thread claims nothing of a feature its loop has yet to change.           *)
LEMMA UnclaimedInLoop ==
  ASSUME RestoreTypeOK, NEW r \in Restores, ItemsFromRequest(r), ItemsOnce(r),
         pc[r] \in {"reset", "restore", "undoReset", "undoRestore"},
         NEW f, f \in Owned(r) \cap Feature, f \in todo[r], answer[r].kind # "ok"
  PROVE  f \in Scope(r) /\ ~Done(r, f) /\ ~AsFound(r, f)
<1>1. /\ Current(r) \in Requested(r) /\ AtWork(r, Current(r).id)
      /\ f \in Writable(r, Current(r)) /\ Current(r).id \notin Entries(r, "SUCCESS")
  BY ItemOfLoop DEF CallPhase
<1>2. \A it \in Requested(r) : f \in Writable(r, it) => it = Current(r)
  BY <1>1, OneItem
<1>3. ~Through(r, f)
  BY DEF Through
<1>4. ~Done(r, f)
  BY <1>1, <1>2, <1>3 DEF Done
<1>5. ~AsFound(r, f)
  BY <1>1, <1>2, <1>3 DEF AsFound
<1>. QED BY <1>1, <1>4, <1>5 DEF Scope

(* What the query of a loop changes, if anything, is within the item.          *)
LEMMA QueryInScope ==
  ASSUME RestoreTypeOK, NEW r \in Restores, LoopBounds(r), pc[r] \in CallPhase,
         NEW f \in todo[r], f \in Feature,
         OpOf(r) = "reset" \/ (OpOf(r) = "restore" /\ QueryData(r, f) # None)
  PROVE  f \in Owned(r) \cap Feature /\ pc[r] \in {"reset", "restore", "undoReset", "undoRestore"}
BY DEF OpOf, QueryData, LoopBounds, Undoing, CallPhase

LEMMA WorkerStepLeavesNothingLate ==
  ASSUME TypeOK, InOrder, \A q \in Restores : ItemsFromRequest(q) /\ Books(q),
         \A q \in Restores : CallOfLoop(q) /\ LoopBounds(q) /\ ItemsOnce(q),
         NothingLate, NEW r \in Restores, WorkerStep(r)
  PROVE  NothingLate'
<1>a. RestoreTypeOK /\ AgentsTypeOK /\ request' = request /\ r \in Thread /\ Restores \subseteq Thread
  BY RequestKept, PayloadAssumption DEF TypeOK
<1>b. \A q \in Restores : Scope(q)' = Scope(q)
  BY <1>a, SameScopes
<1>c. ASSUME NEW q \in Restores, NEW f \in Feature, Done(q, f)' \/ AsFound(q, f)'
      PROVE  ~InTheMail(q, f)
  <2>1. CASE q = r
    BY <1>c, <2>1, WorkerStepShrinks DEF ClaimsShrink, NothingLate
  <2>2. CASE q # r
    <3>1. Bystander(q) /\ answer'[q] = answer[q]
      BY <1>a, <2>2, OthersStandBy, MailOfWorkerStep
    <3>. QED BY <1>a, <1>c, <3>1, ClaimsStand DEF NothingLate
  <2>. QED BY <2>1, <2>2
(* What is new in a mailbox: nothing, or the query of a loop.                  *)
<1>1. ASSUME NEW a \in Agent, NEW i \in DOMAIN queue'[a]
      PROVE  \/ \E j \in DOMAIN queue[a] : SameLetter(queue[a][j], queue'[a][i])
             \/ /\ queue'[a][i].from = r
                /\ Changes(queue'[a][i]) => \A g : g = queue'[a][i].feature =>
                     g \in Scope(r) /\ ~Done(r, g)' /\ ~AsFound(r, g)'
  <2>1. CASE SendQuery(r)
    <3>1. PICK f \in todo[r] :
            /\ f \in Name /\ OpOf(r) \in Op
            /\ f \in Feature => QueryData(r, f) \in Data
            /\ Call(r, OpOf(r), f, QueryData(r, f))
      BY <1>a, <2>1, QueryOfLoop
    <3>2. CASE f \in Feature
      <4>1. CallDoes(r, OpOf(r), f, QueryData(r, f))
        BY <1>a, <3>1, <3>2, CallEffect
      <4>2. CASE i \in DOMAIN queue[a] /\ queue'[a][i] = queue[a][i]
        BY <4>2 DEF SameLetter
      <4>3. CASE queue'[a][i] = Sent(r, OpOf(r), f, QueryData(r, f))
        <5>1. /\ queue'[a][i].from = r /\ queue'[a][i].feature = f
              /\ queue'[a][i].op = OpOf(r) /\ queue'[a][i].data = QueryData(r, f)
          BY <4>3 DEF Sent
        <5>2. pc[r] \in CallPhase /\ Idle(r)
          BY <2>1 DEF SendQuery
        <5>3. ASSUME Changes(queue'[a][i]) PROVE f \in Scope(r) /\ ~Done(r, f)' /\ ~AsFound(r, f)'
          <6>1. OpOf(r) = "reset" \/ (OpOf(r) = "restore" /\ QueryData(r, f) # None)
            BY <5>1, <5>3 DEF Changes
          <6>2. f \in Owned(r) \cap Feature /\ pc[r] \in {"reset", "restore", "undoReset", "undoRestore"}
            BY <1>a, <3>2, <5>2, <6>1, QueryInScope
          <6>3. f \in Scope(r) /\ ~Done(r, f) /\ ~AsFound(r, f)
            BY <1>a, <5>2, <6>2, UnclaimedInLoop DEF Idle
          <6>. QED BY <6>3, WorkerStepShrinks DEF ClaimsShrink
        <5>. QED BY <5>1, <5>3
      <4>. QED BY <4>1, <4>2, <4>3 DEF CallDoes
    <3>3. CASE f \notin Feature
      BY <3>1, <3>3 DEF Call, SameLetter
    <3>. QED BY <3>2, <3>3
  <2>2. CASE ~SendQuery(r)
    <3>1. \A q \in Thread : NoNewMail(q)
      BY <2>2, MailOfWorkerStep
    <3>2. queue'[a][i].from \in Thread
      <4>1. AgentsTypeOK'
        BY WorkerStepKeepsAgentTypes
      <4>2. queue' \in [Agent -> Seq(Message)]
        BY <4>1 DEF AgentsTypeOK
      <4>3. queue'[a][i] \in Message
        BY <4>2, ElementOfSeq, LenProperties
      <4>. QED BY <4>3 DEF Message
    <3>. QED BY <3>1, <3>2 DEF NoNewMail
  <2>. QED BY <2>1, <2>2
<1>2. ASSUME NEW a \in Agent, NEW i \in DOMAIN queue'[a]
      PROVE  Changes(queue'[a][i]) =>
               queue'[a][i].from \in Restores /\ queue'[a][i].feature \in Scope(queue'[a][i].from)
  BY <1>1 DEF NothingLate, SameLetter, Changes
<1>3. ASSUME NEW q \in Restores, NEW f \in Feature, Done(q, f)' \/ AsFound(q, f)'
      PROVE  ~InTheMail(q, f)'
  <2>1. ~InTheMail(q, f)
    BY <1>3, <1>c
  <2>2. ASSUME NEW a \in Agent, NEW i \in DOMAIN queue'[a],
               queue'[a][i].from = q, queue'[a][i].feature = f, Changes(queue'[a][i])
        PROVE  FALSE
    <3>1. CASE \E j \in DOMAIN queue[a] : SameLetter(queue[a][j], queue'[a][i])
      BY <2>1, <2>2, <3>1 DEF InTheMail, SameLetter, Changes
    <3>2. CASE queue'[a][i].from = r /\ ~Done(r, f)' /\ ~AsFound(r, f)'
      BY <1>3, <2>2, <3>2
    <3>. QED BY <1>1, <2>2, <3>1, <3>2
  <2>. QED BY <2>2 DEF InTheMail, Changes
<1>. QED BY <1>b, <1>2, <1>3 DEF NothingLate, Changes
-----------------------------------------------------------------------------
(* No step of a thread breaks the agreement with the agents.                  *)

LEMMA BackupChanges ==
  ASSUME TypeOK, NEW r \in Restores, WorkerStep(r), CallOfLoop(r)
  PROVE  \/ pc'[r] \notin CallPhase
         \/ BeginItem(r) \/ BackupOk(r)
         \/ backup' = backup /\ pc[r] \in CallPhase
<1>a. RestoreTypeOK
  BY DEF TypeOK
<1>1. CASE \/ LicenseGranted(r) \/ LicenseRefused(r) \/ Reject(r) \/ IntegrityCheckFailed(r)
           \/ Accept(r) \/ SkipUnknownGroup(r) \/ MissingFeature(r) \/ AllItemsDone(r) \/ Reply(r)
           \/ BackupFailedSkip(r) \/ UnexpectedReply(r) \/ RestoreDone(r) \/ UndoDone(r)
  <2>1. pc'[r] \in {"decode", "next", "reply", "answered"}
    BY <1>a, <1>1, LeavesLoop
  <2>. QED BY <2>1 DEF CallPhase
<1>2. CASE SendQuery(r) \/ GiveUp(r)
  BY <1>2 DEF SendQuery, GiveUp, TimeOut, workerVars, CallOfLoop, Idle
<1>3. CASE \/ BackupFailedGoOn(r) \/ BackupDone(r) \/ ResetAnswered(r) \/ ResetDone(r)
           \/ RestoreOk(r) \/ RestoreFailed(r) \/ UndoResetDone(r) \/ UndoRestoreAnswered(r)
  BY <1>3
  DEF BackupFailedGoOn, BackupDone, ResetAnswered, ResetDone, RestoreOk, RestoreFailed,
      UndoResetDone, UndoRestoreAnswered, CallPhase
<1>. QED BY <1>1, <1>2, <1>3 DEF WorkerStep

LEMMA WorkerStepKeepsSaved ==
  ASSUME TypeOK, NEW r \in Restores, ItemsFromRequest(r), CallOfLoop(r), KeptAsFound(r),
         WorkerStep(r), pc'[r] \in CallPhase, NEW f \in BackedUp(r)' \ Contended(r)
  PROVE  backup'[r][f] = Initial
<1>a. RestoreTypeOK
  BY DEF TypeOK
<1>b. f \in Feature /\ backup'[r][f] # None
  BY DEF BackedUp
<1>1. CASE BeginItem(r)
  <2>1. backup'[r] = [g \in Feature |-> None]
    BY <1>1, <1>a DEF BeginItem, RestoreTypeOK
  <2>. QED BY <1>b, <2>1
<1>2. CASE BackupOk(r)
  <2>1. /\ pc[r] = "backup" /\ answer[r].kind = "ok"
        /\ backup' = [backup EXCEPT ![r][answer[r].feature] = answer[r].data]
    BY <1>2 DEF BackupOk, Succeeded, CallOfLoop
  <2>2. backup[r] \in [Feature -> Data] /\ backup \in [Restores -> [Feature -> Data]]
    BY <1>a DEF RestoreTypeOK
  <2>3. backup'[r][f] = IF f = answer[r].feature THEN answer[r].data ELSE backup[r][f]
    BY <1>b, <2>1, <2>2
  <2>. QED BY <1>b, <2>1, <2>3 DEF KeptAsFound, CallPhase, BackedUp
<1>3. CASE backup' = backup /\ pc[r] \in CallPhase
  BY <1>b, <1>3 DEF KeptAsFound, BackedUp
<1>. QED BY <1>1, <1>2, <1>3, BackupChanges

LEMMA KeptStands ==
  ASSUME NEW q \in Restores, KeptAsFound(q), Bystander(q), request' = request,
         answer'[q] = answer[q], store' = store
  PROVE  KeptAsFound(q)'
<1>1. /\ Scope(q)' = Scope(q) /\ Contended(q)' = Contended(q) /\ BackedUp(q)' = BackedUp(q)
      /\ \A f : AsFound(q, f)' <=> AsFound(q, f)
  BY SameScopes, SameLoop, ClaimsStand
<1>. QED BY <1>1 DEF KeptAsFound, Bystander

LEMMA WorkerStepKeepsAgreement ==
  ASSUME TypeOK, InOrder, \A q \in Restores : ItemsFromRequest(q) /\ Books(q),
         \A q \in Restores : CallOfLoop(q) /\ LoopBounds(q) /\ ItemsOnce(q),
         SInv, NEW r \in Restores, WorkerStep(r)
  PROVE  SInv'
<1>a. RestoreTypeOK /\ request' = request /\ store' = store
  BY RequestKept, MailOfWorkerStep, PayloadAssumption DEF TypeOK
<1>b. /\ \A q \in Restores : Scope(q)' = Scope(q) /\ Contended(q)' = Contended(q)
      /\ \A f : Writers(f)' = Writers(f)
  BY <1>a, SameScopes
<1>c. ASSUME NEW q \in Restores PROVE ClaimsShrink(q)
  <2>1. CASE q = r
    BY <2>1, WorkerStepShrinks
  <2>2. CASE q # r
    <3>1. Bystander(q) /\ answer'[q] = answer[q]
      BY <1>a, <2>2, OthersStandBy, MailOfWorkerStep, PayloadAssumption
    <3>. QED BY <1>a, <3>1, ClaimsStand DEF ClaimsShrink
  <2>. QED BY <2>1, <2>2
<1>1. NothingLate'
  BY WorkerStepLeavesNothingLate DEF SInv
<1>2. Composed'
  <2> SUFFICES ASSUME NEW f \in Feature, Writers(f) # {}, \A q \in Writers(f) : Done(q, f)'
               PROVE  store[f] \in Writers(f)
    BY <1>a, <1>b DEF Composed
  <2>1. \A q \in Writers(f) : Done(q, f)
    BY <1>c DEF ClaimsShrink, Writers
  <2>. QED BY <2>1 DEF SInv, Composed
<1>3. ASSUME NEW q \in Restores PROVE KeptAsFound(q)'
  <2>1. CASE q = r
    <3>1. \A f \in Scope(r) \ Contended(r) : AsFound(r, f)' => store[f] = Initial
      BY <1>c DEF ClaimsShrink, SInv, KeptAsFound
    <3>2. pc'[r] \in CallPhase => \A f \in BackedUp(r)' \ Contended(r) : backup'[r][f] = Initial
      BY WorkerStepKeepsSaved DEF SInv
    <3>3. answer'[r].kind # "ok"
      BY NoReplyOfItsOwn
    <3>. QED BY <1>a, <1>b, <2>1, <3>1, <3>2, <3>3 DEF KeptAsFound
  <2>2. CASE q # r
    <3>1. Bystander(q) /\ answer'[q] = answer[q]
      BY <1>a, <2>2, OthersStandBy, MailOfWorkerStep, PayloadAssumption
    <3>. QED BY <1>a, <3>1, KeptStands DEF SInv
  <2>. QED BY <2>1, <2>2
<1>4. \A f \in Feature : Writers(f)' = {} => store'[f] = Initial
  BY <1>a, <1>b DEF SInv
<1>. QED BY <1>1, <1>2, <1>3, <1>4 DEF SInv
-----------------------------------------------------------------------------
(* An agent's reply: what it adds to the claims is what it has just done.       *)

(* The first message of mailbox a restores feature g for thread q, which waits  *)
(* for it, with configuration d.                                              *)
Restoring(a, q, g, d) ==
  /\ queue[a][1].awaited /\ queue[a][1].from = q /\ queue[a][1].feature = g
  /\ queue[a][1].op = "restore" /\ queue[a][1].data = d

LEMMA ServedThrough ==
  ASSUME TypeOK, InOrder, NEW a \in Agent, NEW kind, Serve(a, kind), UNCHANGED workerVars,
         NEW q \in Restores, CallOfLoop(q), NEW g, Through(q, g)', ~Through(q, g)
  PROVE  /\ kind = "ok"
         /\ OpOf(q) = "restore" => Restoring(a, q, g, QueryData(q, g))
<1>a. AgentsTypeOK /\ q \in Thread /\ todo' = todo
  BY PayloadAssumption DEF TypeOK, workerVars
<1>b. ServeDoes(a, kind)
  BY <1>a, ServeEffect
<1> DEFINE m == queue[a][1]
<1>1. q = m.from /\ m.awaited
  <2>1. answer'[q] # answer[q]
    BY <1>a DEF Through
  <2>. QED BY <1>a, <1>b, <2>1 DEF ServeDoes
<1>2. answer'[q].kind = kind /\ answer'[q].feature = answer[q].feature /\ 1 \in DOMAIN queue[a]
  BY <1>1, <1>b DEF ServeDoes
<1>3. answer[q].feature = m.feature
  BY <1>1, <1>2 DEF InOrder, MailboxesInOrder
<1>4. kind = "ok" /\ g = m.feature
  BY <1>a, <1>2, <1>3 DEF Through
<1>5. m.op = OpOf(q) /\ m.data = QueryData(q, m.feature)
  BY <1>1, <1>2 DEF CallOfLoop
<1>. QED BY <1>1, <1>4, <1>5 DEF Restoring

LEMMA ServedClaims ==
  ASSUME TypeOK, InOrder, NEW a \in Agent, NEW kind, Serve(a, kind), UNCHANGED workerVars,
         NEW q \in Restores, ItemsFromRequest(q), ItemsOnce(q), CallOfLoop(q), NEW g
  PROVE  /\ Done(q, g)' => Done(q, g) \/ (kind = "ok" /\ Restoring(a, q, g, q))
         /\ AsFound(q, g)' =>
              \/ AsFound(q, g)
              \/ /\ kind = "ok" /\ pc[q] = "undoRestore" /\ g \in BackedUp(q)
                 /\ Restoring(a, q, g, backup[q][g])
<1>a. RestoreTypeOK /\ request' = request /\ Bystander(q)
  BY DEF TypeOK, workerVars, Bystander
<1>1. /\ Requested(q)' = Requested(q) /\ BackedUp(q)' = BackedUp(q) /\ pc'[q] = pc[q]
      /\ unbacked'[q] = unbacked[q] /\ unrecoverable'[q] = unrecoverable[q]
      /\ \A it : Writable(q, it)' = Writable(q, it) /\ (Reported(q, it)' <=> Reported(q, it))
      /\ \A st : Entries(q, st)' = Entries(q, st)
  BY <1>a, SameRequest, SameLoop DEF Bystander, Reported, Entries
<1>2. \A id : AtWork(q, id)' <=> AtWork(q, id)
  <2>1. /\ Current(q)' = Current(q) /\ MissingRequired(q)' = MissingRequired(q) /\ isV1(q)' = isV1(q)
        /\ \A id : Known(q, id)' = Known(q, id)
    BY <1>a, SameRequest, SameLoop
  <2>. QED BY <1>a, <1>1, <2>1 DEF Bystander, AtWork, Begun
<1>3. ASSUME Done(q, g)', ~Done(q, g) PROVE kind = "ok" /\ Restoring(a, q, g, q)
  <2>1. PICK it \in Requested(q) :
          /\ g \in it.features \cap Writable(q, it)
          /\ AtWork(q, it.id) /\ pc[q] = "restore" /\ Through(q, g)' /\ ~Through(q, g)
    BY <1>1, <1>2, <1>3 DEF Done
  <2>2. g \in Owned(q)
    <3>1. it = Current(q)
      BY <1>a, <2>1, AtWorkIsCurrent
    <3>. QED BY <2>1, <3>1 DEF Writable, Owned
  <2>3. OpOf(q) = "restore" /\ QueryData(q, g) = q
    BY <2>1, <2>2 DEF OpOf, QueryData
  <2>. QED BY <2>1, <2>3, ServedThrough
<1>4. ASSUME AsFound(q, g)', ~AsFound(q, g)
      PROVE  /\ kind = "ok" /\ pc[q] = "undoRestore" /\ g \in BackedUp(q)
             /\ Restoring(a, q, g, backup[q][g])
  <2>1. pc[q] = "undoRestore" /\ g \in BackedUp(q) /\ Through(q, g)' /\ ~Through(q, g)
    BY <1>1, <1>2, <1>4 DEF AsFound
  <2>2. OpOf(q) = "restore" /\ QueryData(q, g) = backup[q][g]
    BY <2>1 DEF OpOf, QueryData
  <2>. QED BY <2>1, <2>2, ServedThrough
<1>. QED BY <1>3, <1>4

(* A reply that was waited for ends what the thread has in that mailbox.        *)
LEMMA ServedIsLast ==
  ASSUME TypeOK, InOrder, NEW a \in Agent, NEW kind, Serve(a, kind),
         NEW q \in Thread, NEW g, NEW d, Restoring(a, q, g, d)
  PROVE  ~InTheMail(q, g)'
<1>a. AgentsTypeOK /\ ServeDoes(a, kind)
  BY ServeEffect DEF TypeOK
<1>1. m_agent[g] = a /\ 1 \in DOMAIN queue[a]
  BY <1>a DEF ServeDoes, InOrder, MailboxesInOrder, Restoring
<1>2. \A j \in DOMAIN queue[a] : j > 1 => queue[a][j].from # q
  BY <1>1 DEF InOrder, MailboxesInOrder, Restoring
<1>3. ASSUME NEW b \in Agent, NEW i \in DOMAIN queue'[b],
             queue'[b][i].from = q, queue'[b][i].feature = g
      PROVE  FALSE
  <2>1. CASE b = a
    BY <1>a, <1>2, <1>3, <2>1 DEF ServeDoes
  <2>2. CASE b # a
    <3>1. queue'[b] = queue[b]
      BY <1>a, <2>2 DEF ServeDoes
    <3>2. m_agent[g] = b
      BY <1>3, <3>1 DEF InOrder, MailboxesInOrder
    <3>. QED BY <1>1, <2>2, <3>2
  <2>. QED BY <2>1, <2>2
<1>. QED BY <1>3 DEF InTheMail

LEMMA ServeLeavesNothingLate ==
  ASSUME TypeOK, InOrder, \A q \in Restores : ItemsFromRequest(q),
         \A q \in Restores : CallOfLoop(q) /\ ItemsOnce(q), NothingLate,
         NEW a \in Agent, NEW kind, Serve(a, kind), UNCHANGED workerVars
  PROVE  NothingLate'
<1>a. AgentsTypeOK /\ request' = request /\ ServeDoes(a, kind) /\ Restores \subseteq Thread
  BY ServeEffect, PayloadAssumption DEF TypeOK, workerVars
<1>b. \A q \in Restores : Scope(q)' = Scope(q)
  BY <1>a, SameScopes
<1>1. ASSUME NEW b \in Agent, NEW i \in DOMAIN queue'[b]
      PROVE  \E j \in DOMAIN queue[b] : queue'[b][i] = queue[b][j]
  BY <1>1, <1>a DEF ServeDoes
<1>2. ASSUME NEW b \in Agent, NEW i \in DOMAIN queue'[b]
      PROVE  Changes(queue'[b][i]) =>
               queue'[b][i].from \in Restores /\ queue'[b][i].feature \in Scope(queue'[b][i].from)
  BY <1>1 DEF NothingLate
<1>3. ASSUME NEW q \in Restores, NEW f \in Feature, Done(q, f)' \/ AsFound(q, f)'
      PROVE  ~InTheMail(q, f)'
  <2>1. CASE Done(q, f) \/ AsFound(q, f)
    <3>1. ~InTheMail(q, f)
      BY <2>1 DEF NothingLate
    <3>. QED BY <1>1, <3>1 DEF InTheMail, Changes
  <2>2. CASE \E d : Restoring(a, q, f, d)
    BY <1>a, <2>2, ServedIsLast
  <2>. QED BY <1>3, <2>1, <2>2, ServedClaims
<1>. QED BY <1>b, <1>2, <1>3 DEF NothingLate, Changes

(* The feature of the message served is the only one whose configuration may    *)
(* change, when the message changes it, and becomes its data when that succeeds. *)
LEMMA ServedStore ==
  ASSUME TypeOK, NothingLate, NEW a \in Agent, NEW kind, kind # "empty", Serve(a, kind)
  PROVE  /\ queue[a][1] \in Message /\ 1 \in DOMAIN queue[a]
         /\ \A g \in Feature : store'[g] = store[g] \/
              (g = queue[a][1].feature /\ Changes(queue[a][1]))
         /\ \A q, g, d : Restoring(a, q, g, d) /\ d # None =>
              /\ g = queue[a][1].feature /\ q = queue[a][1].from /\ Changes(queue[a][1])
              /\ kind = "ok" => store'[g] = d
         /\ Changes(queue[a][1]) =>
              /\ queue[a][1].from \in Writers(queue[a][1].feature)
              /\ InTheMail(queue[a][1].from, queue[a][1].feature)
<1> DEFINE m == queue[a][1]
<1>1. ServeDoes(a, kind)
  BY ServeEffect DEF TypeOK
<1>2. m \in Message /\ 1 \in DOMAIN queue[a] /\ store'[m.feature] \in Outcomes(m, kind)
      /\ \A g \in Feature \ {m.feature} : store'[g] = store[g]
  BY <1>1 DEF ServeDoes
<1>3. ~Changes(m) => store'[m.feature] = store[m.feature]
  <2>1. ~Changes(m) => Applied(m) = store[m.feature]
    BY DEF Changes, Applied
  <2>. QED BY <1>2, <2>1 DEF Outcomes
<1>4. \A q, g, d : Restoring(a, q, g, d) /\ d # None =>
        /\ g = m.feature /\ q = m.from /\ Changes(m)
        /\ kind = "ok" => store'[g] = d
  <2> SUFFICES ASSUME NEW q, NEW g, NEW d, Restoring(a, q, g, d), d # None
               PROVE  /\ g = m.feature /\ q = m.from /\ Changes(m)
                      /\ kind = "ok" => store'[g] = d
    OBVIOUS
  <2>1. g = m.feature /\ q = m.from /\ m.op = "restore" /\ m.data = d
    BY DEF Restoring
  <2>2. Changes(m) /\ Applied(m) = d
    BY <2>1 DEF Changes, Applied
  <2>. QED BY <1>2, <2>1, <2>2 DEF Outcomes
<1>5. Changes(m) => m.from \in Writers(m.feature) /\ InTheMail(m.from, m.feature)
  BY <1>2 DEF NothingLate, Writers, InTheMail
<1>. QED BY <1>2, <1>3, <1>4, <1>5

LEMMA ServeKeepsComposed ==
  ASSUME TypeOK, InOrder, \A q \in Restores : ItemsFromRequest(q),
         \A q \in Restores : CallOfLoop(q) /\ ItemsOnce(q),
         NothingLate, Composed, NEW a \in Agent, NEW kind, kind # "empty", Serve(a, kind),
         UNCHANGED workerVars
  PROVE  Composed'
<1> DEFINE m == queue[a][1]
<1>a. request' = request /\ \A f : Writers(f)' = Writers(f)
  BY SameScopes DEF workerVars
<1> SUFFICES ASSUME NEW f \in Feature, Writers(f) # {}, \A q \in Writers(f) : Done(q, f)'
             PROVE  store'[f] \in Writers(f)
  BY <1>a DEF Composed
<1>b. Writers(f) \subseteq Restores /\ \A q \in Restores : q \in Thread /\ q # None
  BY PayloadAssumption, AgentsAssumption DEF Writers
<1>1. CASE f = m.feature /\ Changes(m)
  <2>1. m.from \in Writers(f) /\ ~Done(m.from, f)
    BY <1>1, <1>b, ServedStore DEF NothingLate
  <2>2. kind = "ok" /\ Restoring(a, m.from, f, m.from)
    BY <1>b, <2>1, ServedClaims
  <2>3. store'[f] = m.from
    BY <1>b, <2>1, <2>2, ServedStore
  <2>. QED BY <2>1, <2>3
<1>2. CASE ~(f = m.feature /\ Changes(m))
  <2>1. store'[f] = store[f]
    BY <1>2, ServedStore
  <2>2. ASSUME NEW q \in Writers(f) PROVE Done(q, f)
    <3>1. ~Restoring(a, q, f, q)
      BY <1>2, <1>b, ServedStore
    <3>. QED BY <1>b, <3>1, ServedClaims
  <2>. QED BY <2>1, <2>2 DEF Composed
<1>. QED BY <1>1, <1>2

LEMMA ServeKeepsFound ==
  ASSUME TypeOK, InOrder, \A q \in Restores : ItemsFromRequest(q),
         \A q \in Restores : CallOfLoop(q) /\ LoopBounds(q) /\ ItemsOnce(q), NothingLate,
         NEW a \in Agent, NEW kind, kind # "empty", Serve(a, kind), UNCHANGED workerVars,
         NEW q \in Restores, KeptAsFound(q)
  PROVE  KeptAsFound(q)'
<1> DEFINE m == queue[a][1]
<1>a. RestoreTypeOK /\ AgentsTypeOK /\ request' = request /\ Bystander(q) /\ q \in Thread
  BY PayloadAssumption DEF TypeOK, workerVars, Bystander
<1>b. /\ Scope(q)' = Scope(q) /\ Contended(q)' = Contended(q) /\ BackedUp(q)' = BackedUp(q)
      /\ pc'[q] = pc[q] /\ backup'[q] = backup[q]
  BY <1>a, SameScopes, SameLoop DEF Bystander
<1>c. Scope(q) \subseteq Feature
  BY DEF Scope, Writable
<1>1. ASSUME NEW f \in Scope(q) \ Contended(q), AsFound(q, f)' PROVE store'[f] = Initial
  <2>1. \/ AsFound(q, f)
        \/ /\ kind = "ok" /\ pc[q] = "undoRestore" /\ f \in BackedUp(q)
           /\ Restoring(a, q, f, backup[q][f])
    BY <1>1, ServedClaims
  <2>2. f \in BackedUp(q) => backup[q][f] # None
    BY DEF BackedUp
  <2>3. CASE f = m.feature /\ Changes(m)
    <3>1. m.from = q
      <4>1. m.from \in Restores /\ f \in Scope(m.from)
        BY <2>3, ServedStore DEF Writers
      <4>. QED BY <1>1, <4>1 DEF Contended
    <3>2. ~AsFound(q, f)
      BY <1>c, <2>3, <3>1, ServedStore DEF NothingLate
    <3>3. store'[f] = backup[q][f] /\ pc[q] = "undoRestore" /\ f \in BackedUp(q)
      BY <2>1, <2>2, <3>2, ServedStore
    <3>. QED BY <1>1, <3>3 DEF KeptAsFound, CallPhase
  <2>4. CASE ~(f = m.feature /\ Changes(m))
    <3>1. store'[f] = store[f]
      BY <1>c, <2>4, ServedStore
    <3>2. AsFound(q, f)
      BY <2>1, <2>2, <2>4, ServedStore
    <3>. QED BY <1>1, <3>1, <3>2 DEF KeptAsFound
  <2>. QED BY <2>3, <2>4
<1>2. ASSUME pc[q] = "backup", answer'[q].kind = "ok"
      PROVE  /\ answer'[q].data # None
             /\ answer'[q].feature \notin Contended(q) => answer'[q].data = Initial
  <2>1. CASE answer'[q] = answer[q]
    BY <1>2, <2>1 DEF KeptAsFound
  <2>2. CASE answer'[q] # answer[q]
    <3>1. ServeDoes(a, kind)
      BY <1>a, ServeEffect
    <3>2. m.awaited /\ q = m.from /\ kind = "ok" /\ answer'[q].feature = answer[q].feature
          /\ 1 \in DOMAIN queue[a] /\ m.feature \in Feature
      BY <1>a, <1>2, <2>2, <3>1 DEF ServeDoes, Message
    <3>3. m.op = "save" /\ answer[q].feature = m.feature /\ answer[q].kind = "pending"
      BY <1>2, <3>2 DEF CallOfLoop, OpOf, InOrder, MailboxesInOrder
    <3>4. answer'[q].data = store[m.feature]
      BY <3>1, <3>2, <3>3 DEF ServeDoes
    <3>5. store[m.feature] # None
      BY <1>a, <3>2 DEF AgentsTypeOK
    <3>6. m.feature \in Owned(q) \cap Feature
      BY <1>2, <3>2, <3>3 DEF CallOfLoop, LoopBounds, Idle
    <3>7. Current(q) \in Requested(q) /\ AtWork(q, Current(q).id) /\ m.feature \in Writable(q, Current(q))
      BY <1>a, <1>2, <3>6, ItemOfLoop DEF CallPhase
    <3>8. AsFound(q, m.feature) /\ m.feature \in Scope(q)
      BY <1>2, <3>7 DEF AsFound, Scope
    <3>. QED BY <3>2, <3>3, <3>4, <3>5, <3>8 DEF KeptAsFound
  <2>. QED BY <2>1, <2>2
<1>3. pc[q] \in CallPhase => \A f \in BackedUp(q) \ Contended(q) : backup[q][f] = Initial
  BY DEF KeptAsFound
<1>. QED BY <1>b, <1>1, <1>2, <1>3 DEF KeptAsFound

LEMMA ServeKeepsAgreement ==
  ASSUME Reporting, TypeOK, InOrder, \A q \in Restores : ItemsFromRequest(q),
         \A q \in Restores : CallOfLoop(q) /\ LoopBounds(q) /\ ItemsOnce(q), SInv,
         NEW a \in Agent, NEW kind \in ReplyKind, Serve(a, kind), UNCHANGED workerVars
  PROVE  SInv'
<1>a. kind # "empty" /\ request' = request /\ \A f : Writers(f)' = Writers(f)
  BY SameScopes DEF Reporting, workerVars
<1>1. NothingLate' /\ Composed'
  BY <1>a, ServeLeavesNothingLate, ServeKeepsComposed DEF SInv
<1>2. \A q \in Restores : KeptAsFound(q)'
  BY <1>a, ServeKeepsFound DEF SInv
<1>3. ASSUME NEW f \in Feature, Writers(f) = {} PROVE store'[f] = Initial
  <2>1. store'[f] = store[f]
    BY <1>a, <1>3, ServedStore DEF SInv
  <2>. QED BY <1>3, <2>1 DEF SInv
<1>. QED BY <1>a, <1>1, <1>2, <1>3 DEF SInv

-----------------------------------------------------------------------------
(* The whole invariant, with the books it needs.                              *)

LoopsInOrder == InOrder /\ \A q \in Restores : CallOfLoop(q) /\ LoopBounds(q) /\ ItemsOnce(q)

LEMMA InitLoops == Init => LoopsInOrder
<1> SUFFICES ASSUME Init, NEW q \in Restores
             PROVE  CallOfLoop(q) /\ LoopBounds(q) /\ ItemsOnce(q)
  BY InitOrder DEF LoopsInOrder
<1>1. /\ pc[q] = "license" /\ items[q] = <<>> /\ answer[q] = NoAnswer
      /\ \A a \in Agent : queue[a] = <<>>
  BY PayloadAssumption DEF Init, AgentsInit
<1>. QED
  BY <1>1 DEF CallOfLoop, LoopBounds, ItemsOnce, Idle, NoAnswer, CallPhase, Undoing

LEMMA InitAgreement == Init => SInv
<1> SUFFICES ASSUME Init PROVE SInv
  OBVIOUS
<1>1. /\ \A q \in Restores : pc[q] = "license" /\ items[q] = <<>> /\ answer[q] = NoAnswer
                             /\ statusList[q] = <<>>
      /\ \A a \in Agent : queue[a] = <<>>
      /\ \A f \in Feature : store[f] = Initial
  BY PayloadAssumption DEF Init, AgentsInit
<1>2. NothingLate
  BY <1>1 DEF NothingLate, InTheMail
<1>3. ASSUME NEW q \in Restores, NEW f PROVE ~Done(q, f)
  <2>1. Entries(q, "SUCCESS") = {}
    BY <1>1 DEF Entries
  <2>2. \A id : ~AtWork(q, id)
    BY <1>1 DEF AtWork, Begun
  <2>. QED BY <2>1, <2>2 DEF Done
<1>4. Composed
  BY <1>3 DEF Composed, Writers
<1>5. \A q \in Restores : Scope(q) \subseteq Feature
  BY DEF Scope, Writable
<1>6. \A q \in Restores : KeptAsFound(q)
  BY <1>1, <1>5 DEF KeptAsFound, NoAnswer, CallPhase
<1>. QED BY <1>1, <1>2, <1>4, <1>6 DEF SInv

LEMMA WorkerStepKeepsLoops ==
  ASSUME TypeInv, \A q \in Restores : Books(q), LoopsInOrder, SInv,
         NEW r \in Restores, WorkerStep(r)
  PROVE  LoopsInOrder'
<1>a. TypeOK /\ RestoreTypeOK /\ InOrder /\ \A q \in Restores : ItemsFromRequest(q)
  BY DEF TypeInv, TypeOK, LoopsInOrder
<1>1. ASSUME NEW q \in Restores PROVE CallOfLoop(q)'
  BY <1>a, WorkerStepKeepsCalls DEF LoopsInOrder
<1>2. ASSUME NEW q \in Restores PROVE LoopBounds(q)' /\ ItemsOnce(q)'
  <2>1. CASE q = r
    <3>1. pc[r] = "backup" /\ answer[r].kind = "ok" => answer[r].data # None
      BY DEF SInv, KeptAsFound
    <3>. QED BY <1>a, <2>1, <3>1, WorkerStepKeepsBounds, WorkerStepKeepsOnce DEF LoopsInOrder
  <2>2. CASE q # r
    <3>1. Bystander(q)
      BY <1>a, <2>2, OthersStandBy
    <3>. QED BY <3>1, BoundsStand, OnceStands DEF LoopsInOrder
  <2>. QED BY <2>1, <2>2
<1>. QED BY <1>a, <1>1, <1>2, WorkerStepKeepsOrder DEF LoopsInOrder

LEMMA AgentStepKeepsAgreement ==
  ASSUME Reporting, TypeInv, LoopsInOrder, SInv, NEW a \in Agent, AgentStep(a)
  PROVE  LoopsInOrder' /\ SInv'
<1>a. TypeOK /\ InOrder /\ \A q \in Restores : ItemsFromRequest(q)
  BY DEF TypeInv, LoopsInOrder
<1>b. PICK kind \in ReplyKind : Serve(a, kind) /\ UNCHANGED workerVars
  BY DEF AgentStep
<1>1. InOrder'
  BY <1>a, <1>b, ServeKeepsOrder DEF TypeOK
<1>2. ASSUME NEW q \in Restores PROVE CallOfLoop(q)' /\ LoopBounds(q)' /\ ItemsOnce(q)'
  <2>1. Bystander(q)
    BY <1>b DEF workerVars, Bystander
  <2>. QED BY <1>a, <1>b, <2>1, ServeKeepsCalls, BoundsStand, OnceStands DEF LoopsInOrder
<1>3. SInv'
  BY <1>a, <1>b, ServeKeepsAgreement DEF LoopsInOrder
<1>. QED BY <1>1, <1>2, <1>3 DEF LoopsInOrder

LEMMA AgreementFrame ==
  ASSUME LoopsInOrder, SInv, UNCHANGED vars
  PROVE  LoopsInOrder' /\ SInv'
<1>1. UNCHANGED <<store, queue, answer, request>> /\ \A q \in Restores : Bystander(q)
  BY DEF vars, agentVars, workerVars, Bystander
<1>2. InOrder'
  BY <1>1 DEF LoopsInOrder, InOrder, MailboxesInOrder, CallsPosted
<1>3. ASSUME NEW q \in Restores PROVE CallOfLoop(q)' /\ LoopBounds(q)' /\ ItemsOnce(q)'
  <2>1. CallOfLoop(q)'
    BY <1>1, SameLoop DEF LoopsInOrder, CallOfLoop, Bystander, Lowest, Idle
  <2>. QED BY <1>1, <2>1, BoundsStand, OnceStands DEF LoopsInOrder
<1>4. NothingLate'
  <2>1. \A q \in Restores : Scope(q)' = Scope(q)
    BY <1>1, SameScopes
  <2>2. \A q \in Restores : \A f : (Done(q, f)' <=> Done(q, f)) /\ (AsFound(q, f)' <=> AsFound(q, f))
    BY <1>1, ClaimsStand
  <2>. QED BY <1>1, <2>1, <2>2 DEF SInv, NothingLate, InTheMail, Changes
<1>5. Composed' /\ \A f \in Feature : Writers(f)' = {} => store'[f] = Initial
  <2>1. \A f : Writers(f)' = Writers(f) /\ Writers(f) \subseteq Restores
    BY <1>1, SameScopes DEF Writers
  <2>2. \A q \in Restores : \A f : Done(q, f)' <=> Done(q, f)
    BY <1>1, ClaimsStand
  <2>. QED BY <1>1, <2>1, <2>2 DEF SInv, Composed
<1>6. \A q \in Restores : KeptAsFound(q)'
  BY <1>1, KeptStands DEF SInv
<1>. QED BY <1>2, <1>3, <1>4, <1>5, <1>6 DEF LoopsInOrder, SInv

LEMMA StepKeepsAgreement ==
  ASSUME Reporting, TypeInv, \A q \in Restores : Books(q), LoopsInOrder, SInv, [Next]_vars
  PROVE  LoopsInOrder' /\ SInv'
<1>1. ASSUME NEW r \in Restores, WorkerStep(r) PROVE LoopsInOrder' /\ SInv'
  BY <1>1, WorkerStepKeepsLoops, WorkerStepKeepsAgreement DEF TypeInv, LoopsInOrder
<1>. QED BY <1>1, AgentStepKeepsAgreement, AgreementFrame DEF Next, AllServed

-----------------------------------------------------------------------------
(* The status list and the status of the answer.                              *)

LEMMA ReportStands ==
  ASSUME NEW q \in Restores, Bystander(q), status'[q] = status[q]
  PROVE  (EntriesKept(q) => EntriesKept(q)') /\ (LeftOff(q) => LeftOff(q)')
<1>1. Requested(q)' = Requested(q) /\ \A st : Entries(q, st)' = Entries(q, st)
  BY SameLoop DEF Bystander, Entries
<1>. QED BY <1>1 DEF Bystander, EntriesKept, LeftOff

LEMMA WorkerStepKeepsEntries ==
  ASSUME TypeOK, NEW r \in Restores, ItemsFromRequest(r), Books(r), ItemsOnce(r), EntriesKept(r),
         WorkerStep(r)
  PROVE  EntriesKept(r)'
<1>a. RestoreTypeOK /\ request' = request /\ {"SUCCESS", "FAILED"} \subseteq ItemOutcome
  BY RequestKept DEF TypeOK, ItemOutcome
<1>b. Requested(r)' = Requested(r)
  BY <1>a DEF Requested
<1>1. CASE statusList'[r] = statusList[r]
  <2>1. \A st : Entries(r, st)' = Entries(r, st)
    BY <1>1 DEF Entries
  <2>. QED BY <1>1, <1>b, <2>1 DEF EntriesKept
<1>2. ASSUME NEW st \in ItemOutcome, PushStatus(r, st), Settles(r), ~Accept(r),
             st = "SUCCESS" => RestoreDone(r)
      PROVE  EntriesKept(r)'
  <2>1. items[r] # <<>> /\ Current(r).id \in ItemId
    BY <1>2, SettlingStep
  <2>2. /\ Current(r) \in Requested(r) /\ 1 \in DOMAIN items[r] /\ items[r][1] = Current(r)
    <3>1. items[r] \in Seq(Item)
      BY <1>a DEF RestoreTypeOK
    <3>. QED BY <1>a, <2>1, <3>1, CurrentIsRequested DEF Current
  <2>3. \A i \in DOMAIN statusList'[r] :
          \/ i \in DOMAIN statusList[r] /\ statusList'[r][i] = statusList[r][i]
          \/ statusList'[r][i].name = Current(r).id
    BY <1>2, <1>a, <2>1, NamesAfterPush
  <2>4. \A i \in DOMAIN statusList'[r] : \E it \in Requested(r) : it.id = statusList'[r][i].name
    BY <2>2, <2>3 DEF EntriesKept
  <2>5. /\ Entries(r, st)' = Entries(r, st) \cup {Current(r).id}
        /\ \A o \in ItemOutcome \ {st} : Entries(r, o)' = Entries(r, o)
    BY <1>2, <1>a, <2>1, EntriesAfterPush
  <2>6. Current(r).id \notin Entries(r, "SUCCESS")
    BY <2>2 DEF ItemsOnce
  <2>7. st = "SUCCESS" => Current(r).id \notin Entries(r, "FAILED")
    BY <1>2, <2>2 DEF ItemsOnce, RestoreDone
  <2>8. Entries(r, "SUCCESS")' \cap Entries(r, "FAILED")' = {}
    BY <1>2, <2>5, <2>6, <2>7 DEF EntriesKept, ItemOutcome
  <2>. QED BY <1>b, <2>4, <2>8 DEF EntriesKept
<1>3. CASE ~Settles(r) \/ Accept(r)
  BY <1>1, <1>3, <1>a, OtherStepsSettleNothing DEF Accept
<1>4. CASE Settles(r) /\ ~Accept(r)
  BY <1>1, <1>2, <1>4, <1>a, SettlingStep DEF Settles, ItemOutcome
<1>. QED BY <1>3, <1>4

LEMMA WorkerStepKeepsLeftOff ==
  ASSUME TypeOK, NEW r \in Restores, ItemsFromRequest(r), Books(r), ItemsOnce(r),
         LeftOff(r), WorkerStep(r)
  PROVE  LeftOff(r)'
<1>a. \A phase, S : Goto(r, phase, S) => pc'[r] = phase
  BY DEF Goto, TypeOK, RestoreTypeOK
<1>b. \A st : status' = [status EXCEPT ![r] = st] => status'[r] = st
  BY DEF TypeOK, RestoreTypeOK
<1>c. pc[r] \in {"license", "decode"} => items[r] = <<>> /\ statusList[r] = <<>>
  BY DEF ItemsOnce, Books
<1>1. CASE LicenseRefused(r) \/ Reject(r)
  <2>1. pc[r] \in {"license", "decode"} /\ statusList' = statusList /\ status'[r] = "FAILED"
    BY <1>1, <1>b DEF LicenseRefused, Reject, Abort
  <2>. QED BY <1>c, <2>1 DEF LeftOff
<1>2. CASE IntegrityCheckFailed(r)
  <2>1. pc[r] = "decode" /\ statusList' = statusList /\ items' = items /\ status'[r] = "UNKNOWN"
    BY <1>2, <1>b DEF IntegrityCheckFailed
  <2>. QED BY <1>c, <2>1 DEF LeftOff
<1>3. CASE MissingFeature(r) \/ UnexpectedReply(r)
  <2>1. items' = items /\ status'[r] = "FAILED"
    BY <1>3, <1>b DEF MissingFeature, UnexpectedReply, Abort
  <2>2. items[r] # <<>>
    BY <1>3 DEF MissingFeature, UnexpectedReply, ItemsFromRequest, CallPhase
  <2>. QED BY <2>1, <2>2 DEF LeftOff
<1>4. CASE AllItemsDone(r)
  <2>1. items[r] = <<>> /\ items' = items /\ status'[r] \in {"SUCCESS", "PARTIAL_SUCCESS"}
    BY <1>4, <1>b DEF AllItemsDone, OverallStatus
  <2>. QED BY <2>1 DEF LeftOff
<1>5. CASE Reply(r)
  BY <1>5 DEF Reply, LeftOff
<1>6. CASE SendQuery(r) \/ GiveUp(r)
  BY <1>6 DEF SendQuery, GiveUp, workerVars, LeftOff
<1>7. CASE BackupOk(r) \/ ResetAnswered(r) \/ RestoreOk(r) \/ UndoRestoreAnswered(r)
  BY <1>7 DEF BackupOk, ResetAnswered, RestoreOk, UndoRestoreAnswered, Advance, LeftOff
<1>8. CASE \/ LicenseGranted(r) \/ Accept(r) \/ SkipUnknownGroup(r) \/ BeginItem(r)
           \/ BackupFailedSkip(r) \/ BackupFailedGoOn(r) \/ BackupDone(r) \/ ResetDone(r)
           \/ RestoreDone(r) \/ RestoreFailed(r) \/ UndoResetDone(r) \/ UndoDone(r)
  BY <1>8, <1>a
  DEF LicenseGranted, Accept, SkipUnknownGroup, BeginItem, BackupFailedSkip, BackupFailedGoOn,
      BackupDone, ResetDone, RestoreDone, RestoreFailed, UndoResetDone, UndoDone, FinishItem, LeftOff
<1>. QED BY <1>1, <1>2, <1>3, <1>4, <1>5, <1>6, <1>7, <1>8 DEF WorkerStep

LEMMA InitReport == Init => \A q \in Restores : EntriesKept(q) /\ LeftOff(q)
<1> SUFFICES ASSUME Init, NEW q \in Restores PROVE EntriesKept(q) /\ LeftOff(q)
  OBVIOUS
<1>1. pc[q] = "license" /\ statusList[q] = <<>>
  BY DEF Init
<1>2. \A st : Entries(q, st) = {}
  BY <1>1 DEF Entries
<1>. QED BY <1>1, <1>2 DEF EntriesKept, LeftOff

LEMMA StepKeepsReport ==
  ASSUME TypeInv, LoopsInOrder, \A q \in Restores : Books(q), [Next]_vars,
         \A q \in Restores : EntriesKept(q) /\ LeftOff(q)
  PROVE  \A q \in Restores : EntriesKept(q)' /\ LeftOff(q)'
<1>1. ASSUME NEW r \in Restores, WorkerStep(r), NEW q \in Restores
      PROVE  EntriesKept(q)' /\ LeftOff(q)'
  <2>1. CASE q = r
    BY <1>1, <2>1, WorkerStepKeepsEntries, WorkerStepKeepsLeftOff DEF TypeInv, LoopsInOrder
  <2>2. CASE q # r
    <3>1. Bystander(q) /\ status'[q] = status[q]
      BY <1>1, <2>2, OthersStandBy, OthersUntouched DEF TypeInv, TypeOK, Untouched
    <3>. QED BY <3>1, ReportStands
  <2>. QED BY <2>1, <2>2
<1>2. ASSUME UNCHANGED workerVars, NEW q \in Restores PROVE EntriesKept(q)' /\ LeftOff(q)'
  <2>1. Bystander(q) /\ status'[q] = status[q]
    BY <1>2 DEF workerVars, Bystander
  <2>. QED BY <2>1, ReportStands
<1>. QED BY <1>1, <1>2 DEF Next, AgentStep, AllServed, vars

-----------------------------------------------------------------------------
(* The invariant as a whole.                                                  *)

RestoreInv ==
  /\ TypeInv
  /\ \A r \in Restores : /\ Books(r) /\ RestartKept(r) /\ OrderKept(r)
                        /\ EntriesKept(r) /\ LeftOff(r)
  /\ LoopsInOrder /\ SInv

LEMMA InitRestoreInv == Init => RestoreInv
BY InitTypes, InitBooks, InitFlagAndOrder, InitReport, InitLoops, InitAgreement DEF RestoreInv

LEMMA StepKeepsRestoreInv ==
  ASSUME Reporting, RestoreInv, [Next]_vars
  PROVE  RestoreInv'
BY StepKeepsTypes, StepKeepsBooks, StepKeepsFlagAndOrder, StepKeepsReport, StepKeepsAgreement
DEF RestoreInv

LEMMA InvAgreed == RestoreInv => AInv
BY DEF RestoreInv, TypeInv, LoopsInOrder, InOrder, AInv, LInv

-----------------------------------------------------------------------------
(* What it says of the reported items. *)

LEMMA OnlyWriter ==
  ASSUME NEW r \in Restores, NEW f \in Scope(r) \ Contended(r)
  PROVE  f \in Feature /\ Writers(f) = {r}
BY DEF Writers, Contended, Scope, Writable

LEMMA DoneHolds ==
  ASSUME SInv, NEW r \in Restores, NEW f, f \notin Contended(r), Done(r, f)
  PROVE  store[f] = r
<1>1. f \in Scope(r)
  BY DEF Done, Scope
<1>2. f \in Feature /\ Writers(f) = {r}
  BY <1>1, OnlyWriter
<1>. QED BY <1>2 DEF SInv, Composed

LEMMA InvRestored == RestoreInv => SuccessMeansRestored
BY DoneHolds DEF RestoreInv, SuccessMeansRestored, HoldsRestored, Done

LEMMA InvComposed == RestoreInv => SuccessfulRestoresCompose
<1> SUFFICES ASSUME SInv, NEW f \in Feature, Writers(f) # {},
                    \A r \in Writers(f) : \E it \in Requested(r) :
                      f \in it.features \cap Writable(r, it) /\ it.id \in Entries(r, "SUCCESS")
             PROVE  store[f] \in Writers(f)
  BY DEF RestoreInv, SuccessfulRestoresCompose, Writers
<1>1. \A r \in Writers(f) : Done(r, f)
  BY DEF Done
<1>. QED BY <1>1 DEF SInv, Composed

LEMMA InvRolledBack == RestoreInv => FailedMeansRolledBack
<1> SUFFICES ASSUME RestoreTypeOK, SInv, NEW r \in Restores, NEW it \in Requested(r),
                    it.id \in Entries(r, "FAILED"), Finished(r, it),
                    NEW f \in Writable(r, it) \ (Contended(r) \cup unbacked[r] \cup unrecoverable[r])
             PROVE  store[f] = Initial
  BY DEF RestoreInv, TypeInv, TypeOK, FailedMeansRolledBack
<1>1. ~AtWork(r, it.id)
  <2>1. items[r] \in Seq(Item)
    BY DEF RestoreTypeOK
  <2>2. items[r] # <<>> => 1 \in DOMAIN items[r] /\ items[r][1] = Current(r)
    BY <2>1 DEF Current
  <2>. QED BY <2>2 DEF AtWork, Begun, Finished
<1>2. AsFound(r, f) /\ f \in Scope(r)
  BY <1>1 DEF AsFound, Scope
<1>. QED BY <1>2 DEF SInv, KeptAsFound

LEMMA PriorityIsNat == \A f : getPriority(f) \in Nat
<1> SUFFICES ASSUME NEW f PROVE getPriority(f) \in Nat
  OBVIOUS
<1> DEFINE g == CHOOSE h \in getGroupFromFeature(f) : TRUE
           i == CHOOSE j \in DOMAIN m_fp[g] : m_fp[g][j].m_feature = f
<1>1. CASE getGroupFromFeature(f) = {}
  BY <1>1 DEF getPriority
<1>2. CASE getGroupFromFeature(f) # {}
  <2>1. g \in Group /\ f \in FeaturesOf(g)
    BY <1>2 DEF getGroupFromFeature
  <2>2. i \in DOMAIN m_fp[g]
    BY <2>1 DEF FeaturesOf
  <2>3. \A h \in Group : \A j \in DOMAIN m_fp[h] : m_fp[h][j].m_priority \in Nat
    <3> SUFFICES ASSUME NEW h \in Group, NEW j \in DOMAIN m_fp[h]
                 PROVE  m_fp[h][j].m_priority \in Nat
      OBVIOUS
    <3>1. m_fp[h] \in Seq([m_feature : Feature, m_priority : Nat])
      BY TablesAssumption
    <3>2. m_fp[h][j] \in [m_feature : Feature, m_priority : Nat]
      BY <3>1, ElementOfSeq, LenProperties
    <3>. QED BY <3>2
  <2>4. m_fp[g][i].m_priority \in Nat
    <3> HIDE DEF g, i
    <3>. QED BY <2>1, <2>2, <2>3
  <2>. QED BY <1>2, <2>4 DEF getPriority
<1>. QED BY <1>1, <1>2

LEMMA InvDependencies == RestoreInv => DependenciesFirst
<1> SUFFICES ASSUME RestoreInv, NEW r \in Restores, answer[r].kind = "pending",
                    NEW f \in Owned(r) \ Contended(r),
                    getPriority(f) < getPriority(answer[r].feature)
             PROVE  /\ pc[r] = "restore" /\ f \in Current(r).features => store[f] = r
                    /\ pc[r] = "undoRestore" /\ f \in BackedUp(r) \ unrecoverable[r]
                         => store[f] = backup[r][f]
  BY DEF DependenciesFirst
<1>a. /\ RestoreTypeOK /\ ItemsFromRequest(r) /\ CallOfLoop(r) /\ LoopBounds(r) /\ ItemsOnce(r)
      /\ SInv
  BY DEF RestoreInv, TypeInv, TypeOK, LoopsInOrder
<1>b. pc[r] \in {"restore", "undoRestore"} => answer[r].feature \in Lowest(todo[r])
  BY <1>a DEF CallOfLoop, Idle
<1>1. pc[r] \in {"restore", "undoRestore"} => f \notin todo[r] /\ Through(r, f)
  BY <1>b, PriorityIsNat DEF Lowest, Through
<1>2. ASSUME pc[r] \in {"restore", "undoRestore"}, f \in Feature
      PROVE  /\ Current(r) \in Requested(r) /\ AtWork(r, Current(r).id)
             /\ f \in Writable(r, Current(r)) /\ f \in Scope(r)
  BY <1>2, <1>a, ItemOfLoop DEF CallPhase, Scope
<1>3. ASSUME pc[r] = "restore", f \in Current(r).features PROVE store[f] = r
  <2>1. f \in Feature
    <3>1. Current(r) \in Requested(r) /\ Known(r, Current(r).id)
      BY <1>3, <1>a, ItemOfLoop DEF CallPhase
    <3>2. CASE isV1(r)
      <4>1. answer[r].feature \in Current(r).features
        BY <1>3, <1>b, <1>a DEF Lowest, LoopBounds
      <4>2. Current(r).features = {Current(r).id}
        BY <1>a, <3>1, <3>2, RequestFacts, PayloadAssumption DEF Requested, isV1
      <4>3. answer[r].feature = f
        BY <1>3, <4>1, <4>2
      <4>. QED BY <4>3, PriorityIsNat
    <3>3. CASE ~isV1(r)
      BY <3>1, <3>3, FeaturesOfGroups DEF Owned, OwnFeatures, Known
    <3>. QED BY <3>2, <3>3
  <2>2. Done(r, f)
    BY <1>1, <1>2, <1>3, <2>1 DEF Done
  <2>. QED BY <1>a, <2>2, DoneHolds
<1>4. ASSUME pc[r] = "undoRestore", f \in BackedUp(r) \ unrecoverable[r]
      PROVE  store[f] = backup[r][f]
  <2>1. f \in Feature
    BY <1>4 DEF BackedUp
  <2>2. AsFound(r, f) /\ f \in Scope(r)
    BY <1>1, <1>2, <1>4, <2>1 DEF AsFound
  <2>. QED BY <1>a, <1>4, <2>2 DEF SInv, KeptAsFound, CallPhase
<1>. QED BY <1>3, <1>4

-----------------------------------------------------------------------------
(* What the proofs about SrrCrash, SrrRetry and SrrServer need besides.        *)

LEMMA NoMoreInTheMail ==
  ASSUME NEW q, NoNewMail(q), NEW f, InTheMail(q, f)'
  PROVE  InTheMail(q, f)
<1>1. PICK a \in Agent : \E i \in DOMAIN queue'[a] :
        queue'[a][i].from = q /\ queue'[a][i].feature = f /\ Changes(queue'[a][i])
  BY DEF InTheMail, Changes
<1>2. PICK i \in DOMAIN queue'[a] :
        queue'[a][i].from = q /\ queue'[a][i].feature = f /\ Changes(queue'[a][i])
  BY <1>1
<1>3. PICK j \in DOMAIN queue[a] : SameLetter(queue[a][j], queue'[a][i])
  BY <1>2 DEF NoNewMail
<1>. QED BY <1>2, <1>3 DEF InTheMail, SameLetter, Changes

(* A thread that has answered takes no step.                                   *)
LEMMA AnsweredIsOver ==
  ASSUME RestoreInv, NEW r \in Restores, WorkerStep(r)
  PROVE  pc[r] # "answered" /\ (pc[r] = "license" => pc'[r] # "license")
<1>1. CallOfLoop(r) /\ RestoreTypeOK
  BY DEF RestoreInv, LoopsInOrder, TypeInv, TypeOK
<1>2. pc[r] = "answered" \/ pc[r] = "license" => Idle(r)
  BY <1>1 DEF CallOfLoop, CallPhase
<1>3. pc[r] # "answered"
  BY <1>2
  DEF WorkerStep, LicenseGranted, LicenseRefused, Reject, IntegrityCheckFailed, Accept,
      SkipUnknownGroup, MissingFeature, BeginItem, AllItemsDone, Reply, SendQuery, GiveUp, TimeOut,
      BackupOk, BackupFailedSkip, BackupFailedGoOn, BackupDone, ResetAnswered, ResetDone,
      UnexpectedReply, RestoreOk, RestoreDone, RestoreFailed, UndoResetDone, UndoRestoreAnswered,
      UndoDone, CallPhase, Idle, Answered
<1>4. pc[r] = "license" => LicenseGranted(r) \/ LicenseRefused(r)
  BY <1>2
  DEF WorkerStep, Reject, IntegrityCheckFailed, Accept,
      SkipUnknownGroup, MissingFeature, BeginItem, AllItemsDone, Reply, SendQuery, GiveUp, TimeOut,
      BackupOk, BackupFailedSkip, BackupFailedGoOn, BackupDone, ResetAnswered, ResetDone,
      UnexpectedReply, RestoreOk, RestoreDone, RestoreFailed, UndoResetDone, UndoRestoreAnswered,
      UndoDone, CallPhase, Idle, Answered
<1>5. pc[r] = "license" => pc'[r] \in {"decode", "reply"}
  BY <1>1, <1>4 DEF LicenseGranted, LicenseRefused, Abort, Goto, RestoreTypeOK
<1>. QED BY <1>3, <1>5

-----------------------------------------------------------------------------
(* The theorems. *)

(* What the threads take for restored or rolled back, in however many requests  *)
(* on whatever tables, is what the agents hold.                               *)
THEOREM Agreement == Reporting => (Spec => []AInv)
<1> SUFFICES ASSUME Reporting PROVE Spec => []AInv
  OBVIOUS
<1>. QED BY InvAgreed, InitRestoreInv, StepKeepsRestoreInv, PTL DEF Spec

(* An item reported SUCCESS holds what the payload carries for it, as long as   *)
(* no other request writes the feature.                                       *)
THEOREM RestoredHolds == Reporting => (Spec => []SuccessMeansRestored)
<1> SUFFICES ASSUME Reporting PROVE Spec => []SuccessMeansRestored
  OBVIOUS
<1>. QED BY InvRestored, InitRestoreInv, StepKeepsRestoreInv, PTL DEF Spec

(* Requests for the same features that all succeed leave one of their           *)
(* configurations behind, whatever the order in which the agents were reached.  *)
THEOREM RestoresCompose == Reporting => (Spec => []SuccessfulRestoresCompose)
<1> SUFFICES ASSUME Reporting PROVE Spec => []SuccessfulRestoresCompose
  OBVIOUS
<1>. QED BY InvComposed, InitRestoreInv, StepKeepsRestoreInv, PTL DEF Spec

(* An item reported FAILED and left is as it was, but for what the log names.    *)
THEOREM RolledBack == Reporting => (Spec => []FailedMeansRolledBack)
<1> SUFFICES ASSUME Reporting PROVE Spec => []FailedMeansRolledBack
  OBVIOUS
<1>. QED BY InvRolledBack, InitRestoreInv, StepKeepsRestoreInv, PTL DEF Spec

(* When the restore of a feature is under way, those it depends on are in place, *)
(* in the restore and in the roll-back.                                       *)
THEOREM DependenciesHold == Reporting => (Spec => []DependenciesFirst)
<1> SUFFICES ASSUME Reporting PROVE Spec => []DependenciesFirst
  OBVIOUS
<1>. QED BY InvDependencies, InitRestoreInv, StepKeepsRestoreInv, PTL DEF Spec
=============================================================================
