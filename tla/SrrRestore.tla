----------------------------- MODULE SrrRestore ----------------------------
(***************************************************************************)
(* SrrWorker::requestRestore with saveFeature, resetFeature, restoreFeature  *)
(* and rollback (fty_srr_worker.cc), one thread per request, all of them     *)
(* sharing the agents of module SrrAgents.                                   *)
(*                                                                           *)
(* A payload is a sequence of items: groups in versions 2.0 and 2.1, single  *)
(* features in version 1.0.  The thread walks the items in order; for each   *)
(* it saves the present configuration, resets the features in decreasing     *)
(* priority, restores them in increasing priority and, when a restore fails, *)
(* rolls the item back to what was saved.  todo holds the features the       *)
(* current loop has not reached yet.                                         *)
(***************************************************************************)
EXTENDS SrrAgents

CONSTANTS
  Restores,        \* the threads serving a restore request
  Payload,         \* the requests that may arrive
  EnableReboot     \* the configuration parameter enableReboot

GroupVersion == {"2.0", "2.1"}
ItemId == Group \cup StrayGroup \cup Name
Item == [id : ItemId, features : SUBSET Name, intact : BOOLEAN]
License == {"granted", "refused", "unavailable", "blank"}
ItemOutcome == {"SUCCESS", "FAILED"}
Status == ItemOutcome \cup {"PARTIAL_SUCCESS", "UNKNOWN"}

(* An entry of m_status_list: the item, what the thread itself has made of it  *)
(* (FAILED with an error it has logged), and the m_status the response shows.  *)
ListEntry == [name : ItemId, outcome : ItemOutcome, status : Status]

(* The shape of a request: what requestRestore tells apart in it and in the   *)
(* answer of the licensing agent.  A version 1.0 item is one feature, named   *)
(* by its id; an item appears once.                                           *)
ASSUME PayloadAssumption ==
  /\ Restores \subseteq Thread
  /\ EnableReboot \in BOOLEAN
  /\ \A p \in Payload :
       /\ p \in [version : STRING, license : License, readable : BOOLEAN,
                 passphraseOk : BOOLEAN, force : BOOLEAN, items : Seq(Item)]
       /\ \A i, j \in DOMAIN p.items : p.items[i].id = p.items[j].id => i = j
       /\ p.version = "1.0" =>
            \A i \in DOMAIN p.items : p.items[i].id \in Name /\ p.items[i].features = {p.items[i].id}
       /\ p.version \in GroupVersion =>
            \A i \in DOMAIN p.items : p.items[i].id \in Group \cup StrayGroup

VARIABLES
  request,         \* the request each thread serves
  pc,              \* where the thread is
  items,           \* the items not finished, the current one first
  todo,            \* the features the current loop has yet to reach
  backup,          \* rollbackSaveResponse: per feature, None when not saved
  statusList,      \* m_status_list
  status,          \* m_status
  allRestored,     \* allFeaturesRestored, allGroupsRestored
  restart,         \* the restart flag
  rebooting,       \* whether the thread has started restartBiosService
  unbacked,        \* features of groups logged "Could not backup", not saved
  unrecoverable    \* features logged "unrecoverable. May be in undefined state"

workerVars == <<request, pc, items, todo, backup, statusList, status,
                allRestored, restart, rebooting, unbacked, unrecoverable>>
vars == <<agentVars, workerVars>>

CallPhase == {"backup", "reset", "restore", "undoReset", "undoRestore"}
Phase == {"license", "decode", "next", "reply", "answered"} \cup CallPhase

RestoreTypeOK ==
  /\ request \in [Restores -> Payload]
  /\ pc \in [Restores -> Phase]
  /\ items \in [Restores -> Seq(Item)]
  /\ todo \in [Restores -> SUBSET Name]
  /\ backup \in [Restores -> [Feature -> Data]]
  /\ statusList \in [Restores -> Seq(ListEntry)]
  /\ status \in [Restores -> Status]
  /\ allRestored \in [Restores -> BOOLEAN]
  /\ restart \in [Restores -> BOOLEAN]
  /\ rebooting \in [Restores -> BOOLEAN]
  /\ unbacked \in [Restores -> SUBSET Name]
  /\ unrecoverable \in [Restores -> SUBSET (Name \cup {None})]

Init ==
  /\ AgentsInit
  /\ request \in [Restores -> Payload]
  /\ pc = [r \in Restores |-> "license"]
  /\ items = [r \in Restores |-> <<>>]
  /\ todo = [r \in Restores |-> {}]
  /\ backup = [r \in Restores |-> [f \in Feature |-> None]]
  /\ statusList = [r \in Restores |-> <<>>]
  /\ status = [r \in Restores |-> "FAILED"]
  /\ allRestored = [r \in Restores |-> TRUE]
  /\ restart = [r \in Restores |-> FALSE]
  /\ rebooting = [r \in Restores |-> FALSE]
  /\ unbacked = [r \in Restores |-> {}]
  /\ unrecoverable = [r \in Restores |-> {}]

-----------------------------------------------------------------------------
(* Helpers. *)

isV1(r) == request[r].version = "1.0"

Current(r) == Head(items[r])

(* The features an item stands for in the tables of this daemon: itself in    *)
(* version 1.0, the m_fp of its group otherwise.                              *)
OwnFeatures(r, id) == IF isV1(r) THEN {id} ELSE FeaturesOf(id)
Owned(r) == OwnFeatures(r, Current(r).id)

(* Mutant: only what the payload carries is rolled back.                      *)
BackedUpInPayload(r) == {f \in Feature \cap Current(r).features : backup[r][f] # None}

(* The features with data for rollback, and those of a loop to be reset.      *)
BackedUp(r) == {f \in Feature : backup[r][f] # None}
Resettable(S) == {f \in S \cap Feature : m_reset[f]}

Goto(r, phase, S) ==
  /\ pc' = [pc EXCEPT ![r] = phase]
  /\ todo' = [todo EXCEPT ![r] = S]

(* Version 1.0 shows the overall status of the agent's reply, which            *)
(* restoreFeature does not look at: anything, when the restore went well.      *)
Said(r, outcome) == IF isV1(r) /\ outcome = "SUCCESS" THEN Status ELSE {outcome}

PushStatus(r, outcome) ==
  \E st \in Said(r, outcome) :
    statusList' = [statusList EXCEPT ![r] =
      Append(@, [name |-> Current(r).id, outcome |-> outcome, status |-> st])]

FinishItem(r) ==
  /\ Goto(r, "next", {})
  /\ items' = [items EXCEPT ![r] = Tail(@)]

(* An exception reaches the outermost handler of requestRestore: whatever the *)
(* thread was doing is left as it is and the request has failed.              *)
Abort(r) ==
  /\ Goto(r, "reply", {})
  /\ status' = [status EXCEPT ![r] = "FAILED"]
  /\ UNCHANGED <<request, items, backup, statusList, allRestored, restart,
                 rebooting, unbacked, unrecoverable>>

-----------------------------------------------------------------------------
(* Entry checks. *)

(* A blank value leaves the variable configurability uninitialized: the       *)
(* caller sees either answer.                                                 *)
LicenseGranted(r) ==
  /\ pc[r] = "license"
  /\ request[r].license \in {"granted", "blank"}
  /\ Goto(r, "decode", {})
  /\ UNCHANGED <<agentVars, request, items, backup, statusList, status, allRestored,
                 restart, rebooting, unbacked, unrecoverable>>

LicenseRefused(r) ==
  /\ pc[r] = "license"
  /\ request[r].license # "granted"
  /\ Abort(r)
  /\ UNCHANGED agentVars

Acceptable(p) ==
  /\ p.readable
  /\ p.version \in GroupVersion \cup {"1.0"}
  /\ p.passphraseOk

Reject(r) ==
  /\ pc[r] = "decode"
  /\ ~Acceptable(request[r])
  /\ Abort(r)
  /\ UNCHANGED agentVars

(* The comparator of the group sort: FALSE as soon as one side is unknown.    *)
RestoredBefore(i, j) ==
  /\ {i.id, j.id} \subseteq Group
  /\ m_restoreOrder[i.id] < m_restoreOrder[j.id]

(* Mutant: the groups are not sorted.                                         *)
AsReceived(s) == {s}

(* The orders std::sort may leave the groups in.  With unknown groups the     *)
(* comparator is no strict weak ordering and the result is undefined; what    *)
(* an insertion sort still ensures is that no two neighbours are inverted.    *)
GroupOrders(s) ==
  LET n == Len(s)
      Perms == {p \in [1..n -> 1..n] : \A j \in 1..n : \E i \in 1..n : p[i] = j}
  IN  {t \in {[i \in 1..n |-> s[p[i]]] : p \in Perms} :
         \A i \in 1..(n - 1) : ~RestoredBefore(t[i+1], t[i])}

(* Mutant: one intact group is enough.                                        *)
SomeIntact(p) == p.force \/ \E i \in DOMAIN p.items : p.items[i].intact

IntegrityOk(p) == p.force \/ \A i \in DOMAIN p.items : p.items[i].intact

IntegrityCheckFailed(r) ==
  /\ pc[r] = "decode"
  /\ Acceptable(request[r]) /\ ~isV1(r)
  /\ ~IntegrityOk(request[r])
  /\ Goto(r, "reply", {})
  /\ status' = [status EXCEPT ![r] = "UNKNOWN"]
  /\ UNCHANGED <<agentVars, request, items, backup, statusList, allRestored, restart,
                 rebooting, unbacked, unrecoverable>>

Accept(r) ==
  /\ pc[r] = "decode"
  /\ Acceptable(request[r])
  /\ \/ isV1(r) /\ items' = [items EXCEPT ![r] = request[r].items]
     \/ /\ ~isV1(r) /\ IntegrityOk(request[r])
        /\ \E s \in GroupOrders(request[r].items) : items' = [items EXCEPT ![r] = s]
  /\ Goto(r, "next", {})
  /\ UNCHANGED <<agentVars, request, backup, statusList, status, allRestored, restart,
                 rebooting, unbacked, unrecoverable>>

-----------------------------------------------------------------------------
(* The loop over the items. *)

Known(r, id) == isV1(r) \/ id \in Group

(* Features of the group the payload lacks although its version requires them. *)
MissingRequired(r) ==
  {f \in Owned(r) \ Current(r).features : request[r].version \in m_requiredIn[f]}

SkipUnknownGroup(r) ==
  /\ pc[r] = "next" /\ items[r] # <<>>
  /\ ~Known(r, Current(r).id)
  /\ PushStatus(r, "FAILED")
  /\ allRestored' = [allRestored EXCEPT ![r] = FALSE]
  /\ FinishItem(r)
  /\ UNCHANGED <<agentVars, request, backup, status, restart, rebooting, unbacked,
                 unrecoverable>>

(* The std::runtime_error of the inner handler is no std::out_of_range: it     *)
(* escapes the handler of the group and ends the request.                     *)
MissingFeature(r) ==
  /\ pc[r] = "next" /\ items[r] # <<>>
  /\ Known(r, Current(r).id) /\ ~isV1(r)
  /\ MissingRequired(r) # {}
  /\ Abort(r)
  /\ UNCHANGED agentVars

BeginItem(r) ==
  /\ pc[r] = "next" /\ items[r] # <<>>
  /\ Known(r, Current(r).id)
  /\ isV1(r) \/ MissingRequired(r) = {}
  /\ backup' = [backup EXCEPT ![r] = [f \in Feature |-> None]]
  /\ Goto(r, "backup", Owned(r))
  /\ UNCHANGED <<agentVars, request, items, statusList, status, allRestored, restart,
                 rebooting, unbacked, unrecoverable>>

(* Mutant: the outcome of the last item decides.                              *)
StatusOfLast(r) ==
  IF statusList[r] = <<>> \/ statusList[r][Len(statusList[r])].outcome = "SUCCESS"
  THEN "SUCCESS" ELSE "PARTIAL_SUCCESS"

OverallStatus(r) == IF allRestored[r] THEN "SUCCESS" ELSE "PARTIAL_SUCCESS"

AllItemsDone(r) ==
  /\ pc[r] = "next" /\ items[r] = <<>>
  /\ status' = [status EXCEPT ![r] = OverallStatus(r)]
  /\ Goto(r, "reply", {})
  /\ UNCHANGED <<agentVars, request, items, backup, statusList, allRestored, restart,
                 rebooting, unbacked, unrecoverable>>

(* Mutant: only a full success reboots.                                       *)
RebootsOnSuccess(r) == restart[r] /\ EnableReboot /\ status[r] = "SUCCESS"

Reboots(r) == restart[r] /\ EnableReboot

(* restartBiosService is started before the response is handed back.          *)
Reply(r) ==
  /\ pc[r] = "reply"
  /\ rebooting' = [rebooting EXCEPT ![r] = Reboots(r)]
  /\ Goto(r, "answered", {})
  /\ UNCHANGED <<agentVars, request, items, backup, statusList, status, allRestored,
                 restart, unbacked, unrecoverable>>

-----------------------------------------------------------------------------
(* saveFeature, resetFeature, restoreFeature: sending the query. *)

(* Mutant: roll-back sends the queries of the restore again.                   *)
RestoreDataAlways(r, f) ==
  IF pc[r] \in {"restore", "undoRestore"} /\ f \in Owned(r) THEN r ELSE None

(* Mutant: queries are prepared for the features the version requires only.    *)
RequiredDataOnly(r, f) ==
  CASE pc[r] = "restore"     -> IF f \in Owned(r) /\ request[r].version \in m_requiredIn[f]
                                THEN r ELSE None
    [] pc[r] = "undoRestore" -> backup[r][f]
    [] OTHER                 -> None

(* restoreQueriesMap[featureName]: an empty query for a feature of the payload *)
(* that does not belong to the group.                                         *)
QueryData(r, f) ==
  CASE pc[r] = "restore"     -> IF f \in Owned(r) THEN r ELSE None
    [] pc[r] = "undoRestore" -> backup[r][f]
    [] OTHER                 -> None

SendQuery(r) ==
  /\ pc[r] \in CallPhase
  /\ Idle(r)
  /\ LET reset == pc[r] \in {"reset", "undoReset"}
         op == CASE pc[r] = "backup" -> "save" [] reset -> "reset" [] OTHER -> "restore"
     IN  \E f \in IF reset THEN Highest(todo[r]) ELSE Lowest(todo[r]) :
           Call(r, op, f, QueryData(r, f))
  /\ UNCHANGED workerVars

(* The loop goes on with the feature after the one just answered.             *)
Advance(r) ==
  /\ Consume(r)
  /\ todo' = [todo EXCEPT ![r] = @ \ {answer[r].feature}]
  /\ UNCHANGED pc

-----------------------------------------------------------------------------
(* Saving the present configuration. *)

BackupOk(r) ==
  /\ pc[r] = "backup" /\ Succeeded(r)
  /\ backup' = [backup EXCEPT ![r][answer[r].feature] = answer[r].data]
  /\ Advance(r)
  /\ UNCHANGED <<request, items, statusList, status, allRestored, restart, rebooting,
                 unbacked, unrecoverable>>

(* Version 1.0: the feature is skipped, with status FAILED.                   *)
BackupFailedSkip(r) ==
  /\ pc[r] = "backup" /\ Answered(r) /\ ~Succeeded(r)
  /\ isV1(r)
  /\ PushStatus(r, "FAILED")
  /\ allRestored' = [allRestored EXCEPT ![r] = FALSE]
  /\ FinishItem(r)
  /\ Consume(r)
  /\ UNCHANGED <<request, backup, status, restart, rebooting, unbacked, unrecoverable>>

(* Later versions: saving stops, and the group is reset and restored all the  *)
(* same, with what was saved so far to roll back to.                          *)
BackupFailedGoOn(r) ==
  /\ pc[r] = "backup" /\ Answered(r) /\ ~Succeeded(r)
  /\ ~isV1(r)
  /\ unbacked' = [unbacked EXCEPT ![r] = @ \cup todo[r]]
  /\ Goto(r, "reset", Resettable(Owned(r)))
  /\ Consume(r)
  /\ UNCHANGED <<request, items, backup, statusList, status, allRestored, restart,
                 rebooting, unrecoverable>>

BackupDone(r) ==
  /\ pc[r] = "backup" /\ todo[r] = {}
  /\ Goto(r, "reset", Resettable(Owned(r)))
  /\ UNCHANGED <<agentVars, request, items, backup, statusList, status, allRestored,
                 restart, rebooting, unbacked, unrecoverable>>

-----------------------------------------------------------------------------
(* Resetting, before the restore and as the first half of rollback().          *)

(* A failed reset is only logged.                                             *)
ResetAnswered(r) ==
  /\ pc[r] \in {"reset", "undoReset"}
  /\ Succeeded(r) \/ Failed(r)
  /\ Advance(r)
  /\ UNCHANGED <<request, items, backup, statusList, status, allRestored, restart,
                 rebooting, unbacked, unrecoverable>>

(* The payload's own list of features is walked, not the group's.              *)
ResetDone(r) ==
  /\ pc[r] = "reset" /\ todo[r] = {}
  /\ Goto(r, "restore", Current(r).features)
  /\ UNCHANGED <<agentVars, request, items, backup, statusList, status, allRestored,
                 restart, rebooting, unbacked, unrecoverable>>

(* A reply without the metadata sendRequest logs, or one that cannot be        *)
(* decoded, throws an exception that the handlers around a reset, around a     *)
(* version 1.0 restore and in rollback() do not name.                          *)
UnexpectedReply(r) ==
  /\ answer[r].kind = "malformed"
  /\ \/ pc[r] \in {"reset", "undoReset", "undoRestore"}
     \/ pc[r] = "restore" /\ isV1(r)
  /\ Abort(r)
  /\ Consume(r)

-----------------------------------------------------------------------------
(* Restoring. *)

(* Mutant: the statuses in the reply are not looked at.                       *)
RestoreUnchecked(r) == Succeeded(r) \/ answer[r].kind = "failed"

RestoreSucceeded(r) == Succeeded(r)

(* Only the later versions keep the restart flag here.                        *)
RestoreOk(r) ==
  /\ pc[r] = "restore" /\ RestoreSucceeded(r)
  /\ restart' = [restart EXCEPT ![r] = @ \/ (~isV1(r) /\ m_restart[answer[r].feature])]
  /\ Advance(r)
  /\ UNCHANGED <<request, items, backup, statusList, status, allRestored, rebooting,
                 unbacked, unrecoverable>>

RestoreDone(r) ==
  /\ pc[r] = "restore" /\ todo[r] = {}
  /\ PushStatus(r, "SUCCESS")
  /\ FinishItem(r)
  /\ UNCHANGED <<agentVars, request, backup, status, allRestored, restart, rebooting,
                 unbacked, unrecoverable>>

(* Version 1.0 reports the failure before it rolls back, the others after.     *)
RestoreFailed(r) ==
  /\ pc[r] = "restore" /\ Answered(r) /\ ~RestoreSucceeded(r)
  /\ isV1(r) => Failed(r)
  /\ allRestored' = [allRestored EXCEPT ![r] = FALSE]
  /\ IF isV1(r) THEN PushStatus(r, "FAILED") ELSE UNCHANGED statusList
  /\ Goto(r, "undoReset", Resettable(BackedUp(r)))
  /\ Consume(r)
  /\ UNCHANGED <<request, items, backup, status, restart, rebooting, unbacked,
                 unrecoverable>>

-----------------------------------------------------------------------------
(* rollback(): the second half. *)

UndoResetDone(r) ==
  /\ pc[r] = "undoReset" /\ todo[r] = {}
  /\ Goto(r, "undoRestore", BackedUp(r))
  /\ UNCHANGED <<agentVars, request, items, backup, statusList, status, allRestored,
                 restart, rebooting, unbacked, unrecoverable>>

UndoRestoreAnswered(r) ==
  /\ pc[r] = "undoRestore"
  /\ Succeeded(r) \/ Failed(r)
  /\ unrecoverable' = [unrecoverable EXCEPT ![r] =
       IF Failed(r) THEN @ \cup {answer[r].feature} ELSE @]
  /\ Advance(r)
  /\ UNCHANGED <<request, items, backup, statusList, status, allRestored, restart,
                 rebooting, unbacked>>

(* rollback() returns its own restart flag: it is lost when an exception       *)
(* leaves it.                                                                 *)
UndoDone(r) ==
  /\ pc[r] = "undoRestore" /\ todo[r] = {}
  /\ restart' = [restart EXCEPT ![r] = @ \/ \E f \in BackedUp(r) : m_restart[f]]
  /\ IF isV1(r) THEN UNCHANGED statusList ELSE PushStatus(r, "FAILED")
  /\ FinishItem(r)
  /\ UNCHANGED <<agentVars, request, backup, status, allRestored, rebooting, unbacked,
                 unrecoverable>>

-----------------------------------------------------------------------------
(* The system. *)

(* Mutant: the request of saveFeature has no time-out.                        *)
GiveUpUnlessSaving(r) == pc[r] # "backup" /\ TimeOut(r) /\ UNCHANGED workerVars

GiveUp(r) == TimeOut(r) /\ UNCHANGED workerVars

WorkerStep(r) ==
  \/ LicenseGranted(r) \/ LicenseRefused(r)
  \/ Reject(r) \/ IntegrityCheckFailed(r) \/ Accept(r)
  \/ SkipUnknownGroup(r) \/ MissingFeature(r) \/ BeginItem(r) \/ AllItemsDone(r)
  \/ Reply(r)
  \/ SendQuery(r) \/ GiveUp(r)
  \/ BackupOk(r) \/ BackupFailedSkip(r) \/ BackupFailedGoOn(r) \/ BackupDone(r)
  \/ ResetAnswered(r) \/ ResetDone(r) \/ UnexpectedReply(r)
  \/ RestoreOk(r) \/ RestoreDone(r) \/ RestoreFailed(r)
  \/ UndoResetDone(r) \/ UndoRestoreAnswered(r) \/ UndoDone(r)

AgentStep(a) == \E kind \in ReplyKind : Serve(a, kind) /\ UNCHANGED workerVars

(* No request is left and every mailbox is empty.                             *)
AllServed ==
  /\ \A r \in Restores : pc[r] = "answered"
  /\ \A a \in Agent : queue[a] = <<>>
  /\ UNCHANGED vars

Next ==
  \/ \E r \in Restores : WorkerStep(r)
  \/ \E a \in Agent : AgentStep(a)
  \/ AllServed

Spec == Init /\ [][Next]_vars

(* A thread goes on while it can, and request() returns: with a reply or with  *)
(* the time-out.  Nothing is assumed of the agents.                           *)
FairSpec == Spec /\ \A r \in Restores : WF_vars(WorkerStep(r))
=============================================================================
