---------------------------- MODULE SrrLoopProofs ---------------------------
(***************************************************************************)
(* The first half of the invariant AInv: replies are matched with the calls  *)
(* they answer, a call is about a feature its loop has yet to do, every loop  *)
(* stays within the item it is about, and an item is reported once.          *)
(***************************************************************************)
EXTENDS SrrRestoreInvariants, SrrRestoreProofs, FiniteSetTheorems, WellFoundedInduction

-----------------------------------------------------------------------------
(* How a step of a thread touches the mailboxes.                              *)

LEMMA WorkerTouch ==
  ASSUME NEW r \in Restores, WorkerStep(r)
  PROVE  \/ SendQuery(r) \/ GiveUp(r)
         \/ Answered(r) /\ Consume(r)
         \/ UNCHANGED agentVars /\ (pc[r] \in {"license", "decode", "next", "reply"} \/ todo[r] = {})
<1>1. Succeeded(r) \/ Failed(r) \/ answer[r].kind = "malformed" => Answered(r)
  BY DEF Succeeded, Failed, Answered
<1>. QED
  BY <1>1
  DEF WorkerStep, LicenseGranted, LicenseRefused, Reject, IntegrityCheckFailed, Accept,
      SkipUnknownGroup, MissingFeature, BeginItem, AllItemsDone, Reply, BackupOk,
      BackupFailedSkip, BackupFailedGoOn, BackupDone, ResetAnswered, ResetDone,
      UnexpectedReply, RestoreOk, RestoreSucceeded, RestoreDone, RestoreFailed, UndoResetDone,
      UndoRestoreAnswered, UndoDone, Advance

(* The query a loop sends is about one of its features.                       *)
LEMMA QueryOfLoop ==
  ASSUME RestoreTypeOK, NEW r \in Restores, SendQuery(r)
  PROVE  \E f \in todo[r] :
           /\ f \in Name /\ OpOf(r) \in Op
           /\ f \in Feature => QueryData(r, f) \in Data
           /\ pc[r] \in {"restore", "undoRestore"} => f \in Lowest(todo[r])
           /\ Call(r, OpOf(r), f, QueryData(r, f))
<1> DEFINE reset == pc[r] \in {"reset", "undoReset"}
           op == CASE pc[r] = "backup" -> "save" [] reset -> "reset" [] OTHER -> "restore"
<1>1. PICK f \in IF reset THEN Highest(todo[r]) ELSE Lowest(todo[r]) :
        Call(r, op, f, QueryData(r, f))
  BY DEF SendQuery
<1>2. op = OpOf(r) /\ OpOf(r) \in Op
  BY DEF OpOf, Op
<1>3. f \in todo[r] /\ f \in Name
  BY <1>1 DEF Highest, Lowest, RestoreTypeOK
<1>4. f \in Feature => QueryData(r, f) \in Data
  BY PayloadAssumption, NoNoneAmongConfigurations DEF QueryData, RestoreTypeOK, Data
<1>5. pc[r] \in {"restore", "undoRestore"} => f \in Lowest(todo[r])
  BY <1>1
<1> HIDE DEF op
<1>. QED BY <1>1, <1>2, <1>3, <1>4, <1>5

LEMMA WorkerStepKeepsOrder ==
  ASSUME TypeOK, InOrder, NEW r \in Restores, WorkerStep(r)
  PROVE  InOrder'
<1>a. AgentsTypeOK /\ RestoreTypeOK /\ r \in Thread
  BY PayloadAssumption DEF TypeOK
<1>1. CASE SendQuery(r)
  <2>1. Idle(r)
    BY <1>1 DEF SendQuery
  <2>. QED BY <1>1, <1>a, <2>1, QueryOfLoop, CallKeepsOrder
<1>2. CASE GiveUp(r)
  BY <1>2, <1>a, TimeOutKeepsOrder DEF GiveUp
<1>3. CASE Answered(r) /\ Consume(r)
  BY <1>3, <1>a, ConsumeKeepsOrder
<1>4. CASE UNCHANGED agentVars
  BY <1>4 DEF agentVars, InOrder, MailboxesInOrder, CallsPosted
<1>. QED BY <1>1, <1>2, <1>3, <1>4, WorkerTouch

LEMMA StepKeepsOrder ==
  ASSUME TypeOK, InOrder, [Next]_vars
  PROVE  InOrder'
<1>1. ASSUME NEW r \in Restores, WorkerStep(r) PROVE InOrder'
  BY <1>1, WorkerStepKeepsOrder
<1>2. ASSUME NEW a \in Agent, AgentStep(a) PROVE InOrder'
  BY <1>2, ServeKeepsOrder DEF AgentStep, TypeOK
<1>3. CASE UNCHANGED vars
  BY <1>3 DEF vars, agentVars, InOrder, MailboxesInOrder, CallsPosted
<1>. QED BY <1>1, <1>2, <1>3 DEF Next, AllServed

LEMMA InitOrder == Init => InOrder
BY DEF Init, AgentsInit, NoAnswer, InOrder, MailboxesInOrder, CallsPosted

LEMMA OrderMatchesReplies ==
  ASSUME TypeOK, InOrder
  PROVE  CorrelatedReply
<1> SUFFICES ASSUME NEW r \in Restores
             PROVE  /\ Idle(r) \/ Answered(r) => AwaitedBy(r) = {}
                    /\ answer[r].kind = "pending" =>
                         \E w \in AwaitedBy(r) :
                           /\ AwaitedBy(r) = {w}
                           /\ queue[w[1]][w[2]].feature = answer[r].feature
                           /\ w[1] = m_agent[answer[r].feature]
  BY DEF CorrelatedReply
<1>a. AgentsTypeOK /\ r \in Thread
  BY PayloadAssumption DEF TypeOK
<1>1. \A w : w \in AwaitedBy(r) <=>
        \E a \in Agent : \E i \in DOMAIN queue[a] :
          w = <<a, i>> /\ queue[a][i].from = r /\ queue[a][i].awaited
  BY DEF AwaitedBy
<1>2. ASSUME Idle(r) \/ Answered(r) PROVE AwaitedBy(r) = {}
  BY <1>1, <1>2 DEF InOrder, MailboxesInOrder, Idle, Answered
<1>3. ASSUME answer[r].kind = "pending"
      PROVE  \E w \in AwaitedBy(r) :
               /\ AwaitedBy(r) = {w}
               /\ queue[w[1]][w[2]].feature = answer[r].feature
               /\ w[1] = m_agent[answer[r].feature]
  <2> DEFINE a == m_agent[answer[r].feature]
  <2>1. a \in Agent
    BY <1>3, <1>a, TablesAssumption DEF InOrder, CallsPosted
  <2>2. PICK i \in DOMAIN queue[a] : queue[a][i].from = r /\ queue[a][i].awaited
    BY <1>3, <1>a DEF InOrder, CallsPosted
  <2>3. queue[a][i].feature = answer[r].feature
    BY <2>1, <2>2 DEF InOrder, MailboxesInOrder
  <2>4. <<a, i>> \in AwaitedBy(r)
    BY <1>1, <2>1, <2>2
  <2>5. ASSUME NEW w \in AwaitedBy(r) PROVE w = <<a, i>>
    <3>1. PICK b \in Agent :
            \E j \in DOMAIN queue[b] : w = <<b, j>> /\ queue[b][j].from = r /\ queue[b][j].awaited
      BY <1>1, <2>5
    <3>2. PICK j \in DOMAIN queue[b] :
            w = <<b, j>> /\ queue[b][j].from = r /\ queue[b][j].awaited
      BY <3>1
    <3>3. a = b /\ i = j
      BY <1>a, <2>1, <2>2, <3>2, OnlyOneAwaited
    <3>. QED BY <3>2, <3>3
  <2> HIDE DEF a
  <2>6. AwaitedBy(r) = {<<a, i>>}
    BY <2>4, <2>5
  <2>7. <<a, i>>[1] = a /\ <<a, i>>[2] = i
    OBVIOUS
  <2>8. queue[<<a, i>>[1]][<<a, i>>[2]].feature = answer[r].feature
    BY <2>3, <2>7
  <2>. QED BY <2>4, <2>6, <2>7, <2>8 DEF a
<1>. QED BY <1>2, <1>3

(* sendRequest never takes the reply to one call for the answer to another,    *)
(* whatever timed out before and whatever is still in the mailboxes.           *)
THEOREM Correlation == Spec => []CorrelatedReply
<1>1. TypeOK /\ InOrder /\ [Next]_vars => InOrder'
  BY StepKeepsOrder
<1>2. TypeOK /\ InOrder => CorrelatedReply
  BY OrderMatchesReplies
<1>. QED BY <1>1, <1>2, InitOrder, TypeCorrect, PTL DEF Spec
-----------------------------------------------------------------------------
(* What a step leaves alone.                                                  *)

Bystander(q) ==
  /\ request'[q] = request[q] /\ pc'[q] = pc[q] /\ items'[q] = items[q]
  /\ todo'[q] = todo[q] /\ backup'[q] = backup[q] /\ statusList'[q] = statusList[q]
  /\ restart'[q] = restart[q] /\ rebooting'[q] = rebooting[q]
  /\ unbacked'[q] = unbacked[q] /\ unrecoverable'[q] = unrecoverable[q]

LEMMA RequestKept ==
  ASSUME NEW r \in Restores, WorkerStep(r)
  PROVE  request' = request
BY DEF WorkerStep, LicenseGranted, LicenseRefused, Reject, IntegrityCheckFailed, Accept,
       SkipUnknownGroup, MissingFeature, BeginItem, AllItemsDone, Reply, SendQuery, GiveUp,
       BackupOk, BackupFailedSkip, BackupFailedGoOn, BackupDone, ResetAnswered, ResetDone,
       UnexpectedReply, RestoreOk, RestoreDone, RestoreFailed, UndoResetDone,
       UndoRestoreAnswered, UndoDone, Abort, workerVars

LEMMA OthersStandBy ==
  ASSUME RestoreTypeOK, NEW r \in Restores, WorkerStep(r), NEW q \in Restores \ {r}
  PROVE  Bystander(q)
<1>0. Untouched(q)
  BY OthersUntouched
<1> USE DEF RestoreTypeOK, Goto, FinishItem, Abort, Advance
<1> SUFFICES /\ todo'[q] = todo[q] /\ backup'[q] = backup[q]
             /\ unbacked'[q] = unbacked[q] /\ unrecoverable'[q] = unrecoverable[q]
  BY <1>0 DEF Untouched, Bystander
<1>1. CASE LicenseGranted(r) \/ LicenseRefused(r) \/ Reject(r) \/ IntegrityCheckFailed(r)
  BY <1>1 DEF LicenseGranted, LicenseRefused, Reject, IntegrityCheckFailed
<1>2. CASE Accept(r)
  BY <1>2 DEF Accept
<1>3. CASE SkipUnknownGroup(r) \/ MissingFeature(r) \/ BeginItem(r) \/ AllItemsDone(r) \/ Reply(r)
  BY <1>3 DEF SkipUnknownGroup, MissingFeature, BeginItem, AllItemsDone, Reply
<1>4. CASE SendQuery(r) \/ GiveUp(r)
  BY <1>4 DEF SendQuery, GiveUp, workerVars
<1>5. CASE BackupOk(r) \/ BackupFailedSkip(r) \/ BackupFailedGoOn(r) \/ BackupDone(r)
  BY <1>5 DEF BackupOk, BackupFailedSkip, BackupFailedGoOn, BackupDone
<1>6. CASE ResetAnswered(r) \/ ResetDone(r) \/ UnexpectedReply(r)
  BY <1>6 DEF ResetAnswered, ResetDone, UnexpectedReply
<1>7. CASE RestoreOk(r) \/ RestoreDone(r) \/ RestoreFailed(r)
  BY <1>7 DEF RestoreOk, RestoreDone, RestoreFailed
<1>8. CASE UndoResetDone(r) \/ UndoRestoreAnswered(r) \/ UndoDone(r)
  BY <1>8 DEF UndoResetDone, UndoRestoreAnswered, UndoDone
<1>. QED BY <1>1, <1>2, <1>3, <1>4, <1>5, <1>6, <1>7, <1>8 DEF WorkerStep

(* A thread sends mail of its own only, and only when it sends a query.         *)
LEMMA MailOfWorkerStep ==
  ASSUME TypeOK, NEW r \in Restores, WorkerStep(r), NEW q \in Thread
  PROVE  /\ q # r => NoNewMail(q) /\ answer'[q] = answer[q]
         /\ NoNewMail(q) \/ SendQuery(r)
         /\ store' = store
<1>a. AgentsTypeOK /\ RestoreTypeOK /\ r \in Thread
  BY PayloadAssumption DEF TypeOK
<1>1. CASE SendQuery(r)
  <2>1. PICK f \in todo[r] :
          /\ f \in Name /\ OpOf(r) \in Op
          /\ f \in Feature => QueryData(r, f) \in Data
          /\ Call(r, OpOf(r), f, QueryData(r, f))
    BY <1>1, <1>a, QueryOfLoop
  <2>2. store' = store
    BY <2>1 DEF Call
  <2>3. q # r => NoNewMail(q) /\ answer'[q] = answer[q]
    BY <1>a, <2>1, CallSendsForItself
  <2>. QED BY <1>1, <2>2, <2>3
<1>2. CASE GiveUp(r)
  BY <1>2, <1>a, TimeOutSendsNothing DEF GiveUp, TimeOut
<1>3. CASE Answered(r) /\ Consume(r)
  BY <1>3, <1>a, ConsumeSendsNothing DEF Consume
<1>4. CASE UNCHANGED agentVars
  BY <1>4 DEF agentVars, NoNewMail, SameLetter
<1>. QED BY <1>1, <1>2, <1>3, <1>4, WorkerTouch

(* After any other step than a call or a time-out, the thread has no call out. *)
LEMMA IdleAfterStep ==
  ASSUME TypeOK, NEW r \in Restores, WorkerStep(r), CallOfLoop(r), ItemsFromRequest(r)
  PROVE  SendQuery(r) \/ GiveUp(r) \/ Idle(r)'
<1>a. AgentsTypeOK /\ r \in Thread
  BY PayloadAssumption DEF TypeOK
<1>1. CASE Answered(r) /\ Consume(r)
  BY <1>1, <1>a, ConsumeSendsNothing DEF Idle
<1>2. CASE UNCHANGED agentVars /\ (pc[r] \in {"license", "decode", "next", "reply"} \/ todo[r] = {})
  BY <1>2 DEF CallOfLoop, agentVars, Idle, CallPhase
<1>. QED BY <1>1, <1>2, WorkerTouch
-----------------------------------------------------------------------------
(* A call is about a feature its loop has yet to do.                          *)

LEMMA SameLoop ==
  ASSUME NEW q \in Restores, Bystander(q)
  PROVE  /\ isV1(q)' = isV1(q) /\ Requested(q)' = Requested(q) /\ Current(q)' = Current(q)
         /\ Owned(q)' = Owned(q) /\ BackedUp(q)' = BackedUp(q) /\ OpOf(q)' = OpOf(q)
         /\ MissingRequired(q)' = MissingRequired(q)
         /\ \A f : QueryData(q, f)' = QueryData(q, f)
<1>1. isV1(q)' = isV1(q) /\ Requested(q)' = Requested(q) /\ Current(q)' = Current(q)
      /\ BackedUp(q)' = BackedUp(q) /\ OpOf(q)' = OpOf(q)
  BY DEF Bystander, isV1, Requested, Current, BackedUp, OpOf
<1>2. Owned(q)' = Owned(q)
  BY <1>1 DEF Owned, OwnFeatures
<1>. QED BY <1>1, <1>2 DEF Bystander, MissingRequired, QueryData

LEMMA CallStands ==
  ASSUME NEW q \in Restores, CallOfLoop(q), Bystander(q), NoNewMail(q), answer'[q] = answer[q]
  PROVE  CallOfLoop(q)'
<1>1. /\ OpOf(q)' = OpOf(q) /\ pc'[q] = pc[q] /\ todo'[q] = todo[q]
      /\ \A f : QueryData(q, f)' = QueryData(q, f)
  BY SameLoop DEF Bystander
<1>2. Lowest(todo[q])' = Lowest(todo[q])
  BY <1>1 DEF Lowest
<1>3. ASSUME NEW a \in Agent, NEW i \in DOMAIN queue'[a],
             queue'[a][i].from = q, queue'[a][i].awaited
      PROVE  queue'[a][i].op = OpOf(q) /\ queue'[a][i].data = QueryData(q, queue'[a][i].feature)
  <2>1. PICK j \in DOMAIN queue[a] : SameLetter(queue[a][j], queue'[a][i])
    BY <1>3 DEF NoNewMail
  <2>. QED BY <1>3, <2>1 DEF SameLetter, CallOfLoop
<1>. QED BY <1>1, <1>2, <1>3 DEF CallOfLoop, Idle

LEMMA NoCallNoDuty ==
  ASSUME NEW q \in Restores, InOrder', Idle(q)'
  PROVE  CallOfLoop(q)'
BY DEF CallOfLoop, Idle, InOrder, MailboxesInOrder

LEMMA SendQueryKeepsCall ==
  ASSUME TypeOK, InOrder, NEW r \in Restores, SendQuery(r)
  PROVE  CallOfLoop(r)'
<1>a. AgentsTypeOK /\ RestoreTypeOK /\ r \in Thread
  BY PayloadAssumption DEF TypeOK
<1>b. Bystander(r) /\ pc[r] \in CallPhase /\ Idle(r)
  BY DEF SendQuery, workerVars, Bystander
<1>1. PICK f \in todo[r] :
        /\ f \in Name /\ OpOf(r) \in Op
        /\ f \in Feature => QueryData(r, f) \in Data
        /\ pc[r] \in {"restore", "undoRestore"} => f \in Lowest(todo[r])
        /\ Call(r, OpOf(r), f, QueryData(r, f))
  BY <1>a, QueryOfLoop
<1>2. answer'[r].kind \in {"pending", "unreachable"} /\ answer'[r].feature = f
  BY <1>a, <1>1 DEF Call, AgentsTypeOK
<1>3. /\ OpOf(r)' = OpOf(r) /\ \A g : QueryData(r, g)' = QueryData(r, g)
      /\ pc'[r] = pc[r] /\ todo'[r] = todo[r]
  BY <1>b, SameLoop DEF Bystander
<1>4. Lowest(todo[r])' = Lowest(todo[r])
  BY <1>3 DEF Lowest
<1>5. ASSUME NEW a \in Agent, NEW i \in DOMAIN queue'[a],
             queue'[a][i].from = r, queue'[a][i].awaited
      PROVE  queue'[a][i].op = OpOf(r) /\ queue'[a][i].data = QueryData(r, queue'[a][i].feature)
  <2>1. ASSUME i \in DOMAIN queue[a], queue'[a][i] = queue[a][i] PROVE FALSE
    BY <1>5, <1>b, <2>1 DEF InOrder, MailboxesInOrder, Idle
  <2>2. CASE f \in Feature
    <3>1. CallDoes(r, OpOf(r), f, QueryData(r, f))
      BY <1>a, <1>1, <2>2, CallEffect
    <3>2. queue'[a][i] = Sent(r, OpOf(r), f, QueryData(r, f))
      BY <2>1, <3>1 DEF CallDoes
    <3>. QED BY <3>2 DEF Sent
  <2>3. CASE f \notin Feature
    BY <1>1, <2>1, <2>3 DEF Call
  <2>. QED BY <2>2, <2>3
<1>. QED BY <1>b, <1>1, <1>2, <1>3, <1>4, <1>5 DEF CallOfLoop, Idle

LEMMA GiveUpKeepsCall ==
  ASSUME TypeOK, InOrder', NEW r \in Restores, CallOfLoop(r), GiveUp(r)
  PROVE  CallOfLoop(r)'
<1>1. AgentsTypeOK /\ r \in Thread
  BY PayloadAssumption DEF TypeOK
<1>2. answer'[r].kind = "timeout" /\ answer'[r].feature = answer[r].feature /\ ~Idle(r)
  BY <1>1 DEF GiveUp, TimeOut, AgentsTypeOK, Idle, Answer
<1>3. pc'[r] = pc[r] /\ todo'[r] = todo[r]
  BY DEF GiveUp, workerVars
<1>4. Lowest(todo[r])' = Lowest(todo[r])
  BY <1>3 DEF Lowest
<1>. QED BY <1>2, <1>3, <1>4 DEF CallOfLoop, Idle, InOrder, MailboxesInOrder

LEMMA WorkerStepKeepsCalls ==
  ASSUME TypeOK, InOrder, NEW r \in Restores, ItemsFromRequest(r), WorkerStep(r),
         \A q \in Restores : CallOfLoop(q), NEW q \in Restores
  PROVE  CallOfLoop(q)'
<1>a. InOrder' /\ RestoreTypeOK /\ q \in Thread
  BY WorkerStepKeepsOrder, PayloadAssumption DEF TypeOK
<1>1. CASE q = r
  BY <1>1, <1>a, IdleAfterStep, NoCallNoDuty, SendQueryKeepsCall, GiveUpKeepsCall
<1>2. CASE q # r
  <2>1. Bystander(q) /\ NoNewMail(q) /\ answer'[q] = answer[q]
    BY <1>2, <1>a, OthersStandBy, MailOfWorkerStep
  <2>. QED BY <2>1, CallStands
<1>. QED BY <1>1, <1>2

LEMMA ServeKeepsCalls ==
  ASSUME Reporting, TypeOK, InOrder, NEW a \in Agent, NEW kind \in ReplyKind,
         Serve(a, kind), UNCHANGED workerVars, NEW q \in Restores, CallOfLoop(q)
  PROVE  CallOfLoop(q)'
<1>a. AgentsTypeOK /\ q \in Thread /\ Bystander(q)
  BY PayloadAssumption DEF TypeOK, workerVars, Bystander
<1>b. ServeDoes(a, kind) /\ InOrder' /\ NoNewMail(q)
  BY <1>a, ServeEffect, ServeKeepsOrder, ServeSendsNothing
<1> DEFINE m == queue[a][1]
<1>1. CASE q # m.from \/ ~m.awaited
  <2>1. answer'[q] = answer[q]
    BY <1>1, <1>a, <1>b DEF ServeDoes
  <2>. QED BY <1>a, <1>b, <2>1, CallStands
<1>2. CASE q = m.from /\ m.awaited
  <2>1. answer'[q].kind = kind /\ answer'[q].feature = answer[q].feature
    BY <1>2, <1>b DEF ServeDoes
  <2>2. kind \notin {"empty", "pending", "none"}
    BY AgentsAssumption DEF Reporting, AnyReply
  <2>3. ~Idle(q)
    BY <1>2, <1>b DEF ServeDoes, InOrder, MailboxesInOrder, Idle
  <2>4. pc'[q] = pc[q] /\ todo'[q] = todo[q]
    BY <1>a DEF Bystander
  <2>5. Lowest(todo[q])' = Lowest(todo[q])
    BY <2>4 DEF Lowest
  <2>. QED BY <1>b, <2>1, <2>2, <2>3, <2>4, <2>5 DEF CallOfLoop, Idle, InOrder, MailboxesInOrder
<1>. QED BY <1>1, <1>2
-----------------------------------------------------------------------------
(* A loop stays within the features of the item it is about.                  *)

LEMMA BoundsStand ==
  ASSUME NEW q \in Restores, LoopBounds(q), Bystander(q)
  PROVE  LoopBounds(q)'
<1>1. /\ isV1(q)' = isV1(q) /\ MissingRequired(q)' = MissingRequired(q) /\ Owned(q)' = Owned(q)
      /\ BackedUp(q)' = BackedUp(q) /\ Current(q)' = Current(q)
      /\ pc'[q] = pc[q] /\ todo'[q] = todo[q] /\ unbacked'[q] = unbacked[q]
  BY SameLoop DEF Bystander
<1>. QED BY <1>1 DEF LoopBounds, Undoing

LEMMA OutsideLoops ==
  ASSUME NEW q \in Restores, pc'[q] \in {"license", "decode", "next", "reply", "answered"}
  PROVE  LoopBounds(q)'
BY DEF LoopBounds, Undoing, CallPhase

LEMMA LeavesLoop ==
  ASSUME RestoreTypeOK, NEW r \in Restores,
         \/ LicenseGranted(r) \/ LicenseRefused(r) \/ Reject(r) \/ IntegrityCheckFailed(r)
         \/ Accept(r) \/ SkipUnknownGroup(r) \/ MissingFeature(r) \/ AllItemsDone(r) \/ Reply(r)
         \/ BackupFailedSkip(r) \/ UnexpectedReply(r) \/ RestoreDone(r) \/ UndoDone(r)
  PROVE  pc'[r] \in {"decode", "next", "reply", "answered"}
<1>1. \A phase, S : Goto(r, phase, S) => pc'[r] = phase
  BY DEF Goto, RestoreTypeOK
<1>. QED
  BY <1>1
  DEF LicenseGranted, LicenseRefused, Reject, IntegrityCheckFailed, Accept, SkipUnknownGroup,
      MissingFeature, AllItemsDone, Reply, BackupFailedSkip, UnexpectedReply, RestoreDone,
      UndoDone, Abort, FinishItem

(* The loop goes on: what is left of it shrinks.                              *)
LEMMA AdvanceKeepsBounds ==
  ASSUME RestoreTypeOK, NEW r \in Restores, LoopBounds(r), Advance(r), pc[r] # "backup",
         request' = request, items' = items, backup' = backup, unbacked' = unbacked
  PROVE  LoopBounds(r)'
<1>1. pc' = pc /\ todo'[r] \subseteq todo[r]
  BY DEF Advance, RestoreTypeOK
<1>2. /\ isV1(r)' = isV1(r) /\ Owned(r)' = Owned(r) /\ BackedUp(r)' = BackedUp(r)
      /\ Current(r)' = Current(r) /\ MissingRequired(r)' = MissingRequired(r)
  BY DEF isV1, Owned, OwnFeatures, BackedUp, Current, MissingRequired
<1>. QED BY <1>1, <1>2 DEF LoopBounds, Undoing

(* The thread goes from one loop of the item to the next, to features S.      *)
LEMMA NextLoopKeepsBounds ==
  ASSUME RestoreTypeOK, NEW r \in Restores, LoopBounds(r), pc[r] \in CallPhase,
         NEW phase \in CallPhase \ {"backup"}, NEW S, Goto(r, phase, S),
         request' = request, items' = items, backup' = backup,
         unbacked[r] \subseteq unbacked'[r],
         Owned(r) \cap Feature \subseteq BackedUp(r) \cup unbacked'[r],
         phase = "reset" => S = Resettable(Owned(r)),
         phase = "restore" => S = Current(r).features,
         phase \in {"undoReset", "undoRestore"} => S \subseteq BackedUp(r)
  PROVE  LoopBounds(r)'
<1>1. pc'[r] = phase /\ todo'[r] = S
  BY DEF Goto, RestoreTypeOK
<1>2. /\ isV1(r)' = isV1(r) /\ Owned(r)' = Owned(r) /\ BackedUp(r)' = BackedUp(r)
      /\ Current(r)' = Current(r) /\ MissingRequired(r)' = MissingRequired(r)
  BY DEF isV1, Owned, OwnFeatures, BackedUp, Current, MissingRequired
<1>. QED BY <1>1, <1>2 DEF LoopBounds, Undoing, Resettable

LEMMA WorkerStepKeepsBounds ==
  ASSUME TypeOK, NEW r \in Restores, ItemsFromRequest(r), CallOfLoop(r), LoopBounds(r),
         pc[r] = "backup" /\ answer[r].kind = "ok" => answer[r].data # None, WorkerStep(r)
  PROVE  LoopBounds(r)'
<1>a. RestoreTypeOK /\ AgentsTypeOK
  BY DEF TypeOK
<1>b. /\ \A S : Resettable(S) \subseteq S \cap Feature
      /\ pc[r] \in CallPhase /\ pc[r] # "backup" =>
           Owned(r) \cap Feature \subseteq BackedUp(r) \cup unbacked[r]
  BY DEF Resettable, LoopBounds
<1>1. CASE SendQuery(r) \/ GiveUp(r)
  BY <1>1, BoundsStand DEF SendQuery, GiveUp, workerVars, Bystander
<1>2. CASE \/ LicenseGranted(r) \/ LicenseRefused(r) \/ Reject(r) \/ IntegrityCheckFailed(r)
           \/ Accept(r) \/ SkipUnknownGroup(r) \/ MissingFeature(r) \/ AllItemsDone(r) \/ Reply(r)
           \/ BackupFailedSkip(r) \/ UnexpectedReply(r) \/ RestoreDone(r) \/ UndoDone(r)
  BY <1>2, <1>a, LeavesLoop, OutsideLoops
<1>3. CASE BeginItem(r)
  <2>1. /\ pc'[r] = "backup" /\ todo'[r] = Owned(r) /\ backup'[r] = [f \in Feature |-> None]
        /\ items' = items /\ request' = request
    BY <1>3, <1>a DEF BeginItem, Goto, RestoreTypeOK
  <2>2. BackedUp(r)' = {}
    BY <2>1 DEF BackedUp
  <2>3. isV1(r)' = isV1(r) /\ Owned(r)' = Owned(r) /\ MissingRequired(r)' = MissingRequired(r)
    BY <2>1 DEF isV1, Owned, OwnFeatures, Current, MissingRequired
  <2>4. isV1(r) \/ MissingRequired(r) = {}
    BY <1>3 DEF BeginItem
  <2>. QED BY <2>1, <2>2, <2>3, <2>4 DEF LoopBounds, Undoing
<1>4. CASE BackupOk(r)
  <2> DEFINE f == answer[r].feature
  <2>1. /\ pc[r] = "backup" /\ pc' = pc /\ items' = items /\ request' = request
        /\ unbacked' = unbacked /\ todo'[r] = todo[r] \ {f}
        /\ backup' = [backup EXCEPT ![r][f] = answer[r].data]
    BY <1>4, <1>a DEF BackupOk, Advance, RestoreTypeOK
  <2>2. answer[r].kind = "ok" /\ answer[r].data # None
    BY <1>4, <2>1 DEF BackupOk, Succeeded, CallOfLoop
  <2>3. f \in todo[r] /\ todo[r] \subseteq Owned(r)
    BY <2>1, <2>2 DEF CallOfLoop, LoopBounds, Idle
  <2>4. BackedUp(r)' = BackedUp(r) \cup ({f} \cap Feature)
    <3>1. backup[r] \in [Feature -> Data]
      BY <1>a DEF RestoreTypeOK
    <3>2. \A g \in Feature : backup'[r][g] = IF g = f THEN answer[r].data ELSE backup[r][g]
      BY <1>a, <2>1, <3>1 DEF RestoreTypeOK
    <3>. QED BY <2>2, <3>2 DEF BackedUp
  <2>5. isV1(r)' = isV1(r) /\ Owned(r)' = Owned(r) /\ MissingRequired(r)' = MissingRequired(r)
    BY <2>1 DEF isV1, Owned, OwnFeatures, Current, MissingRequired
  <2>. QED BY <2>1, <2>3, <2>4, <2>5 DEF LoopBounds, Undoing, CallPhase
<1>5. CASE BackupFailedGoOn(r)
  <2>1. /\ Goto(r, "reset", Resettable(Owned(r))) /\ pc[r] = "backup"
        /\ request' = request /\ items' = items /\ backup' = backup
        /\ unbacked'[r] = unbacked[r] \cup todo[r]
    BY <1>5, <1>a DEF BackupFailedGoOn, RestoreTypeOK
  <2>2. pc[r] \in CallPhase /\ "reset" \in CallPhase \ {"backup"}
    BY <2>1 DEF CallPhase
  <2>3. Owned(r) \cap Feature \subseteq BackedUp(r) \cup unbacked'[r]
    BY <2>1, <2>2 DEF LoopBounds
  <2>. QED BY <1>a, <2>1, <2>2, <2>3, NextLoopKeepsBounds
<1>6. CASE BackupDone(r)
  <2>1. /\ Goto(r, "reset", Resettable(Owned(r))) /\ pc[r] = "backup" /\ todo[r] = {}
        /\ request' = request /\ items' = items /\ backup' = backup /\ unbacked' = unbacked
    BY <1>6 DEF BackupDone
  <2>2. pc[r] \in CallPhase /\ "reset" \in CallPhase \ {"backup"}
    BY <2>1 DEF CallPhase
  <2>3. Owned(r) \cap Feature \subseteq BackedUp(r) \cup unbacked'[r]
    BY <2>1, <2>2 DEF LoopBounds
  <2>. QED BY <1>a, <2>1, <2>2, <2>3, NextLoopKeepsBounds
<1>7. CASE ResetDone(r)
  <2>1. /\ Goto(r, "restore", Current(r).features) /\ pc[r] = "reset"
        /\ request' = request /\ items' = items /\ backup' = backup /\ unbacked' = unbacked
    BY <1>7 DEF ResetDone
  <2>2. pc[r] \in CallPhase /\ "restore" \in CallPhase \ {"backup"}
    BY <2>1 DEF CallPhase
  <2>. QED BY <1>a, <1>b, <2>1, <2>2, NextLoopKeepsBounds
<1>8. CASE RestoreFailed(r)
  <2>1. /\ Goto(r, "undoReset", Resettable(BackedUp(r))) /\ pc[r] = "restore"
        /\ request' = request /\ items' = items /\ backup' = backup /\ unbacked' = unbacked
    BY <1>8 DEF RestoreFailed
  <2>2. pc[r] \in CallPhase /\ "undoReset" \in CallPhase \ {"backup"}
    BY <2>1 DEF CallPhase
  <2>. QED BY <1>a, <1>b, <2>1, <2>2, NextLoopKeepsBounds
<1>9. CASE UndoResetDone(r)
  <2>1. /\ Goto(r, "undoRestore", BackedUp(r)) /\ pc[r] = "undoReset"
        /\ request' = request /\ items' = items /\ backup' = backup /\ unbacked' = unbacked
    BY <1>9 DEF UndoResetDone
  <2>2. pc[r] \in CallPhase /\ "undoRestore" \in CallPhase \ {"backup"}
    BY <2>1 DEF CallPhase
  <2>. QED BY <1>a, <1>b, <2>1, <2>2, NextLoopKeepsBounds
<1>10. CASE ResetAnswered(r) \/ RestoreOk(r) \/ UndoRestoreAnswered(r)
  <2>1. /\ Advance(r) /\ pc[r] # "backup"
        /\ request' = request /\ items' = items /\ backup' = backup /\ unbacked' = unbacked
    BY <1>10 DEF ResetAnswered, RestoreOk, UndoRestoreAnswered
  <2>. QED BY <1>a, <2>1, AdvanceKeepsBounds
<1>. QED
  BY <1>1, <1>2, <1>3, <1>4, <1>5, <1>6, <1>7, <1>8, <1>9, <1>10 DEF WorkerStep
-----------------------------------------------------------------------------
(* An item is reported once.                                                  *)

(* std::sort does not duplicate a group.                                      *)
LEMMA GroupOrdersOnce ==
  ASSUME NEW s \in Seq(Item), \A i, j \in DOMAIN s : s[i].id = s[j].id => i = j,
         NEW t \in GroupOrders(s)
  PROVE  \A i, j \in DOMAIN t : t[i].id = t[j].id => i = j
<1> DEFINE n == Len(s)
<1>1. PICK p \in [1..n -> 1..n] : /\ \A j \in 1..n : \E i \in 1..n : p[i] = j
                                 /\ t = [i \in 1..n |-> s[p[i]]]
  BY DEF GroupOrders
<1>2. n \in Nat /\ DOMAIN s = 1..n
  BY LenProperties
<1> HIDE DEF n
<1>3. IsFiniteSet(1..n)
  BY <1>2, FS_Interval
<1>4. p \in Surjection(1..n, 1..n)
  BY <1>1 DEF Surjection
<1>5. p \in Injection(1..n, 1..n)
  BY <1>3, <1>4, FS_SurjSameCardinalityImpliesInj
<1>6. \A i, j \in 1..n : p[i] = p[j] => i = j
  BY <1>5 DEF Injection, IsInjective
<1>. QED BY <1>1, <1>2, <1>6

LEMMA RequestedOnce ==
  ASSUME RestoreTypeOK, NEW r \in Restores
  PROVE  /\ \A i, j \in DOMAIN request[r].items :
              request[r].items[i].id = request[r].items[j].id => i = j
         /\ \A it1, it2 \in Requested(r) : it1.id = it2.id => it1 = it2
<1>1. request[r] \in Payload
  BY RequestFacts
<1>2. \A i, j \in DOMAIN request[r].items :
        request[r].items[i].id = request[r].items[j].id => i = j
  BY <1>1, PayloadAssumption
<1>. QED BY <1>2 DEF Requested

LEMMA EntriesAfterPush ==
  ASSUME RestoreTypeOK, NEW r \in Restores, NEW st \in ItemOutcome, PushStatus(r, st),
         Current(r).id \in ItemId
  PROVE  /\ Entries(r, st)' = Entries(r, st) \cup {Current(r).id}
         /\ \A o \in ItemOutcome \ {st} : Entries(r, o)' = Entries(r, o)
         /\ \A it : Reported(r, it)' <=> Reported(r, it) \/ it.id = Current(r).id
<1>0. PICK sd \in Status :
        statusList' = [statusList EXCEPT ![r] =
                         Append(@, [name |-> Current(r).id, outcome |-> st, status |-> sd])]
  BY DEF PushStatus, Said, Status
<1> DEFINE e == [name |-> Current(r).id, outcome |-> st, status |-> sd]
           s == statusList[r]
           E == ListEntry
<1>1. s \in Seq(E) /\ statusList' = [statusList EXCEPT ![r] = Append(s, e)]
      /\ statusList \in [Restores -> Seq(E)]
  BY <1>0 DEF RestoreTypeOK
<1>2. statusList'[r] = Append(s, e) /\ e \in E
  BY <1>1 DEF ListEntry
<1>3. e.name = Current(r).id /\ e.outcome = st
  OBVIOUS
<1> HIDE DEF e, s, E
<1>4. /\ DOMAIN s = 1..Len(s) /\ DOMAIN Append(s, e) = 1..(Len(s) + 1) /\ Len(s) \in Nat
      /\ \A i \in 1..Len(s) : Append(s, e)[i] = s[i]
      /\ Append(s, e)[Len(s) + 1] = e
  BY <1>1, <1>2, AppendProperties, LenProperties
<1>5. /\ \A i \in DOMAIN s : i \in DOMAIN statusList'[r] /\ statusList'[r][i] = s[i]
      /\ \A i \in DOMAIN statusList'[r] :
           (i \in DOMAIN s /\ statusList'[r][i] = s[i]) \/ statusList'[r][i] = e
      /\ \E i \in DOMAIN statusList'[r] : statusList'[r][i] = e
  BY <1>2, <1>4
<1>6. \A o, x : x \in Entries(r, o) <=> \E i \in DOMAIN s : s[i].outcome = o /\ s[i].name = x
  BY DEF Entries, s
<1>7. \A o, x : x \in {statusList'[r][i].name :
                     i \in {j \in DOMAIN statusList'[r] : statusList'[r][j].outcome = o}}
        <=> x \in Entries(r, o) \/ (o = st /\ x = Current(r).id)
  BY <1>3, <1>5, <1>6
<1>8. Entries(r, st)' = Entries(r, st) \cup {Current(r).id}
  BY <1>7 DEF Entries
<1>9. ASSUME NEW o \in ItemOutcome \ {st} PROVE Entries(r, o)' = Entries(r, o)
  BY <1>7 DEF Entries
<1>10. \A it : Reported(r, it)' <=> Reported(r, it) \/ it.id = Current(r).id
  BY <1>3, <1>5 DEF Reported, s
<1>. QED BY <1>8, <1>9, <1>10

(* An item is reported with one of the two.                                   *)
LEMMA ReportedHow ==
  ASSUME RestoreTypeOK, NEW r \in Restores, NEW it
  PROVE  Reported(r, it) <=> it.id \in Entries(r, "SUCCESS") \cup Entries(r, "FAILED")
<1>1. statusList[r] \in Seq(ListEntry)
  BY DEF RestoreTypeOK
<1>2. \A i \in DOMAIN statusList[r] : statusList[r][i] \in ListEntry
  BY <1>1, ElementOfSeq, LenProperties
<1>3. \A i \in DOMAIN statusList[r] : statusList[r][i].outcome \in {"SUCCESS", "FAILED"}
  BY <1>2 DEF ItemOutcome, ListEntry
<1>. QED BY <1>3 DEF Reported, Entries

LEMMA ItemsAfterFinish ==
  ASSUME RestoreTypeOK, NEW r \in Restores, items[r] # <<>>, FinishItem(r)
  PROVE  /\ 1 \in DOMAIN items[r] /\ items[r][1] = Current(r) /\ pc'[r] = "next"
         /\ \A i \in DOMAIN items'[r] :
              i \in Nat /\ i + 1 \in DOMAIN items[r] /\ i + 1 # 1 /\ items'[r][i] = items[r][i + 1]
         /\ \A i \in DOMAIN items[r] \ {1} :
              i - 1 \in DOMAIN items'[r] /\ items'[r][i - 1] = items[r][i]
<1>1. items[r] \in Seq(Item) /\ items'[r] = Tail(items[r]) /\ pc'[r] = "next"
  BY DEF FinishItem, Goto, RestoreTypeOK
<1>2. /\ Len(items[r]) \in Nat /\ DOMAIN items[r] = 1..Len(items[r]) /\ Len(items[r]) # 0
      /\ DOMAIN Tail(items[r]) = 1..(Len(items[r]) - 1)
      /\ \A i \in 1..(Len(items[r]) - 1) : Tail(items[r])[i] = items[r][i + 1]
      /\ Head(items[r]) = items[r][1]
  BY <1>1
<1>. QED BY <1>1, <1>2 DEF Current

LEMMA FinishKeepsOnce ==
  ASSUME RestoreTypeOK, NEW r \in Restores, items[r] # <<>>, ItemsOnce(r), FinishItem(r),
         Entries(r, "SUCCESS")' \subseteq Entries(r, "SUCCESS") \cup {Current(r).id},
         Entries(r, "FAILED")' \subseteq Entries(r, "FAILED") \cup {Current(r).id}
  PROVE  ItemsOnce(r)'
<1>1. /\ 1 \in DOMAIN items[r] /\ items[r][1] = Current(r) /\ pc'[r] = "next"
      /\ \A i \in DOMAIN items'[r] :
           i \in Nat /\ i + 1 \in DOMAIN items[r] /\ i + 1 # 1 /\ items'[r][i] = items[r][i + 1]
  BY ItemsAfterFinish
<1>2. ASSUME NEW i \in DOMAIN items'[r], NEW j \in DOMAIN items'[r],
             items'[r][i].id = items'[r][j].id
      PROVE  i = j
  <2>1. i + 1 = j + 1 /\ i \in Nat /\ j \in Nat
    BY <1>1, <1>2 DEF ItemsOnce
  <2>. QED BY <2>1
<1>3. ASSUME NEW i \in DOMAIN items'[r]
      PROVE  items'[r][i].id \notin Entries(r, "SUCCESS")' \cup Entries(r, "FAILED")'
  <2>1. items'[r][i] = items[r][i + 1] /\ i + 1 \in DOMAIN items[r] /\ i + 1 # 1
    BY <1>1, <1>3
  <2>2. items[r][i + 1].id # Current(r).id
    BY <1>1, <2>1 DEF ItemsOnce
  <2>3. items[r][i + 1].id \notin Entries(r, "SUCCESS") \cup Entries(r, "FAILED")
    BY <2>1 DEF ItemsOnce
  <2>. QED BY <2>1, <2>2, <2>3
<1>. QED BY <1>1, <1>2, <1>3 DEF ItemsOnce
(* The steps that take up the items, finish one or report on one.             *)
Settles(r) ==
  \/ Accept(r) \/ SkipUnknownGroup(r) \/ BackupFailedSkip(r) \/ RestoreDone(r) \/ UndoDone(r)
  \/ RestoreFailed(r) /\ isV1(r)

LateOn == {"undoReset", "undoRestore", "reply", "answered"}

LEMMA OtherStepsSettleNothing ==
  ASSUME RestoreTypeOK, NEW r \in Restores, WorkerStep(r), ~Settles(r)
  PROVE  /\ items'[r] = items[r] /\ statusList'[r] = statusList[r]
         /\ pc'[r] \in {"license", "decode"} => pc[r] \in {"license", "decode"}
         /\ pc[r] \in LateOn => pc'[r] \in LateOn
<1>0. \A phase, S : Goto(r, phase, S) => pc'[r] = phase
  BY DEF Goto, RestoreTypeOK
<1>1. CASE Abort(r)
  BY <1>0, <1>1 DEF Abort, LateOn
<1>2. CASE LicenseGranted(r) \/ IntegrityCheckFailed(r) \/ BeginItem(r) \/ AllItemsDone(r) \/ Reply(r)
  BY <1>0, <1>2
  DEF LicenseGranted, IntegrityCheckFailed, BeginItem, AllItemsDone, Reply, LateOn
<1>3. CASE SendQuery(r) \/ GiveUp(r)
  BY <1>3 DEF SendQuery, GiveUp, workerVars
<1>4. CASE BackupOk(r) \/ ResetAnswered(r) \/ RestoreOk(r) \/ UndoRestoreAnswered(r)
  BY <1>4 DEF BackupOk, ResetAnswered, RestoreOk, UndoRestoreAnswered, Advance
<1>5. CASE BackupFailedGoOn(r) \/ BackupDone(r) \/ ResetDone(r) \/ UndoResetDone(r)
  BY <1>0, <1>5 DEF BackupFailedGoOn, BackupDone, ResetDone, UndoResetDone, LateOn
<1>6. CASE RestoreFailed(r) /\ ~isV1(r)
  BY <1>0, <1>6 DEF RestoreFailed, LateOn
<1>7. LicenseRefused(r) \/ Reject(r) \/ MissingFeature(r) \/ UnexpectedReply(r) => Abort(r)
  BY DEF LicenseRefused, Reject, MissingFeature, UnexpectedReply
<1>. QED BY <1>1, <1>2, <1>3, <1>4, <1>5, <1>6, <1>7 DEF WorkerStep, Settles

(* What a step that settles an item does with the entries.                     *)
LEMMA SettlingStep ==
  ASSUME TypeOK, NEW r \in Restores, ItemsFromRequest(r), WorkerStep(r), Settles(r), ~Accept(r)
  PROVE  /\ items[r] # <<>> /\ Current(r).id \in ItemId
         /\ SkipUnknownGroup(r) \/ BackupFailedSkip(r) =>
              PushStatus(r, "FAILED") /\ FinishItem(r)
         /\ RestoreDone(r) => PushStatus(r, "SUCCESS") /\ FinishItem(r)
         /\ UndoDone(r) => /\ IF isV1(r) THEN statusList' = statusList ELSE PushStatus(r, "FAILED")
                           /\ FinishItem(r)
         /\ RestoreFailed(r) /\ isV1(r) =>
              PushStatus(r, "FAILED") /\ items' = items /\ pc'[r] = "undoReset"
<1>1. items[r] # <<>>
  BY DEF Settles, SkipUnknownGroup, BackupFailedSkip, RestoreDone, UndoDone, RestoreFailed,
         ItemsFromRequest, CallPhase
<1>2. Current(r).id \in ItemId
  BY <1>1, CurrentIsRequested DEF TypeOK, Item
<1>3. RestoreFailed(r) => pc'[r] = "undoReset"
  BY DEF RestoreFailed, Goto, TypeOK, RestoreTypeOK
<1>. QED
  BY <1>1, <1>2, <1>3
  DEF SkipUnknownGroup, BackupFailedSkip, RestoreDone, UndoDone, RestoreFailed

LEMMA WorkerStepKeepsOnce ==
  ASSUME TypeOK, NEW r \in Restores, ItemsFromRequest(r), Books(r), ItemsOnce(r), WorkerStep(r)
  PROVE  ItemsOnce(r)'
<1>a. RestoreTypeOK /\ request' = request
  BY RequestKept DEF TypeOK
<1>b. {"SUCCESS", "FAILED"} \subseteq ItemOutcome
  BY DEF ItemOutcome
<1>1. CASE ~Settles(r)
  <2>1. /\ items'[r] = items[r] /\ statusList'[r] = statusList[r]
        /\ pc'[r] \in {"license", "decode"} => pc[r] \in {"license", "decode"}
        /\ pc[r] \in LateOn => pc'[r] \in LateOn
    BY <1>1, <1>a, OtherStepsSettleNothing
  <2>2. isV1(r)' = isV1(r) /\ \A st : Entries(r, st)' = Entries(r, st)
    BY <1>a, <2>1 DEF isV1, Entries
  <2>. QED BY <2>1, <2>2 DEF ItemsOnce, LateOn
<1>2. CASE Accept(r)
  <2>1. pc[r] = "decode" /\ pc'[r] = "next" /\ statusList' = statusList
    BY <1>2, <1>a DEF Accept, Goto, RestoreTypeOK
  <2>2. \A st : Entries(r, st)' = {}
    BY <2>1 DEF Books, Entries
  <2>3. request[r].items \in Seq(Item)
        /\ \A i, j \in DOMAIN request[r].items : request[r].items[i].id = request[r].items[j].id => i = j
    BY <1>a, RequestFacts, RequestedOnce
  <2>4. PICK s : /\ s = request[r].items \/ s \in GroupOrders(request[r].items)
                 /\ items' = [items EXCEPT ![r] = s]
    BY <1>2 DEF Accept
  <2>5. \A i, j \in DOMAIN s : s[i].id = s[j].id => i = j
    <3> DEFINE its == request[r].items
    <3>1. CASE s = its
      BY <2>3, <3>1
    <3>2. CASE s \in GroupOrders(its)
      <4>1. its \in Seq(Item) /\ \A i, j \in DOMAIN its : its[i].id = its[j].id => i = j
        BY <2>3
      <4> HIDE DEF its
      <4>. QED BY ONLY <3>2, <4>1, GroupOrdersOnce
    <3>. QED BY <2>4, <3>1, <3>2
  <2>6. items'[r] = s
    BY <1>a, <2>4 DEF RestoreTypeOK
  <2>. QED BY <2>1, <2>2, <2>5, <2>6 DEF ItemsOnce
<1>3. CASE Settles(r) /\ ~Accept(r)
  <2>1. /\ items[r] # <<>> /\ Current(r).id \in ItemId
        /\ SkipUnknownGroup(r) \/ BackupFailedSkip(r) =>
             PushStatus(r, "FAILED") /\ FinishItem(r)
        /\ RestoreDone(r) => PushStatus(r, "SUCCESS") /\ FinishItem(r)
        /\ UndoDone(r) => /\ IF isV1(r) THEN statusList' = statusList ELSE PushStatus(r, "FAILED")
                          /\ FinishItem(r)
        /\ RestoreFailed(r) /\ isV1(r) =>
             PushStatus(r, "FAILED") /\ items' = items /\ pc'[r] = "undoReset"
    BY <1>3, SettlingStep
  <2>2. \/ PushStatus(r, "SUCCESS") \/ PushStatus(r, "FAILED") \/ statusList' = statusList
    BY <1>3, <2>1 DEF Settles
  <2>3. /\ Entries(r, "SUCCESS")' \subseteq Entries(r, "SUCCESS") \cup {Current(r).id}
        /\ Entries(r, "FAILED")' \subseteq Entries(r, "FAILED") \cup {Current(r).id}
    <3>1. CASE statusList' = statusList
      BY <3>1 DEF Entries
    <3>2. CASE PushStatus(r, "SUCCESS") \/ PushStatus(r, "FAILED")
      BY <1>a, <1>b, <2>1, <3>2, EntriesAfterPush
    <3>. QED BY <2>2, <3>1, <3>2
  <2>4. CASE RestoreFailed(r) /\ isV1(r)
    <3>1. PushStatus(r, "FAILED") /\ items' = items /\ pc'[r] = "undoReset" /\ pc[r] = "restore"
      BY <2>1, <2>4 DEF RestoreFailed
    <3>2. /\ Entries(r, "FAILED")' = Entries(r, "FAILED") \cup {Current(r).id}
          /\ Entries(r, "SUCCESS")' = Entries(r, "SUCCESS")
      BY <1>a, <1>b, <2>1, <3>1, EntriesAfterPush
    <3>3. items[r][1] = Current(r) /\ 1 \in DOMAIN items[r]
      <4>1. items[r] \in Seq(Item) /\ items[r] # <<>>
        BY <1>a, <2>1 DEF RestoreTypeOK
      <4>. QED BY <4>1 DEF Current
    <3>4. isV1(r)'
      BY <1>a, <2>4 DEF isV1
    <3>. QED BY <3>1, <3>2, <3>3, <3>4 DEF ItemsOnce
  <2>5. CASE FinishItem(r)
    BY <1>a, <2>1, <2>3, <2>5, FinishKeepsOnce
  <2>. QED BY <1>3, <2>1, <2>4, <2>5 DEF Settles
<1>. QED BY <1>1, <1>2, <1>3

LEMMA OnceStands ==
  ASSUME NEW q \in Restores, ItemsOnce(q), Bystander(q)
  PROVE  ItemsOnce(q)'
<1>1. isV1(q)' = isV1(q) /\ \A st : Entries(q, st)' = Entries(q, st)
  BY DEF Bystander, isV1, Entries
<1>. QED BY <1>1 DEF Bystander, ItemsOnce

-----------------------------------------------------------------------------
(* The restart flag. *)

LEMMA EntriesOfStep ==
  ASSUME TypeOK, NEW r \in Restores, ItemsFromRequest(r), WorkerStep(r)
  PROVE  /\ RestoreDone(r) =>
              Entries(r, "SUCCESS")' = Entries(r, "SUCCESS") \cup {Current(r).id}
         /\ ~RestoreDone(r) => Entries(r, "SUCCESS")' = Entries(r, "SUCCESS")
<1>a. RestoreTypeOK /\ "SUCCESS" \in ItemOutcome /\ "FAILED" \in ItemOutcome
  BY DEF TypeOK, ItemOutcome
<1>1. CASE ~Settles(r) \/ Accept(r)
  <2>1. statusList'[r] = statusList[r]
    BY <1>1, <1>a, OtherStepsSettleNothing DEF Accept
  <2>2. ~RestoreDone(r)
    BY <1>1 DEF Settles, RestoreDone, Accept
  <2>. QED BY <2>1, <2>2 DEF Entries
<1>2. CASE Settles(r) /\ ~Accept(r)
  <2>1. /\ Current(r).id \in ItemId
        /\ \/ RestoreDone(r) /\ PushStatus(r, "SUCCESS")
           \/ ~RestoreDone(r) /\ PushStatus(r, "FAILED")
           \/ ~RestoreDone(r) /\ statusList' = statusList
    <3>1. SkipUnknownGroup(r) \/ BackupFailedSkip(r) \/ UndoDone(r) => ~RestoreDone(r)
      BY DEF SkipUnknownGroup, BackupFailedSkip, UndoDone, RestoreDone
    <3>2. RestoreFailed(r) => ~RestoreDone(r)
      <4>1. RestoreFailed(r) => pc'[r] = "undoReset"
        BY <1>a DEF RestoreFailed, Goto, RestoreTypeOK
      <4>2. RestoreDone(r) => pc'[r] = "next"
        BY <1>a DEF RestoreDone, FinishItem, Goto, RestoreTypeOK
      <4>. QED BY <4>1, <4>2
    <3>. QED BY <1>2, <3>1, <3>2, SettlingStep DEF Settles
  <2>2. CASE PushStatus(r, "SUCCESS") /\ RestoreDone(r)
    BY <1>a, <2>1, <2>2, EntriesAfterPush
  <2>3. CASE PushStatus(r, "FAILED") /\ ~RestoreDone(r)
    BY <1>a, <2>1, <2>3, EntriesAfterPush
  <2>. QED BY <2>1, <2>2, <2>3 DEF Entries
<1>. QED BY <1>1, <1>2

LEMMA RestartGrows ==
  ASSUME RestoreTypeOK, NEW r \in Restores, WorkerStep(r), restart[r]
  PROVE  restart'[r]
BY DEF WorkerStep, LicenseGranted, LicenseRefused, Reject, IntegrityCheckFailed, Accept,
       SkipUnknownGroup, MissingFeature, BeginItem, AllItemsDone, Reply, SendQuery, GiveUp,
       BackupOk, BackupFailedSkip, BackupFailedGoOn, BackupDone, ResetAnswered, ResetDone,
       UnexpectedReply, RestoreOk, RestoreDone, RestoreFailed, UndoResetDone,
       UndoRestoreAnswered, UndoDone, Abort, workerVars, RestoreTypeOK

LEMMA IntoRestore ==
  ASSUME RestoreTypeOK, NEW r \in Restores, WorkerStep(r), pc'[r] = "restore"
  PROVE  /\ Current(r)' = Current(r)
         /\ \/ ResetDone(r) /\ todo'[r] = Current(r).features
            \/ RestoreOk(r) /\ todo'[r] = todo[r] \ {answer[r].feature}
            \/ pc[r] = "restore" /\ todo'[r] = todo[r]
<1>1. \A phase, S : Goto(r, phase, S) => pc'[r] = phase /\ todo'[r] = S
  BY DEF Goto, RestoreTypeOK
<1>2. ~LicenseGranted(r) /\ ~LicenseRefused(r) /\ ~Reject(r) /\ ~IntegrityCheckFailed(r)
      /\ ~Accept(r) /\ ~SkipUnknownGroup(r) /\ ~MissingFeature(r) /\ ~AllItemsDone(r) /\ ~Reply(r)
      /\ ~BackupFailedSkip(r) /\ ~UnexpectedReply(r) /\ ~RestoreDone(r) /\ ~UndoDone(r)
  BY LeavesLoop
<1>3. ~BeginItem(r) /\ ~BackupFailedGoOn(r) /\ ~BackupDone(r) /\ ~RestoreFailed(r) /\ ~UndoResetDone(r)
  BY <1>1 DEF BeginItem, BackupFailedGoOn, BackupDone, RestoreFailed, UndoResetDone
<1>4. ~BackupOk(r) /\ ~ResetAnswered(r) /\ ~UndoRestoreAnswered(r)
  BY DEF BackupOk, ResetAnswered, UndoRestoreAnswered, Advance
<1>5. CASE SendQuery(r) \/ GiveUp(r)
  BY <1>5 DEF SendQuery, GiveUp, workerVars, Current
<1>6. CASE ResetDone(r)
  BY <1>6, <1>1 DEF ResetDone, Current
<1>7. CASE RestoreOk(r)
  BY <1>7 DEF RestoreOk, Advance, RestoreTypeOK, Current
<1>. QED BY <1>2, <1>3, <1>4, <1>5, <1>6, <1>7 DEF WorkerStep

LEMMA IntoAnswered ==
  ASSUME RestoreTypeOK, NEW r \in Restores, WorkerStep(r), pc'[r] = "answered"
  PROVE  \/ Reply(r) /\ rebooting'[r] = Reboots(r) /\ restart' = restart
         \/ pc[r] = "answered" /\ rebooting' = rebooting /\ restart' = restart
<1>1. \A phase, S : Goto(r, phase, S) => pc'[r] = phase
  BY DEF Goto, RestoreTypeOK
<1>2. CASE Reply(r)
  BY <1>2 DEF Reply, RestoreTypeOK
<1>3. CASE SendQuery(r) \/ GiveUp(r)
  BY <1>3 DEF SendQuery, GiveUp, workerVars
<1>4. ~(BackupOk(r) \/ ResetAnswered(r) \/ RestoreOk(r) \/ UndoRestoreAnswered(r))
  BY DEF BackupOk, ResetAnswered, RestoreOk, UndoRestoreAnswered, Advance
<1>5. ~(LicenseGranted(r) \/ LicenseRefused(r) \/ Reject(r) \/ IntegrityCheckFailed(r) \/ Accept(r)
        \/ SkipUnknownGroup(r) \/ MissingFeature(r) \/ BeginItem(r) \/ AllItemsDone(r))
  BY <1>1 DEF LicenseGranted, LicenseRefused, Reject, IntegrityCheckFailed, Accept,
              SkipUnknownGroup, MissingFeature, BeginItem, AllItemsDone, Abort, FinishItem
<1>6. ~(BackupFailedSkip(r) \/ BackupFailedGoOn(r) \/ BackupDone(r) \/ ResetDone(r)
        \/ UnexpectedReply(r) \/ RestoreDone(r) \/ RestoreFailed(r) \/ UndoResetDone(r) \/ UndoDone(r))
  BY <1>1 DEF BackupFailedSkip, BackupFailedGoOn, BackupDone, ResetDone, UnexpectedReply, RestoreDone,
              RestoreFailed, UndoResetDone, UndoDone, Abort, FinishItem
<1>. QED BY <1>2, <1>3, <1>4, <1>5, <1>6 DEF WorkerStep

LEMMA WorkerStepKeepsRestart ==
  ASSUME TypeOK, NEW r \in Restores, ItemsFromRequest(r), RestartKept(r), WorkerStep(r)
  PROVE  RestartKept(r)'
<1>a. RestoreTypeOK /\ request' = request
  BY RequestKept DEF TypeOK
<1>b. isV1(r)' = isV1(r) /\ Requested(r)' = Requested(r)
  BY <1>a DEF isV1, Requested
<1>1. ASSUME ~isV1(r), NEW it \in Requested(r), NEW f \in it.features \cap Feature, m_restart[f],
             \/ it.id \in Entries(r, "SUCCESS")'
             \/ pc'[r] = "restore" /\ it = Current(r)' /\ f \notin todo'[r]
      PROVE  restart'[r]
  <2>1. CASE it.id \in Entries(r, "SUCCESS")
    BY <1>a, <1>1, <2>1, RestartGrows DEF RestartKept
  <2>2. CASE it.id \in Entries(r, "SUCCESS")' /\ it.id \notin Entries(r, "SUCCESS")
    <3>1. RestoreDone(r) /\ it.id = Current(r).id
      BY <2>2, EntriesOfStep
    <3>2. it = Current(r)
      <4>1. Current(r) \in Requested(r)
        BY <1>a, <3>1, CurrentIsRequested DEF RestoreDone, ItemsFromRequest, CallPhase
      <4>. QED BY <1>a, <3>1, <4>1, RequestedOnce
    <3>3. restart[r]
      BY <1>1, <3>1, <3>2 DEF RestoreDone, RestartKept
    <3>. QED BY <1>a, <3>3, RestartGrows
  <2>3. CASE pc'[r] = "restore" /\ it = Current(r)' /\ f \notin todo'[r]
    <3>1. CASE ResetDone(r) /\ todo'[r] = Current(r).features
      BY <1>a, <1>1, <2>3, <3>1, IntoRestore
    <3>2. CASE RestoreOk(r) /\ todo'[r] = todo[r] \ {answer[r].feature}
      <4>1. CASE f = answer[r].feature
        BY <1>a, <1>1, <3>2, <4>1 DEF RestoreOk, RestoreTypeOK
      <4>2. CASE f \notin todo[r]
        <5>1. restart[r]
          BY <1>a, <1>1, <2>3, <3>2, <4>2, IntoRestore DEF RestoreOk, RestartKept
        <5>. QED BY <1>a, <5>1, RestartGrows
      <4>. QED BY <2>3, <3>2, <4>1, <4>2
    <3>3. CASE pc[r] = "restore" /\ todo'[r] = todo[r]
      <4>1. restart[r]
        BY <1>a, <1>1, <2>3, <3>3, IntoRestore DEF RestartKept
      <4>. QED BY <1>a, <4>1, RestartGrows
    <3>. QED BY <1>a, <2>3, <3>1, <3>2, <3>3, IntoRestore
  <2>. QED BY <1>1, <2>1, <2>2, <2>3
<1>2. pc'[r] = "answered" => (rebooting'[r] <=> restart'[r] /\ EnableReboot)
  BY <1>a, IntoAnswered DEF RestartKept, Reboots
<1>. QED BY <1>b, <1>1, <1>2 DEF RestartKept

-----------------------------------------------------------------------------
(* The order of the groups. *)

LEMMA LeastNatural ==
  ASSUME NEW S \in SUBSET Nat, S # {}
  PROVE  \E n \in S : \A m \in S : n <= m
<1>1. PICK n \in S : \A m \in S : ~(<<m, n>> \in OpToRel(<, Nat))
  BY NatLessThanWellFounded, WFMin, Zenon
<1>2. \A m \in S : ~(m < n)
  BY <1>1, Zenon DEF OpToRel
<1>. QED BY <1>2

(* When all are known, no two neighbours inverted means that no two are.       *)
LEMMA KnownGroupsSorted ==
  ASSUME NEW s \in Seq(Item), NEW t \in GroupOrders(s), \A i \in DOMAIN t : t[i].id \in Group
  PROVE  \A i, j \in DOMAIN t : i < j => m_restoreOrder[t[i].id] <= m_restoreOrder[t[j].id]
<1> DEFINE n == Len(s)
           rank(i) == m_restoreOrder[t[i].id]
<1>1. n \in Nat /\ DOMAIN t = 1..n /\ \A i \in 1..(n - 1) : ~RestoredBefore(t[i + 1], t[i])
  BY LenProperties DEF GroupOrders
<1>2. \A i \in DOMAIN t : rank(i) \in Nat
  BY TablesAssumption
<1>3. \A i \in 1..(n - 1) : rank(i) <= rank(i + 1)
  <2> SUFFICES ASSUME NEW i \in 1..(n - 1) PROVE rank(i) <= rank(i + 1)
    OBVIOUS
  <2>1. i \in DOMAIN t /\ i + 1 \in DOMAIN t /\ ~RestoredBefore(t[i + 1], t[i])
    BY <1>1
  <2>2. ~(rank(i + 1) < rank(i))
    BY <2>1 DEF RestoredBefore
  <2>. QED BY <1>2, <2>1, <2>2
<1> HIDE DEF rank, n
<1> SUFFICES ASSUME NEW i \in DOMAIN t, NEW j \in DOMAIN t, i < j, rank(j) < rank(i)
             PROVE  FALSE
  BY <1>2 DEF rank
<1> DEFINE S == {k \in DOMAIN t : i < k /\ rank(k) < rank(i)}
<1>4. j \in S /\ S \subseteq Nat
  BY <1>1
<1>5. PICK k \in S : \A l \in S : k <= l
  BY <1>4, LeastNatural
<1>6. k - 1 \in DOMAIN t /\ k - 1 \in 1..(n - 1) /\ k \in DOMAIN t /\ i <= k - 1 /\ (k - 1) + 1 = k
  BY <1>1, <1>5
<1>7. rank(k - 1) <= rank(k)
  BY <1>3, <1>6
<1>8. /\ k \in Nat /\ i \in Nat /\ i < k /\ rank(k) < rank(i)
      /\ rank(k) \in Nat /\ rank(i) \in Nat /\ rank(k - 1) \in Nat
  BY <1>1, <1>2, <1>5, <1>6
<1>9. k - 1 # i
  BY <1>7, <1>8
<1>10. k - 1 \in S
  BY <1>6, <1>7, <1>8, <1>9
<1>. QED BY <1>5, <1>8, <1>10

LEMMA NamesAfterPush ==
  ASSUME RestoreTypeOK, NEW r \in Restores, NEW st \in ItemOutcome, PushStatus(r, st),
         Current(r).id \in ItemId, NEW i \in DOMAIN statusList'[r]
  PROVE  \/ i \in DOMAIN statusList[r] /\ statusList'[r][i] = statusList[r][i]
         \/ statusList'[r][i].name = Current(r).id
<1>0. PICK sd \in Status :
        statusList' = [statusList EXCEPT ![r] =
                         Append(@, [name |-> Current(r).id, outcome |-> st, status |-> sd])]
  BY DEF PushStatus, Said, Status
<1> DEFINE e == [name |-> Current(r).id, outcome |-> st, status |-> sd]
           s == statusList[r]
           E == ListEntry
<1>1. s \in Seq(E) /\ statusList'[r] = Append(s, e) /\ e \in E /\ e.name = Current(r).id
  BY <1>0 DEF RestoreTypeOK, ListEntry
<1> HIDE DEF e, s, E
<1>2. \/ i \in DOMAIN s /\ statusList'[r][i] = s[i]
      \/ statusList'[r][i] = e
  BY <1>1, AppendProperties, LenProperties
<1>. QED BY <1>1, <1>2 DEF s

LEMMA WorkerStepKeepsRanks ==
  ASSUME TypeOK, NEW r \in Restores, ItemsFromRequest(r), Books(r), OrderKept(r), WorkerStep(r)
  PROVE  OrderKept(r)'
<1>a. RestoreTypeOK /\ request' = request
  BY RequestKept DEF TypeOK
<1>b. isV1(r)' = isV1(r) /\ Requested(r)' = Requested(r)
  BY <1>a DEF isV1, Requested
<1> SUFFICES ASSUME ~isV1(r), {it.id : it \in Requested(r)} \subseteq Group,
                    NEW j \in DOMAIN items'[r]
             PROVE  /\ \A i \in DOMAIN items'[r] : i < j =>
                         m_restoreOrder[items'[r][i].id] <= m_restoreOrder[items'[r][j].id]
                    /\ \A i \in DOMAIN statusList'[r] :
                         m_restoreOrder[statusList'[r][i].name] <= m_restoreOrder[items'[r][j].id]
  BY <1>b DEF OrderKept
<1>1. CASE ~Settles(r)
  <2>1. items'[r] = items[r] /\ statusList'[r] = statusList[r]
    BY <1>1, <1>a, OtherStepsSettleNothing
  <2>. QED BY <2>1 DEF OrderKept
<1>2. CASE Accept(r)
  <2>1. request[r].items \in Seq(Item)
    BY <1>a, RequestFacts
  <2>2. items'[r] \in GroupOrders(request[r].items) /\ statusList'[r] = <<>>
    BY <1>a, <1>2 DEF Accept, Books, RestoreTypeOK
  <2>3. \A i \in DOMAIN items'[r] : items'[r][i].id \in Group
    <3>1. \A i \in DOMAIN items'[r] : \E k \in DOMAIN request[r].items :
            items'[r][i] = request[r].items[k]
      BY <2>1, <2>2, GroupOrdersPermute
    <3>2. \A i \in DOMAIN items'[r] : items'[r][i] \in Requested(r)
      BY <3>1 DEF Requested
    <3>. QED BY <3>2
  <2>. QED BY <2>1, <2>2, <2>3, KnownGroupsSorted
<1>3. CASE Settles(r) /\ ~Accept(r)
  <2>1. /\ items[r] # <<>> /\ Current(r).id \in ItemId /\ FinishItem(r)
        /\ \E st \in ItemOutcome : PushStatus(r, st)
    BY <1>3, SettlingStep DEF Settles, ItemOutcome
  <2>2. /\ 1 \in DOMAIN items[r] /\ items[r][1] = Current(r)
        /\ \A i \in DOMAIN items'[r] :
             i \in Nat /\ i + 1 \in DOMAIN items[r] /\ i + 1 # 1 /\ items'[r][i] = items[r][i + 1]
    BY <1>a, <2>1, ItemsAfterFinish
  <2>3. \A i \in DOMAIN items'[r] : i < j =>
          m_restoreOrder[items'[r][i].id] <= m_restoreOrder[items'[r][j].id]
    <3>1. \A i \in DOMAIN items'[r] : i < j => i + 1 < j + 1
      BY <2>2
    <3>. QED BY <2>2, <3>1 DEF OrderKept
  <2>4. m_restoreOrder[Current(r).id] <= m_restoreOrder[items'[r][j].id]
    <3>1. 1 < j + 1
      BY <2>2
    <3>. QED BY <2>2, <3>1 DEF OrderKept
  <2>5. ASSUME NEW i \in DOMAIN statusList'[r]
        PROVE  m_restoreOrder[statusList'[r][i].name] <= m_restoreOrder[items'[r][j].id]
    <3>1. \/ i \in DOMAIN statusList[r] /\ statusList'[r][i] = statusList[r][i]
          \/ statusList'[r][i].name = Current(r).id
      BY <1>a, <2>1, NamesAfterPush
    <3>. QED BY <2>2, <2>4, <3>1 DEF OrderKept
  <2>. QED BY <2>3, <2>5
<1>. QED BY <1>1, <1>2, <1>3

LEMMA FlagAndOrderStand ==
  ASSUME NEW q \in Restores, Bystander(q)
  PROVE  /\ RestartKept(q) => RestartKept(q)'
         /\ OrderKept(q) => OrderKept(q)'
<1>1. /\ isV1(q)' = isV1(q) /\ Requested(q)' = Requested(q) /\ Current(q)' = Current(q)
      /\ Entries(q, "SUCCESS")' = Entries(q, "SUCCESS")
  BY SameLoop DEF Bystander, Entries
<1>. QED BY <1>1 DEF Bystander, RestartKept, OrderKept

LEMMA InitFlagAndOrder == Init => \A q \in Restores : RestartKept(q) /\ OrderKept(q)
<1> SUFFICES ASSUME Init, NEW q \in Restores PROVE RestartKept(q) /\ OrderKept(q)
  OBVIOUS
<1>1. pc[q] = "license" /\ items[q] = <<>> /\ statusList[q] = <<>>
  BY DEF Init
<1>2. Entries(q, "SUCCESS") = {}
  BY <1>1 DEF Entries
<1>. QED BY <1>1, <1>2 DEF RestartKept, OrderKept

LEMMA StepKeepsFlagAndOrder ==
  ASSUME TypeInv, \A q \in Restores : Books(q), [Next]_vars,
         \A q \in Restores : RestartKept(q) /\ OrderKept(q)
  PROVE  \A q \in Restores : RestartKept(q)' /\ OrderKept(q)'
<1>1. ASSUME NEW r \in Restores, WorkerStep(r), NEW q \in Restores
      PROVE  RestartKept(q)' /\ OrderKept(q)'
  <2>1. CASE q = r
    BY <1>1, <2>1, WorkerStepKeepsRestart, WorkerStepKeepsRanks DEF TypeInv
  <2>2. CASE q # r
    <3>1. Bystander(q)
      BY <1>1, <2>2, OthersStandBy DEF TypeInv, TypeOK
    <3>. QED BY <3>1, FlagAndOrderStand
  <2>. QED BY <2>1, <2>2
<1>2. ASSUME UNCHANGED workerVars, NEW q \in Restores PROVE RestartKept(q)' /\ OrderKept(q)'
  <2>1. Bystander(q)
    BY <1>2 DEF workerVars, Bystander
  <2>. QED BY <2>1, FlagAndOrderStand
<1>. QED BY <1>1, <1>2 DEF Next, AgentStep, AllServed, vars

(* Whatever is reported SUCCESS in version 2.0 or 2.1 and needs a restart is     *)
(* followed by one, also when a later group failed or ended the request.       *)
THEOREM RestartFollows == Spec => []RestoredImpliesReboot
<1> DEFINE Kept == \A q \in Restores : RestartKept(q) /\ OrderKept(q)
           Bks == \A q \in Restores : Books(q)
<1>1. Kept => RestoredImpliesReboot
  BY DEF RestartKept, RestoredImpliesReboot
<1>2. TypeInv /\ Bks /\ Kept /\ [Next]_vars => TypeInv' /\ Bks' /\ Kept'
  BY StepKeepsTypes, StepKeepsBooks, StepKeepsFlagAndOrder
<1>3. Init => TypeInv /\ Bks /\ Kept
  BY InitTypes, InitBooks, InitFlagAndOrder
<1>. QED BY <1>1, <1>2, <1>3, PTL DEF Spec

(* The groups of a payload of known groups are finished in restore order: what   *)
(* the sort owes to the loop.                                                 *)
THEOREM GroupsInOrder == Spec => []GroupOrder
<1> DEFINE Kept == \A q \in Restores : RestartKept(q) /\ OrderKept(q)
           Bks == \A q \in Restores : Books(q)
<1>1. Kept => GroupOrder
  BY DEF OrderKept, GroupOrder
<1>2. TypeInv /\ Bks /\ Kept /\ [Next]_vars => TypeInv' /\ Bks' /\ Kept'
  BY StepKeepsTypes, StepKeepsBooks, StepKeepsFlagAndOrder
<1>3. Init => TypeInv /\ Bks /\ Kept
  BY InitTypes, InitBooks, InitFlagAndOrder
<1>. QED BY <1>1, <1>2, <1>3, PTL DEF Spec
=============================================================================
