---------------------------- MODULE SrrCrashProofs ---------------------------
(***************************************************************************)
(* What the invariants of SrrAgreementProofs are worth when a process ends or *)
(* the machine reboots under the requests: everything.  The end of a thread   *)
(* adds no claim, and what it has left in the mailboxes is about features it  *)
(* has claimed nothing of.                                                    *)
(*                                                                           *)
(* The second half shows that SrrRestore, whatever ends its process,          *)
(* implements SrrOutcome.  The one thing to see is that the agents hold what  *)
(* the verdicts say (ConfigByVerdict), which is the agreement of               *)
(* SrrAgreementProofs; then every step of a thread is a step of its item or    *)
(* none, and what agents do and the ends of threads are none at all.           *)
(***************************************************************************)
EXTENDS SrrRetry, SrrAgreementProofs

-----------------------------------------------------------------------------
(* An end of threads, as far as the invariant is concerned: calls are given up,  *)
(* messages are kept or lost, and a feature changes only by a message that was   *)
(* in a mailbox.                                                              *)
Ends ==
  /\ UNCHANGED workerVars
  /\ AgentsTypeOK' /\ InOrder'
  /\ \A t \in Thread : answer'[t] \in {NoAnswer, answer[t]}
  /\ \A a \in Agent : \A i \in DOMAIN queue'[a] :
       \E j \in DOMAIN queue[a] : SameLetter(queue[a][j], queue'[a][i])
  /\ \A f \in Feature : store'[f] # store[f] => \E u \in Writers(f) : InTheMail(u, f)

LEMMA EndShrinks ==
  ASSUME RestoreTypeOK, NEW q \in Restores, ItemsFromRequest(q), Bystander(q), request' = request,
         answer'[q] \in {NoAnswer, answer[q]}
  PROVE  ClaimsShrink(q)
<1>1. BackedUp(q)' = BackedUp(q) /\ (\A f : Through(q, f)' => Through(q, f))
  BY SameLoop DEF Bystander, Through, NoAnswer
<1>2. Begun(q)' <=> Begun(q)
  <2>1. /\ Current(q)' = Current(q) /\ MissingRequired(q)' = MissingRequired(q) /\ isV1(q)' = isV1(q)
        /\ \A id : Known(q, id)' = Known(q, id)
    BY SameRequest, SameLoop
  <2>. QED BY <2>1 DEF Bystander, Begun
<1>3. Onward(q)
  BY <1>1, <1>2 DEF Onward, Bystander
<1>. QED BY <1>3, OnwardShrinks

LEMMA EndKeepsLoops ==
  ASSUME RestoreInv, Ends
  PROVE  LoopsInOrder'
<1>1. \A q \in Restores : Bystander(q) /\ q \in Thread
  BY PayloadAssumption DEF Ends, workerVars, Bystander
<1>2. ASSUME NEW q \in Restores PROVE CallOfLoop(q)'
  <2>1. CASE answer'[q] = NoAnswer
    <3>1. Idle(q)'
      BY <2>1 DEF Idle, NoAnswer
    <3>. QED BY <3>1, NoCallNoDuty DEF Ends
  <2>2. CASE answer'[q] = answer[q]
    <3>1. NoNewMail(q)
      BY DEF NoNewMail, Ends
    <3>. QED BY <1>1, <2>2, <3>1, CallStands DEF RestoreInv, LoopsInOrder
  <2>. QED BY <1>1, <2>1, <2>2 DEF Ends
<1>3. \A q \in Restores : LoopBounds(q)' /\ ItemsOnce(q)'
  BY <1>1, BoundsStand, OnceStands DEF RestoreInv, LoopsInOrder
<1>. QED BY <1>2, <1>3 DEF LoopsInOrder, Ends

LEMMA EndKeepsAgreement ==
  ASSUME RestoreInv, Ends
  PROVE  SInv'
<1>a. /\ RestoreTypeOK /\ SInv /\ request' = request
      /\ \A q \in Restores : ItemsFromRequest(q) /\ Bystander(q) /\ q \in Thread
  BY PayloadAssumption DEF RestoreInv, TypeInv, TypeOK, Ends, workerVars, Bystander
<1>b. /\ \A q \in Restores : Scope(q)' = Scope(q) /\ Contended(q)' = Contended(q)
      /\ \A f : Writers(f)' = Writers(f)
  BY <1>a, SameScopes
<1>c. \A q \in Restores : ClaimsShrink(q)
  BY <1>a, EndShrinks DEF Ends
<1>1. \A q, f : InTheMail(q, f)' => InTheMail(q, f)
  <2> SUFFICES ASSUME NEW q, NEW f, NEW a \in Agent, NEW i \in DOMAIN queue'[a],
                      queue'[a][i].from = q, queue'[a][i].feature = f, Changes(queue'[a][i])
               PROVE  InTheMail(q, f)
    BY DEF InTheMail, Changes
  <2>1. PICK j \in DOMAIN queue[a] : SameLetter(queue[a][j], queue'[a][i])
    BY DEF Ends
  <2>. QED BY <2>1 DEF InTheMail, SameLetter, Changes
<1>2. NothingLate'
  <2>1. ASSUME NEW a \in Agent, NEW i \in DOMAIN queue'[a]
        PROVE  Changes(queue'[a][i]) =>
                 queue'[a][i].from \in Restores /\ queue'[a][i].feature \in Scope(queue'[a][i].from)
    <3>1. PICK j \in DOMAIN queue[a] : SameLetter(queue[a][j], queue'[a][i])
      BY DEF Ends
    <3>. QED BY <1>a, <3>1 DEF SInv, NothingLate, SameLetter, Changes
  <2>2. ASSUME NEW q \in Restores, NEW f \in Feature, Done(q, f)' \/ AsFound(q, f)'
        PROVE  ~InTheMail(q, f)'
    BY <1>a, <1>c, <1>1, <2>2 DEF ClaimsShrink, SInv, NothingLate
  <2>. QED BY <1>b, <2>1, <2>2 DEF NothingLate, Changes
(* A feature that every one of its writers claims something of is left alone.   *)
<1>3. ASSUME NEW f \in Feature, \A u \in Writers(f) : Done(u, f) \/ AsFound(u, f)
      PROVE  store'[f] = store[f]
  BY <1>a, <1>3 DEF Ends, SInv, NothingLate, Writers
<1>4. Composed'
  <2> SUFFICES ASSUME NEW f \in Feature, Writers(f) # {}, \A q \in Writers(f) : Done(q, f)'
               PROVE  store'[f] \in Writers(f)
    BY <1>b DEF Composed
  <2>1. \A q \in Writers(f) : Done(q, f)
    BY <1>c DEF ClaimsShrink, Writers
  <2>. QED BY <1>a, <1>3, <2>1 DEF SInv, Composed
<1>5. ASSUME NEW q \in Restores PROVE KeptAsFound(q)'
  <2>1. /\ pc'[q] = pc[q] /\ backup'[q] = backup[q] /\ BackedUp(q)' = BackedUp(q)
        /\ answer'[q] \in {NoAnswer, answer[q]} /\ KeptAsFound(q)
    BY <1>a, SameLoop DEF Bystander, Ends, SInv
  <2>2. ASSUME NEW f \in Scope(q) \ Contended(q), AsFound(q, f)' PROVE store'[f] = Initial
    <3>1. AsFound(q, f)
      BY <1>c, <2>2 DEF ClaimsShrink
    <3>2. f \in Feature /\ Writers(f) = {q}
      BY OnlyWriter
    <3>3. store'[f] = store[f]
      BY <1>3, <3>1, <3>2
    <3>. QED BY <2>1, <3>1, <3>3 DEF KeptAsFound
  <2>3. answer'[q].kind = "ok" => answer'[q] = answer[q]
    BY <2>1 DEF NoAnswer
  <2>. QED BY <1>b, <2>1, <2>2, <2>3 DEF KeptAsFound
<1>6. ASSUME NEW f \in Feature, Writers(f) = {} PROVE store'[f] = Initial
  BY <1>a, <1>3, <1>6 DEF SInv
<1>. QED BY <1>b, <1>2, <1>4, <1>5, <1>6 DEF SInv

LEMMA EndKeepsInvariant ==
  ASSUME RestoreInv, Ends
  PROVE  RestoreInv'
<1>1. \A q \in Restores : Bystander(q)
  BY DEF Ends, workerVars, Bystander
<1>2. TypeInv'
  <2>1. RestoreTypeOK'
    BY DEF Ends, workerVars, RestoreTypeOK, RestoreInv, TypeInv, TypeOK
  <2>2. \A q \in Restores : ItemsFromRequest(q)'
    BY DEF Ends, workerVars, ItemsFromRequest, Requested, Known, Current, isV1, RestoreInv, TypeInv
  <2>. QED BY <2>1, <2>2 DEF Ends, TypeInv, TypeOK
<1>3. \A q \in Restores : Books(q)'
  BY BooksFrame DEF RestoreInv, Ends, workerVars
<1>4. \A q \in Restores : RestartKept(q)' /\ OrderKept(q)'
  BY <1>1, FlagAndOrderStand DEF RestoreInv
<1>5. \A q \in Restores : EntriesKept(q)' /\ LeftOff(q)'
  BY <1>1, ReportStands DEF RestoreInv, Ends, workerVars
<1>. QED BY <1>2, <1>3, <1>4, <1>5, EndKeepsLoops, EndKeepsAgreement DEF RestoreInv

-----------------------------------------------------------------------------
(* The ends there are.                                                        *)

LEMMA ThreadsEndAnswers ==
  ASSUME AgentsTypeOK, ThreadsEnd
  PROVE  /\ answer' \in [Thread -> Answer]
         /\ \A t \in Thread : answer'[t] = IF t \in InProcess THEN NoAnswer ELSE answer[t]
<1>1. NoAnswer \in Answer
  BY NoNoneAmongConfigurations DEF NoAnswer, Answer, AnswerKind
<1>. QED BY <1>1 DEF AgentsTypeOK, ThreadsEnd

LEMMA DaemonDiesEffect ==
  ASSUME AgentsTypeOK, DaemonDies
  PROVE  /\ queue' \in [Agent -> Seq(Message)]
         /\ \A a \in Agent : DOMAIN queue'[a] = DOMAIN queue[a]
         /\ \A a \in Agent : \A i \in DOMAIN queue[a] :
              /\ queue'[a][i].from = queue[a][i].from /\ queue'[a][i].op = queue[a][i].op
              /\ queue'[a][i].feature = queue[a][i].feature
              /\ queue'[a][i].data = queue[a][i].data
              /\ queue'[a][i].awaited <=> queue[a][i].awaited /\ queue[a][i].from \notin InProcess
<1> DEFINE forget(m) == [m EXCEPT !.awaited = @ /\ m.from \notin InProcess]
           left(q) == [i \in DOMAIN q |-> forget(q[i])]
<1>1. queue' = [a \in Agent |-> left(queue[a])]
  BY DEF DaemonDies
<1>2. ASSUME NEW m \in Message
      PROVE  /\ forget(m) \in Message
             /\ forget(m).from = m.from /\ forget(m).op = m.op /\ forget(m).feature = m.feature
             /\ forget(m).data = m.data
             /\ forget(m).awaited <=> m.awaited /\ m.from \notin InProcess
  <2>1. (m.awaited /\ m.from \notin InProcess) \in BOOLEAN
    OBVIOUS
  <2>. QED BY <2>1 DEF Message
<1>3. \A a \in Agent : \A i \in DOMAIN queue[a] : queue[a][i] \in Message
  BY MessageTypes
<1> HIDE DEF forget
<1>4. ASSUME NEW a \in Agent PROVE left(queue[a]) \in Seq(Message)
  <2>1. queue[a] \in Seq(Message)
    BY DEF AgentsTypeOK
  <2>2. DOMAIN queue[a] = 1..Len(queue[a]) /\ Len(queue[a]) \in Nat
    BY <2>1
  <2>3. \A i \in 1..Len(queue[a]) : forget(queue[a][i]) \in Message
    BY <1>2, <1>3, <2>2
  <2>. QED BY <2>2, <2>3, IsASeq
<1>5. queue' \in [Agent -> Seq(Message)]
  BY <1>1, <1>4
<1>6. \A a \in Agent : DOMAIN queue'[a] = DOMAIN queue[a]
  BY <1>1
<1>7. \A a \in Agent : \A i \in DOMAIN queue[a] : queue'[a][i] = forget(queue[a][i])
  BY <1>1
<1>. QED BY <1>2, <1>3, <1>5, <1>6, <1>7

(* A process that dies takes its calls with it, and leaves its messages.        *)
LEMMA DaemonDiesEnds ==
  ASSUME RestoreInv, DaemonDies
  PROVE  Ends
<1>a. AgentsTypeOK /\ InOrder
  BY DEF RestoreInv, TypeInv, TypeOK, LoopsInOrder
<1>1. /\ answer' \in [Thread -> Answer]
      /\ \A t \in Thread : answer'[t] = IF t \in InProcess THEN NoAnswer ELSE answer[t]
  BY <1>a, ThreadsEndAnswers DEF DaemonDies
<1>2. /\ queue' \in [Agent -> Seq(Message)]
      /\ \A a \in Agent : DOMAIN queue'[a] = DOMAIN queue[a]
      /\ \A a \in Agent : \A i \in DOMAIN queue[a] :
              /\ queue'[a][i].from = queue[a][i].from /\ queue'[a][i].op = queue[a][i].op
              /\ queue'[a][i].feature = queue[a][i].feature
              /\ queue'[a][i].data = queue[a][i].data
              /\ queue'[a][i].awaited <=> queue[a][i].awaited /\ queue[a][i].from \notin InProcess
  BY <1>a, DaemonDiesEffect
<1>3. UNCHANGED workerVars /\ store' = store
  BY DEF DaemonDies, ThreadsEnd
<1>4. AgentsTypeOK'
  BY <1>a, <1>1, <1>2, <1>3 DEF AgentsTypeOK
<1>5. MailboxesInOrder'
  <2> SUFFICES ASSUME NEW a \in Agent, NEW i \in DOMAIN queue'[a]
               PROVE  /\ m_agent[queue'[a][i].feature] = a
                      /\ queue'[a][i].awaited =>
                           /\ answer'[queue'[a][i].from].kind = "pending"
                           /\ answer'[queue'[a][i].from].feature = queue'[a][i].feature
                           /\ \A j \in DOMAIN queue'[a] : j > i => queue'[a][j].from # queue'[a][i].from
    BY DEF MailboxesInOrder
  <2>1. i \in DOMAIN queue[a] /\ queue[a][i].from \in Thread
    BY <1>a, <1>2, MessageTypes
  <2>2. queue'[a][i].awaited => answer'[queue[a][i].from] = answer[queue[a][i].from]
    BY <1>1, <1>2, <2>1
  <2>. QED BY <1>a, <1>2, <2>1, <2>2 DEF InOrder, MailboxesInOrder
<1>6. CallsPosted'
  <2> SUFFICES ASSUME NEW t \in Thread, answer'[t].kind = "pending"
               PROVE  /\ answer'[t].feature \in Feature
                      /\ \E i \in DOMAIN queue'[m_agent[answer'[t].feature]] :
                           /\ queue'[m_agent[answer'[t].feature]][i].from = t
                           /\ queue'[m_agent[answer'[t].feature]][i].awaited
    BY DEF CallsPosted
  <2>1. t \notin InProcess /\ answer'[t] = answer[t]
    BY <1>1 DEF NoAnswer
  <2> DEFINE b == m_agent[answer[t].feature]
  <2>2. answer[t].feature \in Feature /\ b \in Agent
    BY <1>a, <2>1, TablesAssumption DEF InOrder, CallsPosted
  <2>3. PICK i \in DOMAIN queue[b] : queue[b][i].from = t /\ queue[b][i].awaited
    BY <1>a, <2>1 DEF InOrder, CallsPosted
  <2>4. i \in DOMAIN queue'[b] /\ queue'[b][i].from = t /\ queue'[b][i].awaited
    BY <1>2, <2>1, <2>2, <2>3
  <2>. QED BY <2>1, <2>2, <2>4
<1>7. \A a \in Agent : \A i \in DOMAIN queue'[a] :
        \E j \in DOMAIN queue[a] : SameLetter(queue[a][j], queue'[a][i])
  BY <1>2 DEF SameLetter
<1>. QED BY <1>1, <1>3, <1>4, <1>5, <1>6, <1>7 DEF Ends, InOrder

(* What an agent may hold when the machine goes down was either there or is what *)
(* a message in its mailbox makes of it.                                       *)
LEMMA CaughtByType ==
  ASSUME RestoreInv, NEW f \in Feature
  PROVE  /\ CaughtBy(f) \subseteq Data \ {None}
         /\ \A d \in CaughtBy(f) : d # store[f] => \E u \in Writers(f) : InTheMail(u, f)
<1>a. AgentsTypeOK /\ NothingLate /\ Restores \subseteq Thread
  BY PayloadAssumption DEF RestoreInv, TypeInv, TypeOK, SInv
<1> DEFINE a == m_agent[f]
           m == Head(queue[a])
<1>1. store[f] \in Data \ {None} /\ a \in Agent /\ queue[a] \in Seq(Message)
  BY <1>a, TablesAssumption DEF AgentsTypeOK
<1>2. CASE queue[a] # <<>> /\ m.feature = f
  <2>1. 1 \in DOMAIN queue[a] /\ m = queue[a][1] /\ m \in Message
    BY <1>1, <1>2
  <2>2. CaughtBy(f) = Outcomes(m, "failed")
    BY <1>2 DEF CaughtBy
  <2>3. CASE Changes(m)
    <3>1. Applied(m) \in Data \ {None} /\ Undefined \in Data \ {None}
      BY <1>1, <1>2, <2>1, <2>3, NoNoneAmongConfigurations DEF Applied, Changes, Message
    <3>2. Outcomes(m, "failed") = {Applied(m), store[f], Undefined}
      BY <1>2, <2>3 DEF Outcomes
    <3>3. m.from \in Writers(f) /\ InTheMail(m.from, f)
      BY <1>a, <1>1, <1>2, <2>1, <2>3 DEF NothingLate, Writers, InTheMail
    <3>. QED BY <1>1, <2>2, <3>1, <3>2, <3>3
  <2>4. CASE ~Changes(m)
    <3>1. Outcomes(m, "failed") = {store[f]}
      BY <1>2, <2>1, <2>4 DEF Outcomes, Applied, Changes
    <3>. QED BY <1>1, <2>2, <3>1
  <2>. QED BY <2>3, <2>4
<1>3. CASE ~(queue[a] # <<>> /\ m.feature = f)
  BY <1>1, <1>3 DEF CaughtBy
<1>. QED BY <1>2, <1>3

(* A request that is lost waits for nothing, nor does a thread that serves none. *)
CrashInv ==
  /\ RestoreInv /\ lost \subseteq Restores
  /\ \A t \in lost \cup (Thread \ Restores) : Idle(t)

(* The reboot ends every thread with its mailboxes.                            *)
LEMMA RebootEnds ==
  ASSUME CrashInv, NEW r \in Restores, Reboot(r)
  PROVE  Ends
<1>a. RestoreInv /\ AgentsTypeOK /\ InOrder /\ NothingLate /\ Restores \subseteq Thread
  BY PayloadAssumption DEF CrashInv, RestoreInv, TypeInv, TypeOK, LoopsInOrder, SInv
<1>1. /\ answer' \in [Thread -> Answer]
      /\ \A t \in Thread : answer'[t] = IF t \in InProcess THEN NoAnswer ELSE answer[t]
  BY <1>a, ThreadsEndAnswers DEF Reboot
<1>2. queue' = [a \in Agent |-> <<>>] /\ UNCHANGED workerVars
  BY DEF Reboot, ThreadsEnd
<1>3. store' \in [Feature -> Data \ {None}] /\ \A f \in Feature : store'[f] \in CaughtBy(f)
  <2>1. /\ store' \in [Feature -> UNION {CaughtBy(f) : f \in Feature}]
        /\ \A f \in Feature : store'[f] \in CaughtBy(f)
    BY DEF Reboot
  <2>. QED BY <1>a, <2>1, CaughtByType
<1>4. AgentsTypeOK'
  <2>1. queue' \in [Agent -> Seq(Message)]
    BY <1>2
  <2>. QED BY <1>1, <1>3, <2>1 DEF AgentsTypeOK
<1>5. ASSUME NEW t \in Thread PROVE answer'[t].kind # "pending"
  <2>1. CASE t \in InProcess
    BY <1>1, <2>1 DEF NoAnswer
  <2>2. CASE t \in Restores \ InProcess
    <3>1. t \in lost \/ pc[t] = "license"
      BY <2>2 DEF InProcess
    <3>2. Idle(t)
      BY <1>a, <2>2, <3>1 DEF CrashInv, RestoreInv, LoopsInOrder, CallOfLoop, CallPhase
    <3>. QED BY <1>1, <2>2, <3>2 DEF Idle
  <2>3. CASE t \notin Restores
    BY <1>1, <2>3 DEF InProcess, CrashInv, Idle
  <2>. QED BY <2>1, <2>2, <2>3
<1>6. InOrder'
  BY <1>2, <1>5 DEF InOrder, MailboxesInOrder, CallsPosted
<1>7. \A f \in Feature : store'[f] # store[f] => \E u \in Writers(f) : InTheMail(u, f)
  BY <1>a, <1>3, CaughtByType
<1>. QED BY <1>1, <1>2, <1>4, <1>6, <1>7 DEF Ends

-----------------------------------------------------------------------------
(* The invariant of the system that crashes. *)

LEMMA InitCrashInv == CrashInit => CrashInv
BY InitRestoreInv, PayloadAssumption DEF CrashInit, CrashInv, Init, AgentsInit, Idle, NoAnswer

LEMMA StepLeavesLostAlone ==
  ASSUME CrashInv, NEW q \in lost \cup (Thread \ Restores),
         \/ \E r \in Restores \ lost : WorkerStep(r)
         \/ \E a \in Agent : AgentStep(a)
  PROVE  Idle(q)'
<1>a. /\ TypeOK /\ AgentsTypeOK /\ RestoreTypeOK /\ InOrder /\ q \in Thread /\ Idle(q)
      /\ \A r \in Restores : ItemsFromRequest(r) /\ CallOfLoop(r)
  BY PayloadAssumption DEF CrashInv, RestoreInv, TypeInv, TypeOK, LoopsInOrder
<1>1. ASSUME NEW r \in Restores \ lost, WorkerStep(r) PROVE Idle(q)'
  <2>1. answer'[q] = answer[q]
    BY <1>a, <1>1, MailOfWorkerStep DEF TypeOK
  <2>. QED BY <1>a, <2>1 DEF Idle
<1>2. ASSUME NEW a \in Agent, AgentStep(a) PROVE Idle(q)'
  <2>1. PICK kind \in ReplyKind : Serve(a, kind)
    BY <1>2 DEF AgentStep
  <2>2. ServeDoes(a, kind)
    BY <1>a, <2>1, ServeEffect
  <2>3. queue[a][1].awaited => queue[a][1].from # q
    BY <1>a, <2>2 DEF ServeDoes, InOrder, MailboxesInOrder, Idle
  <2>4. answer'[q] = answer[q]
    BY <1>a, <2>2, <2>3 DEF ServeDoes
  <2>. QED BY <1>a, <2>4 DEF Idle
<1>. QED BY <1>1, <1>2

LEMMA EndKeepsCrashInv ==
  ASSUME CrashInv, Ends, ThreadsEnd
  PROVE  CrashInv'
<1>a. RestoreInv /\ AgentsTypeOK /\ Restores \subseteq Thread
  BY PayloadAssumption DEF CrashInv, RestoreInv, TypeInv, TypeOK
<1>1. RestoreInv'
  BY <1>a, EndKeepsInvariant
<1>2. lost' = lost \cup InProcess /\ InProcess \subseteq Restores
  BY DEF ThreadsEnd, InProcess
<1>3. ASSUME NEW q \in lost' \cup (Thread \ Restores) PROVE Idle(q)'
  <2>1. q \in Thread /\ (q \in InProcess \/ Idle(q))
    BY <1>a, <1>2 DEF CrashInv
  <2>2. answer'[q] = NoAnswer \/ (answer'[q] = answer[q] /\ Idle(q))
    BY <1>a, <2>1, ThreadsEndAnswers
  <2>. QED BY <2>2 DEF Idle, NoAnswer
<1>. QED BY <1>1, <1>2, <1>3 DEF CrashInv

LEMMA StepKeepsCrashInv ==
  ASSUME Reporting, CrashInv, [CrashNext]_crashVars
  PROVE  CrashInv'
<1>a. RestoreInv /\ lost \subseteq Restores
  BY DEF CrashInv
<1>1. CASE \/ \E r \in Restores \ lost : WorkerStep(r) /\ UNCHANGED lost
           \/ \E a \in Agent : AgentStep(a) /\ UNCHANGED lost
  <2>1. [Next]_vars /\ lost' = lost
    BY <1>1 DEF Next
  <2>2. RestoreInv'
    BY <1>a, <2>1, StepKeepsRestoreInv
  <2>3. \A q \in lost \cup (Thread \ Restores) : Idle(q)'
    BY <1>1, StepLeavesLostAlone
  <2>. QED BY <1>a, <2>1, <2>2, <2>3 DEF CrashInv
<1>2. CASE DaemonDies
  BY <1>a, <1>2, DaemonDiesEnds, EndKeepsCrashInv DEF DaemonDies
<1>3. CASE \E r \in Restores : Reboot(r)
  BY <1>3, RebootEnds, EndKeepsCrashInv DEF Reboot
<1>4. CASE UNCHANGED crashVars
  <2>1. UNCHANGED vars /\ lost' = lost /\ answer' = answer
    BY <1>4 DEF crashVars, vars, agentVars
  <2>2. RestoreInv'
    BY <1>a, <2>1, StepKeepsRestoreInv
  <2>. QED BY <2>1, <2>2 DEF CrashInv, Idle
<1>. QED BY <1>1, <1>2, <1>3, <1>4 DEF CrashNext, AllOver

-----------------------------------------------------------------------------
(* The theorems. *)

(* Whatever process ends and whenever the machine reboots, what the threads took *)
(* for restored or rolled back is what the agents hold.                        *)
THEOREM CrashAgreement == Reporting => (CrashSpec => []AInv)
<1> SUFFICES ASSUME Reporting PROVE CrashSpec => []AInv
  OBVIOUS
<1>1. CrashInv => AInv
  BY InvAgreed DEF CrashInv
<1>. QED BY <1>1, InitCrashInv, StepKeepsCrashInv, PTL DEF CrashSpec

(* A reply is matched with the call it answers, also by a process that serves     *)
(* requests while the mailboxes hold what the one before it had sent.           *)
THEOREM CrashCorrelation == Reporting => (CrashSpec => []CorrelatedReply)
<1> SUFFICES ASSUME Reporting PROVE CrashSpec => []CorrelatedReply
  OBVIOUS
<1>1. CrashInv => CorrelatedReply
  BY OrderMatchesReplies DEF CrashInv, RestoreInv, TypeInv, TypeOK, LoopsInOrder
<1>. QED BY <1>1, InitCrashInv, StepKeepsCrashInv, PTL DEF CrashSpec

(* An item that was reported SUCCESS holds what its payload carries after the     *)
(* process or the machine has gone down, too.                                  *)
THEOREM CrashRestoredHolds == Reporting => (CrashSpec => []SuccessMeansRestored)
<1> SUFFICES ASSUME Reporting PROVE CrashSpec => []SuccessMeansRestored
  OBVIOUS
<1>1. CrashInv => SuccessMeansRestored
  BY InvRestored DEF CrashInv
<1>. QED BY <1>1, InitCrashInv, StepKeepsCrashInv, PTL DEF CrashSpec

(* So does an item rolled back hold what it held before the request.              *)
THEOREM CrashRolledBack == Reporting => (CrashSpec => []FailedMeansRolledBack)
<1> SUFFICES ASSUME Reporting PROVE CrashSpec => []FailedMeansRolledBack
  OBVIOUS
<1>1. CrashInv => FailedMeansRolledBack
  BY InvRolledBack DEF CrashInv
<1>. QED BY <1>1, InitCrashInv, StepKeepsCrashInv, PTL DEF CrashSpec

(* A request that comes while messages of a dead process are still carried out    *)
(* finds the features it goes on with in the state their dependants need.        *)
THEOREM CrashDependenciesHold == Reporting => (CrashSpec => []DependenciesFirst)
<1> SUFFICES ASSUME Reporting PROVE CrashSpec => []DependenciesFirst
  OBVIOUS
<1>1. CrashInv => DependenciesFirst
  BY InvDependencies DEF CrashInv
<1>. QED BY <1>1, InitCrashInv, StepKeepsCrashInv, PTL DEF CrashSpec

(* Requests for the same features that all report them restored leave one of     *)
(* their configurations, however many processes they ran in.                    *)
THEOREM CrashRestoresCompose == Reporting => (CrashSpec => []SuccessfulRestoresCompose)
<1> SUFFICES ASSUME Reporting PROVE CrashSpec => []SuccessfulRestoresCompose
  OBVIOUS
<1>1. CrashInv => SuccessfulRestoresCompose
  BY InvComposed DEF CrashInv
<1>. QED BY <1>1, InitCrashInv, StepKeepsCrashInv, PTL DEF CrashSpec

-----------------------------------------------------------------------------
(* The outcome: what the verdicts say of the agents.                          *)

(* What the verdicts say of a feature, without a look at the agents.           *)
ConfigOf(r, f) ==
  IF \E id \in Ids(r) : f \in OpenOf(r, id) THEN "open"
  ELSE IF \E id \in Ids(r) : VerdictOf(r, id) = "SUCCESS" /\ f \in CarriedOf(r, id)
  THEN "restored" ELSE "kept"

ConfigFollows == \A r \in Restores : \A f \in Feature : configKept[r][f] = ConfigOf(r, f)

LEMMA ItemOfId ==
  ASSUME RestoreTypeOK, NEW r \in Restores, NEW it \in Requested(r)
  PROVE  /\ ItemOf(r, it.id) = it /\ it.id \in Ids(r)
         /\ OwnOf(r, it.id) = Writable(r, it) \ Contended(r)
         /\ CarriedOf(r, it.id) = (Writable(r, it) \ Contended(r)) \cap it.features
<1>1. ItemOf(r, it.id) = it
  BY RequestedOnce DEF ItemOf
<1>. QED BY <1>1 DEF Ids, OwnOf, CarriedOf, Promised

(* A feature is promised with one item only.                                  *)
LEMMA OwnOnce ==
  ASSUME RestoreTypeOK, NEW r \in Restores, NEW i \in Ids(r), NEW j \in Ids(r),
         NEW f \in OwnOf(r, i) \cap OwnOf(r, j)
  PROVE  i = j
<1>1. PICK it \in Requested(r) : it.id = i
  BY DEF Ids
<1>2. PICK jt \in Requested(r) : jt.id = j
  BY DEF Ids
<1>3. f \in Writable(r, it) /\ f \in Writable(r, jt)
  BY <1>1, <1>2, ItemOfId
<1>4. it = jt
  BY <1>3, OneItem
<1>. QED BY <1>1, <1>2, <1>4

(* The verdict is not pending: the item is at work or reported.                *)
LEMMA VerdictCases ==
  ASSUME NEW r, NEW id
  PROVE  /\ VerdictOf(r, id) \in {"working", "SUCCESS", "FAILED", "pending"}
         /\ VerdictOf(r, id) = "working" <=> AtWork(r, id)
         /\ VerdictOf(r, id) = "SUCCESS" <=> ~AtWork(r, id) /\ id \in Entries(r, "SUCCESS")
         /\ VerdictOf(r, id) = "FAILED" <=>
              ~AtWork(r, id) /\ id \in Entries(r, "FAILED") \ Entries(r, "SUCCESS")
         /\ VerdictOf(r, id) = "pending" <=>
              ~AtWork(r, id) /\ id \notin Entries(r, "FAILED") \cup Entries(r, "SUCCESS")
<1>1. CASE AtWork(r, id)
  BY <1>1 DEF VerdictOf
<1>2. CASE ~AtWork(r, id) /\ id \in Entries(r, "SUCCESS")
  BY <1>2 DEF VerdictOf
<1>3. CASE ~AtWork(r, id) /\ id \in Entries(r, "FAILED") \ Entries(r, "SUCCESS")
  BY <1>3 DEF VerdictOf
<1>4. CASE ~AtWork(r, id) /\ id \notin Entries(r, "FAILED") \cup Entries(r, "SUCCESS")
  BY <1>4 DEF VerdictOf
<1>. QED BY <1>1, <1>2, <1>3, <1>4

LEMMA OpenCases ==
  ASSUME NEW r, NEW id
  PROVE  /\ OpenOf(r, id) \subseteq OwnOf(r, id)
         /\ VerdictOf(r, id) = "working" => OpenOf(r, id) = OwnOf(r, id)
         /\ VerdictOf(r, id) = "SUCCESS" => OpenOf(r, id) = OwnOf(r, id) \ CarriedOf(r, id)
         /\ VerdictOf(r, id) = "FAILED" =>
              OpenOf(r, id) = OwnOf(r, id) \cap (unbacked[r] \cup unrecoverable[r])
         /\ VerdictOf(r, id) = "pending" => OpenOf(r, id) = {}
<1>1. CASE VerdictOf(r, id) = "working"
  BY <1>1 DEF OpenOf
<1>2. CASE VerdictOf(r, id) = "SUCCESS"
  BY <1>2 DEF OpenOf
<1>3. CASE VerdictOf(r, id) = "FAILED"
  BY <1>3 DEF OpenOf
<1>4. CASE VerdictOf(r, id) = "pending"
  BY <1>4 DEF OpenOf
<1>. QED BY <1>1, <1>2, <1>3, <1>4, VerdictCases

(* The agents hold what the verdicts say.                                     *)
LEMMA ConfigByVerdict == RestoreInv => ConfigFollows
<1> SUFFICES ASSUME RestoreInv, NEW r \in Restores, NEW f \in Feature
             PROVE  configKept[r][f] = ConfigOf(r, f)
  BY DEF ConfigFollows
<1>a. RestoreTypeOK /\ SInv /\ r \in Thread
  BY PayloadAssumption DEF RestoreInv, TypeInv, TypeOK
<1> DEFINE open == \E id \in Ids(r) : f \in OpenOf(r, id)
           restored == \E id \in Ids(r) : VerdictOf(r, id) = "SUCCESS" /\ f \in CarriedOf(r, id)
<1>1. configKept[r][f] =
        IF open THEN "open"
        ELSE IF f \in Contended(r) \/ store[f] = Initial THEN "kept"
        ELSE IF store[f] = r THEN "restored" ELSE "disturbed"
  BY DEF configKept
<1>2. ConfigOf(r, f) = IF open THEN "open" ELSE IF restored THEN "restored" ELSE "kept"
  BY DEF ConfigOf
<1>3. ASSUME restored PROVE f \notin Contended(r) /\ store[f] = r /\ r # Initial
  <2>1. PICK id \in Ids(r) : VerdictOf(r, id) = "SUCCESS" /\ f \in CarriedOf(r, id)
    BY <1>3
  <2>2. PICK it \in Requested(r) : it.id = id
    BY DEF Ids
  <2>3. f \in it.features \cap Writable(r, it) /\ f \notin Contended(r)
    BY <1>a, <2>1, <2>2, ItemOfId
  <2>4. Done(r, f)
    BY <2>1, <2>2, <2>3, VerdictCases DEF Done
  <2>. QED BY <1>a, <2>3, <2>4, DoneHolds, AgentsAssumption
<1>4. ASSUME ~open, ~restored, f \notin Contended(r) PROVE store[f] = Initial
  <2>1. CASE f \in Scope(r)
    <3>1. PICK it \in Requested(r) : f \in Writable(r, it)
      BY <2>1 DEF Scope
    <3>2. it.id \in Ids(r) /\ f \in OwnOf(r, it.id)
      BY <1>a, <1>4, <3>1, ItemOfId
    <3>3. f \notin OpenOf(r, it.id)
      BY <1>4, <3>2
    <3>4. VerdictOf(r, it.id) # "working"
      BY <3>2, <3>3, OpenCases
    <3>5. VerdictOf(r, it.id) # "SUCCESS"
      BY <1>4, <3>2, <3>3, OpenCases
    <3>6. CASE VerdictOf(r, it.id) = "FAILED"
      <4>1. ~AtWork(r, it.id) /\ it.id \in Entries(r, "FAILED")
            /\ f \notin unbacked[r] \cup unrecoverable[r]
        BY <3>2, <3>3, <3>6, VerdictCases, OpenCases
      <4>2. AsFound(r, f)
        BY <3>1, <4>1 DEF AsFound
      <4>. QED BY <1>a, <1>4, <2>1, <4>2 DEF SInv, KeptAsFound
    <3>7. CASE VerdictOf(r, it.id) = "pending"
      <4>1. ~AtWork(r, it.id) /\ ~Reported(r, it)
        BY <1>a, <3>7, VerdictCases, ReportedHow
      <4>2. AsFound(r, f)
        BY <3>1, <4>1 DEF AsFound
      <4>. QED BY <1>a, <1>4, <2>1, <4>2 DEF SInv, KeptAsFound
    <3>. QED BY <3>4, <3>5, <3>6, <3>7, VerdictCases
  <2>2. CASE f \notin Scope(r)
    <3>1. Writers(f) = {}
      BY <1>4, <2>2 DEF Writers, Contended
    <3>. QED BY <1>a, <3>1 DEF SInv
  <2>. QED BY <2>1, <2>2
<1> HIDE DEF open, restored
<1>. QED BY <1>1, <1>2, <1>3, <1>4

LEMMA ConfigByVerdictNext == RestoreInv' => ConfigFollows'
BY ConfigByVerdict, PTL

-----------------------------------------------------------------------------
(* What a step changes of the outcome.                                        *)

SameOutcome(q) ==
  \A id \in Ids(q) : VerdictOf(q, id)' = VerdictOf(q, id) /\ OpenOf(q, id)' = OpenOf(q, id)

LEMMA AskedStands ==
  ASSUME request' = request
  PROVE  /\ askedItems' = askedItems
         /\ \A q \in Restores : /\ Ids(q)' = Ids(q)
                                /\ \A id : /\ OwnOf(q, id)' = OwnOf(q, id)
                                           /\ CarriedOf(q, id)' = CarriedOf(q, id)
<1>1. ASSUME NEW q \in Restores
      PROVE  /\ Ids(q)' = Ids(q)
             /\ \A id : OwnOf(q, id)' = OwnOf(q, id) /\ CarriedOf(q, id)' = CarriedOf(q, id)
  <2>1. Requested(q)' = Requested(q) /\ Contended(q)' = Contended(q)
        /\ \A it : Writable(q, it)' = Writable(q, it)
    BY SameRequest, SameScopes
  <2>2. \A id : ItemOf(q, id)' = ItemOf(q, id)
    BY <2>1 DEF ItemOf
  <2>. QED BY <2>1, <2>2 DEF Ids, OwnOf, CarriedOf, Promised
<1>. QED BY <1>1 DEF askedItems

(* The items keep their verdict when they keep their entry, and at work what is *)
(* at work; then the features they leave open are the same, if nothing more of  *)
(* what is reported FAILED is lost.                                           *)
LEMMA ItemStands ==
  ASSUME NEW r \in Restores, NEW id, request' = request,
         AtWork(r, id)' <=> AtWork(r, id),
         \/ AtWork(r, id)
         \/ /\ id \in Entries(r, "SUCCESS")' <=> id \in Entries(r, "SUCCESS")
            /\ id \in Entries(r, "FAILED")' <=> id \in Entries(r, "FAILED")
            /\ \A f \in OwnOf(r, id) : f \in unbacked'[r] \cup unrecoverable'[r]
                                         <=> f \in unbacked[r] \cup unrecoverable[r]
  PROVE  VerdictOf(r, id)' = VerdictOf(r, id) /\ OpenOf(r, id)' = OpenOf(r, id)
<1>1. OwnOf(r, id)' = OwnOf(r, id) /\ CarriedOf(r, id)' = CarriedOf(r, id)
  BY AskedStands
<1>2. VerdictOf(r, id)' = VerdictOf(r, id)
  BY DEF VerdictOf
<1>3. CASE AtWork(r, id)
  BY <1>1, <1>2, <1>3, VerdictCases DEF OpenOf
<1>4. CASE ~AtWork(r, id)
  <2>1. OwnOf(r, id) \cap (unbacked'[r] \cup unrecoverable'[r])
          = OwnOf(r, id) \cap (unbacked[r] \cup unrecoverable[r])
    BY <1>4
  <2>. QED BY <1>1, <1>2, <2>1 DEF OpenOf
<1>. QED BY <1>2, <1>3, <1>4

LEMMA OutcomeStands ==
  ASSUME NEW q \in Restores, Bystander(q), request' = request
  PROVE  SameOutcome(q)
<1>1. /\ Current(q)' = Current(q) /\ MissingRequired(q)' = MissingRequired(q) /\ isV1(q)' = isV1(q)
      /\ \A id : Known(q, id)' = Known(q, id)
  BY SameRequest, SameLoop
<1>2. \A id : AtWork(q, id)' <=> AtWork(q, id)
  BY <1>1 DEF Bystander, AtWork, Begun
<1>3. \A st : Entries(q, st)' = Entries(q, st)
  BY DEF Bystander, Entries
<1>4. unbacked'[q] = unbacked[q] /\ unrecoverable'[q] = unrecoverable[q]
  BY DEF Bystander
<1>5. \A id \in Ids(q) : VerdictOf(q, id)' = VerdictOf(q, id) /\ OpenOf(q, id)' = OpenOf(q, id)
  BY <1>2, <1>3, <1>4, ItemStands
<1>. QED BY <1>5 DEF SameOutcome

(* What a thread finds lost is of the item it is at.                           *)
LEMMA LostOfCurrent ==
  ASSUME RestoreTypeOK, NEW r \in Restores, CallOfLoop(r), LoopBounds(r), WorkerStep(r), NEW f
  PROVE  \/ f \in unbacked'[r] \cup unrecoverable'[r] <=> f \in unbacked[r] \cup unrecoverable[r]
         \/ pc[r] \in CallPhase /\ f \in Owned(r)
<1>1. CASE BackupFailedGoOn(r)
  <2>1. unbacked'[r] = unbacked[r] \cup todo[r] /\ unrecoverable' = unrecoverable /\ pc[r] = "backup"
    BY <1>1 DEF BackupFailedGoOn, RestoreTypeOK
  <2>. QED BY <2>1 DEF LoopBounds, CallPhase
<1>2. CASE UndoRestoreAnswered(r)
  <2>1. /\ unrecoverable'[r] \subseteq unrecoverable[r] \cup {answer[r].feature}
        /\ unrecoverable[r] \subseteq unrecoverable'[r]
        /\ unbacked' = unbacked /\ pc[r] = "undoRestore"
    BY <1>2 DEF UndoRestoreAnswered, RestoreTypeOK
  <2>2. ~Idle(r)
    BY <1>2 DEF UndoRestoreAnswered, Succeeded, Failed, Idle
  <2>3. answer[r].feature \in Owned(r)
    BY <2>1, <2>2 DEF CallOfLoop, LoopBounds, Undoing, CallPhase
  <2>. QED BY <2>1, <2>3 DEF CallPhase
<1>3. CASE ~BackupFailedGoOn(r) /\ ~UndoRestoreAnswered(r)
  <2>1. unbacked' = unbacked /\ unrecoverable' = unrecoverable
    BY <1>3
    DEF WorkerStep, LicenseGranted, LicenseRefused, Reject, IntegrityCheckFailed, Accept,
        SkipUnknownGroup, MissingFeature, BeginItem, AllItemsDone, Reply, SendQuery, GiveUp,
        BackupOk, BackupFailedSkip, BackupDone, ResetAnswered, ResetDone, UnexpectedReply,
        RestoreOk, RestoreDone, RestoreFailed, UndoResetDone, UndoDone, Abort, workerVars
  <2>. QED BY <2>1
<1>. QED BY <1>1, <1>2, <1>3

LEMMA LostAtWork ==
  ASSUME RestoreTypeOK, NEW r \in Restores, ItemsFromRequest(r), ItemsOnce(r), CallOfLoop(r),
         LoopBounds(r), WorkerStep(r), NEW id \in Ids(r), ~AtWork(r, id), NEW f \in OwnOf(r, id)
  PROVE  f \in unbacked'[r] \cup unrecoverable'[r] <=> f \in unbacked[r] \cup unrecoverable[r]
<1>1. PICK it \in Requested(r) : it.id = id
  BY DEF Ids
<1>2. f \in Writable(r, it)
  BY <1>1, ItemOfId
<1>3. ASSUME pc[r] \in CallPhase, f \in Owned(r) PROVE FALSE
  <2>1. /\ Current(r) \in Requested(r) /\ AtWork(r, Current(r).id)
        /\ Writable(r, Current(r)) = Owned(r) \cap Feature
    BY <1>3, ItemOfLoop
  <2>2. f \in Feature
    BY <1>2 DEF Writable
  <2>3. it = Current(r)
    BY <1>2, <1>3, <2>1, <2>2, OneItem
  <2>. QED BY <1>1, <2>1, <2>3
<1>. QED BY <1>3, LostOfCurrent

LEMMA OnwardSameOutcome ==
  ASSUME TypeOK, NEW r \in Restores, ItemsFromRequest(r), CallOfLoop(r), LoopBounds(r),
         ItemsOnce(r), WorkerStep(r), ~Settles(r), ~BeginItem(r)
  PROVE  SameOutcome(r)
<1>a. RestoreTypeOK /\ request' = request
  BY RequestKept DEF TypeOK
<1>1. Onward(r)
  BY OnwardSteps
<1>2. Current(r)' = Current(r) /\ \A st : Entries(r, st)' = Entries(r, st)
  BY <1>1 DEF Onward, Current, Entries
<1>3. \A id : AtWork(r, id)' <=> AtWork(r, id)
  BY <1>1, <1>2 DEF Onward, AtWork
<1>4. ASSUME NEW id \in Ids(r)
      PROVE  VerdictOf(r, id)' = VerdictOf(r, id) /\ OpenOf(r, id)' = OpenOf(r, id)
  <2>1. CASE AtWork(r, id)
    BY <1>a, <1>3, <2>1, ItemStands
  <2>2. CASE ~AtWork(r, id)
    <3>1. \A f \in OwnOf(r, id) : f \in unbacked'[r] \cup unrecoverable'[r]
                                    <=> f \in unbacked[r] \cup unrecoverable[r]
      BY <1>a, <2>2, LostAtWork
    <3>. QED BY <1>a, <1>2, <1>3, <3>1, ItemStands
  <2>. QED BY <2>1, <2>2
<1>. QED BY <1>4 DEF SameOutcome

LEMMA AcceptSameOutcome ==
  ASSUME RestoreTypeOK, NEW r \in Restores, ItemsOnce(r), Accept(r)
  PROVE  SameOutcome(r)
<1>1. pc[r] = "decode" /\ pc'[r] = "next" /\ items[r] = <<>> /\ request' = request
      /\ statusList' = statusList /\ unbacked' = unbacked /\ unrecoverable' = unrecoverable
  BY DEF Accept, Goto, RestoreTypeOK, ItemsOnce
<1>2. \A id : ~AtWork(r, id) /\ ~AtWork(r, id)'
  BY <1>1 DEF AtWork, Begun, CallPhase
<1>3. \A st : Entries(r, st)' = Entries(r, st)
  BY <1>1 DEF Entries
<1>4. \A id \in Ids(r) : VerdictOf(r, id)' = VerdictOf(r, id) /\ OpenOf(r, id)' = OpenOf(r, id)
  BY <1>1, <1>2, <1>3, ItemStands
<1>. QED BY <1>4 DEF SameOutcome

(* Version 1.0 reports an item FAILED before it rolls it back: it stays at work. *)
LEMMA FailingV1SameOutcome ==
  ASSUME TypeOK, NEW r \in Restores, ItemsFromRequest(r), RestoreFailed(r), isV1(r),
         WorkerStep(r)
  PROVE  SameOutcome(r)
<1>a. RestoreTypeOK /\ request' = request
  BY RequestKept DEF TypeOK
<1>1. /\ pc[r] = "restore" /\ pc'[r] = "undoReset" /\ items' = items /\ items[r] # <<>>
      /\ PushStatus(r, "FAILED") /\ unbacked' = unbacked /\ unrecoverable' = unrecoverable
  BY <1>a DEF RestoreFailed, Goto, RestoreTypeOK, ItemsFromRequest, CallPhase
<1>2. \A id : AtWork(r, id)' <=> id = Current(r).id
  BY <1>1 DEF AtWork, Begun, CallPhase, Current
<1>3. \A id : AtWork(r, id) <=> id = Current(r).id
  BY <1>1 DEF AtWork, Begun, CallPhase
<1>4. /\ Entries(r, "FAILED")' = Entries(r, "FAILED") \cup {Current(r).id}
      /\ Entries(r, "SUCCESS")' = Entries(r, "SUCCESS")
  <2>1. Current(r).id \in ItemId /\ {"SUCCESS", "FAILED"} \subseteq ItemOutcome
    BY <1>a, <1>1, CurrentIsRequested DEF Item, ItemOutcome
  <2>. QED BY <1>a, <1>1, <2>1, EntriesAfterPush
<1>5. \A id \in Ids(r) : VerdictOf(r, id)' = VerdictOf(r, id) /\ OpenOf(r, id)' = OpenOf(r, id)
  BY <1>a, <1>1, <1>2, <1>3, <1>4, ItemStands
<1>. QED BY <1>5 DEF SameOutcome

-----------------------------------------------------------------------------
(* The outcome as SrrOutcome sees it.                                         *)

LEMMA MappedIs ==
  ASSUME NEW r \in Restores
  PROVE  /\ DOMAIN askedItems[r] = Ids(r)
         /\ \A i \in Ids(r) : askedItems[r][i].own = OwnOf(r, i)
                              /\ askedItems[r][i].carried = CarriedOf(r, i)
         /\ \A i, v : Promise!Is(r, i, v) <=> i \in Ids(r) /\ VerdictOf(r, i) = v
BY DEF askedItems, itemVerdict, Promise!Is

LEMMA SameConfig ==
  ASSUME ConfigFollows, ConfigFollows', request' = request, NEW q \in Restores, SameOutcome(q)
  PROVE  configKept'[q] = configKept[q]
<1>1. Ids(q)' = Ids(q) /\ \A id : CarriedOf(q, id)' = CarriedOf(q, id)
  BY AskedStands
<1>2. ASSUME NEW f \in Feature PROVE ConfigOf(q, f)' = ConfigOf(q, f)
  BY <1>1 DEF ConfigOf, SameOutcome
<1>3. \A f \in Feature : configKept'[q][f] = configKept[q][f]
  BY <1>2 DEF ConfigFollows
<1>4. /\ configKept[q] = [f \in Feature |-> configKept[q][f]]
      /\ configKept'[q] = [f \in Feature |-> configKept'[q][f]]
  BY DEF configKept
<1>. QED BY <1>3, <1>4

LEMMA NothingHappens ==
  ASSUME ConfigFollows, ConfigFollows', request' = request, \A q \in Restores : SameOutcome(q),
         \A q \in Restores : replied'[q] = replied[q]
  PROVE  UNCHANGED Promise!outcomeVars
<1>1. askedItems' = askedItems /\ \A q \in Restores : Ids(q)' = Ids(q)
  BY AskedStands
<1>2. itemVerdict' = itemVerdict
  BY <1>1 DEF itemVerdict, SameOutcome
<1>3. configKept' = configKept
  <2>1. \A q \in Restores : configKept'[q] = configKept[q]
    BY SameConfig
  <2>2. /\ configKept = [q \in Restores |-> configKept[q]]
        /\ configKept' = [q \in Restores |-> configKept'[q]]
    BY DEF configKept
  <2>. QED BY <2>1, <2>2
<1>4. replied' = replied
  <2>1. replied = [q \in Restores |-> replied[q]] /\ replied' = [q \in Restores |-> replied'[q]]
    BY DEF replied
  <2>. QED BY <2>1
<1>. QED BY <1>1, <1>2, <1>3, <1>4 DEF Promise!outcomeVars

(* One item gets a verdict, everything else stays.                             *)
MovesTo(r, id, v) ==
  /\ id \in Ids(r) /\ VerdictOf(r, id)' = v
  /\ \A j \in Ids(r) \ {id} :
       VerdictOf(r, j)' = VerdictOf(r, j) /\ OpenOf(r, j)' = OpenOf(r, j)
  /\ \A q \in Restores \ {r} : SameOutcome(q)

LEMMA DecideFollows ==
  ASSUME request' = request, NEW r \in Restores, NEW id, NEW v, MovesTo(r, id, v)
  PROVE  Promise!Decide(r, id, v)
<1>1. \A q \in Restores : Ids(q)' = Ids(q)
  BY AskedStands
<1>2. itemVerdict' = [q \in Restores |-> [j \in Ids(q) |->
                        IF q = r /\ j = id THEN v ELSE VerdictOf(q, j)]]
  BY <1>1 DEF itemVerdict, MovesTo, SameOutcome
<1>3. [itemVerdict EXCEPT ![r][id] = v]
        = [q \in Restores |-> [j \in Ids(q) |-> IF q = r /\ j = id THEN v ELSE VerdictOf(q, j)]]
  BY DEF itemVerdict, MovesTo
<1>. QED BY <1>2, <1>3 DEF Promise!Decide

LEMMA LeaveFollows ==
  ASSUME ConfigFollows, ConfigFollows', request' = request, NEW r \in Restores,
         \A q \in Restores \ {r} : SameOutcome(q), NEW S, NEW c,
         \A f \in Feature : ConfigOf(r, f)' = IF f \in S THEN c ELSE ConfigOf(r, f)
  PROVE  Promise!Leave(r, S, c)
<1>1. \A q \in Restores \ {r} : configKept'[q] = configKept[q]
  BY SameConfig
<1>2. \A f \in Feature : configKept'[r][f] = IF f \in S THEN c ELSE configKept[r][f]
  BY DEF ConfigFollows
<1>3. /\ configKept = [q \in Restores |-> configKept[q]]
      /\ configKept' = [q \in Restores |-> configKept'[q]]
      /\ configKept'[r] = [f \in Feature |-> configKept'[r][f]]
  BY DEF configKept
<1>4. configKept'[r] = [f \in Feature |-> IF f \in S THEN c ELSE configKept[r][f]]
  BY <1>2, <1>3
<1>5. configKept' = [configKept EXCEPT ![r] =
                       [f \in Feature |-> IF f \in S THEN c ELSE configKept[r][f]]]
  BY <1>1, <1>3, <1>4
<1>. QED BY <1>5 DEF Promise!Leave

(* Only the features of the item that moves may look different.                *)
LEMMA ConfigOfOthers ==
  ASSUME RestoreTypeOK, request' = request, NEW r \in Restores, NEW id, NEW v,
         MovesTo(r, id, v), v \in {"working", "SUCCESS", "FAILED"}, NEW f, f \notin OwnOf(r, id)
  PROVE  ConfigOf(r, f)' = ConfigOf(r, f)
<1>1. Ids(r)' = Ids(r) /\ \A j : OwnOf(r, j)' = OwnOf(r, j) /\ CarriedOf(r, j)' = CarriedOf(r, j)
  BY AskedStands
<1>2. OpenOf(r, id)' \subseteq OwnOf(r, id)
  BY <1>1 DEF OpenOf, MovesTo
<1>3. f \notin OpenOf(r, id) /\ f \notin OpenOf(r, id)' /\ f \notin CarriedOf(r, id)
  BY <1>2, OpenCases DEF CarriedOf
<1>4. (\E j \in Ids(r) : f \in OpenOf(r, j)') <=> \E j \in Ids(r) : f \in OpenOf(r, j)
  BY <1>3 DEF MovesTo
<1>5. (\E j \in Ids(r) : VerdictOf(r, j)' = "SUCCESS" /\ f \in CarriedOf(r, j))
        <=> \E j \in Ids(r) : VerdictOf(r, j) = "SUCCESS" /\ f \in CarriedOf(r, j)
  BY <1>3 DEF MovesTo
<1>. QED BY <1>1, <1>4, <1>5 DEF ConfigOf

LEMMA ConfigOfOwn ==
  ASSUME RestoreTypeOK, request' = request, NEW r \in Restores, NEW id, NEW v,
         MovesTo(r, id, v), v \in {"working", "SUCCESS", "FAILED"}, NEW f \in OwnOf(r, id)
  PROVE  ConfigOf(r, f)' =
           IF v = "working" THEN "open"
           ELSE IF v = "SUCCESS" THEN IF f \in CarriedOf(r, id) THEN "restored" ELSE "open"
           ELSE IF f \in unbacked'[r] \cup unrecoverable'[r] THEN "open" ELSE "kept"
<1>1. Ids(r)' = Ids(r) /\ \A j : OwnOf(r, j)' = OwnOf(r, j) /\ CarriedOf(r, j)' = CarriedOf(r, j)
  BY AskedStands
<1>2. \A j \in Ids(r) \ {id} : f \notin OwnOf(r, j)
  BY OwnOnce DEF MovesTo
<1>3. \A j \in Ids(r) \ {id} : f \notin OpenOf(r, j)' /\ f \notin CarriedOf(r, j)
  BY <1>2, OpenCases DEF MovesTo, CarriedOf
<1>4. f \in OpenOf(r, id)' <=>
        \/ v = "working"
        \/ v = "SUCCESS" /\ f \notin CarriedOf(r, id)
        \/ v = "FAILED" /\ f \in unbacked'[r] \cup unrecoverable'[r]
  BY <1>1 DEF OpenOf, MovesTo
<1>5. (\E j \in Ids(r) : f \in OpenOf(r, j)') <=> f \in OpenOf(r, id)'
  BY <1>3 DEF MovesTo
<1>6. (\E j \in Ids(r) : VerdictOf(r, j)' = "SUCCESS" /\ f \in CarriedOf(r, j))
        <=> v = "SUCCESS" /\ f \in CarriedOf(r, id)
  BY <1>3 DEF MovesTo
<1>7. ConfigOf(r, f)' =
        IF f \in OpenOf(r, id)' THEN "open"
        ELSE IF v = "SUCCESS" /\ f \in CarriedOf(r, id) THEN "restored" ELSE "kept"
  BY <1>1, <1>5, <1>6 DEF ConfigOf
<1>. QED BY <1>4, <1>7

LEMMA ConfigAtWork ==
  ASSUME NEW r \in Restores, NEW id \in Ids(r), VerdictOf(r, id) = "working", NEW f \in OwnOf(r, id)
  PROVE  ConfigOf(r, f) = "open"
BY OpenCases DEF ConfigOf

-----------------------------------------------------------------------------
(* The steps of a thread.                                                     *)

LEMMA OthersSameOutcome ==
  ASSUME RestoreTypeOK, NEW r \in Restores, WorkerStep(r)
  PROVE  \A q \in Restores \ {r} : SameOutcome(q)
BY RequestKept, OthersStandBy, OutcomeStands

LEMMA RepliedStands ==
  ASSUME TypeOK, NEW r \in Restores, CallOfLoop(r), WorkerStep(r), ~Reply(r)
  PROVE  replied' = replied
<1>a. RestoreTypeOK
  BY DEF TypeOK
<1>1. pc[r] # "answered"
  <2>1. GiveUp(r) => pc[r] \in CallPhase
    BY DEF GiveUp, TimeOut, CallOfLoop, Idle
  <2>2. UnexpectedReply(r) => pc[r] \in CallPhase
    BY DEF UnexpectedReply, CallPhase
  <2>. QED
    BY <2>1, <2>2
    DEF WorkerStep, LicenseGranted, LicenseRefused, Reject, IntegrityCheckFailed, Accept,
        SkipUnknownGroup, MissingFeature, BeginItem, AllItemsDone, Reply, SendQuery, BackupOk,
        BackupFailedSkip, BackupFailedGoOn, BackupDone, ResetAnswered, ResetDone, RestoreOk,
        RestoreDone, RestoreFailed, UndoResetDone, UndoRestoreAnswered, UndoDone, CallPhase
<1>2. pc'[r] # "answered"
  BY <1>a, <1>1, IntoAnswered
<1>3. \A q \in Restores \ {r} : pc'[q] = pc[q] /\ status'[q] = status[q]
  BY <1>a, OthersUntouched DEF Untouched
<1>. QED BY <1>1, <1>2, <1>3 DEF replied

LEMMA BeginMoves ==
  ASSUME RestoreTypeOK, NEW r \in Restores, ItemsFromRequest(r), ItemsOnce(r), WorkerStep(r),
         BeginItem(r), NEW id, id = Current(r).id
  PROVE  /\ VerdictOf(r, id) = "pending"
         /\ \A j : VerdictOf(r, j) # "working"
         /\ MovesTo(r, id, "working")
<1>1. /\ pc[r] = "next" /\ pc'[r] = "backup" /\ items[r] # <<>> /\ items' = items
      /\ request' = request /\ statusList' = statusList
      /\ unbacked' = unbacked /\ unrecoverable' = unrecoverable
  BY DEF BeginItem, Goto, RestoreTypeOK
<1>2. Current(r) \in Requested(r) /\ id \in Ids(r)
  BY <1>1, CurrentIsRequested DEF Ids
<1>3. \A j : ~AtWork(r, j)
  BY <1>1 DEF AtWork, Begun, CallPhase
<1>4. \A j : AtWork(r, j)' <=> j = id
  BY <1>1 DEF AtWork, Begun, CallPhase, Current
<1>5. VerdictOf(r, id) = "pending"
  <2>1. 1 \in DOMAIN items[r] /\ items[r][1] = Current(r)
    BY <1>1 DEF RestoreTypeOK, Current
  <2>2. id \notin Entries(r, "SUCCESS") \cup Entries(r, "FAILED")
    BY <1>1, <2>1 DEF ItemsOnce
  <2>. QED BY <1>3, <2>2, VerdictCases
<1>6. VerdictOf(r, id)' = "working"
  BY <1>4 DEF VerdictOf
<1>7. \A st : Entries(r, st)' = Entries(r, st)
  BY <1>1 DEF Entries
<1>8. \A j \in Ids(r) \ {id} : VerdictOf(r, j)' = VerdictOf(r, j) /\ OpenOf(r, j)' = OpenOf(r, j)
  BY <1>1, <1>3, <1>4, <1>7, ItemStands
<1>. QED BY <1>2, <1>3, <1>5, <1>6, <1>8, VerdictCases, OthersSameOutcome DEF MovesTo

Finishes(r) == SkipUnknownGroup(r) \/ BackupFailedSkip(r) \/ RestoreDone(r) \/ UndoDone(r)

(* An item left is reported, as SUCCESS only when its restore is done.          *)
LEMMA EntriesAfterFinish ==
  ASSUME TypeOK, NEW r \in Restores, ItemsFromRequest(r), Books(r), ItemsOnce(r),
         WorkerStep(r), Finishes(r)
  PROVE  /\ items[r] # <<>> /\ FinishItem(r) /\ Current(r).id \in ItemId
         /\ RestoreDone(r) =>
              /\ Entries(r, "SUCCESS")' = Entries(r, "SUCCESS") \cup {Current(r).id}
              /\ Entries(r, "FAILED")' = Entries(r, "FAILED")
         /\ ~RestoreDone(r) =>
              /\ Entries(r, "SUCCESS")' = Entries(r, "SUCCESS")
              /\ Entries(r, "FAILED")' = Entries(r, "FAILED") \cup {Current(r).id}
<1>a. RestoreTypeOK /\ ~Accept(r) /\ Settles(r) /\ {"SUCCESS", "FAILED"} \subseteq ItemOutcome
  BY DEF TypeOK, Accept, Finishes, SkipUnknownGroup, BackupFailedSkip, RestoreDone, UndoDone,
         Settles, ItemOutcome
<1>b. /\ items[r] # <<>> /\ Current(r).id \in ItemId
      /\ SkipUnknownGroup(r) \/ BackupFailedSkip(r) => PushStatus(r, "FAILED") /\ FinishItem(r)
      /\ RestoreDone(r) => PushStatus(r, "SUCCESS") /\ FinishItem(r)
      /\ UndoDone(r) => /\ IF isV1(r) THEN statusList' = statusList ELSE PushStatus(r, "FAILED")
                        /\ FinishItem(r)
  BY <1>a, SettlingStep
<1>c. FinishItem(r)
  BY <1>b DEF Finishes
<1>1. CASE RestoreDone(r)
  BY <1>1, <1>a, <1>b, <1>c, EntriesAfterPush
<1>2. CASE PushStatus(r, "FAILED") /\ ~RestoreDone(r)
  BY <1>2, <1>a, <1>b, <1>c, EntriesAfterPush
<1>3. CASE UndoDone(r) /\ isV1(r)
  <2>1. Reported(r, Current(r)) /\ ~RestoreDone(r)
    BY <1>3 DEF UndoDone, RestoreDone, Books, Undoing, Working, CallPhase
  <2>2. statusList' = statusList
    BY <1>b, <1>3
  <2>3. \A st : Entries(r, st)' = Entries(r, st)
    BY <2>2 DEF Entries
  <2>4. 1 \in DOMAIN items[r] /\ items[r][1] = Current(r)
    BY <1>a, <1>b, <1>c, ItemsAfterFinish
  <2>5. Current(r).id \in Entries(r, "FAILED")
    BY <1>a, <2>1, <2>4, ReportedHow DEF ItemsOnce
  <2>. QED BY <1>b, <1>c, <2>1, <2>3, <2>5
<1>. QED BY <1>b, <1>1, <1>2, <1>3 DEF Finishes

LEMMA FinishMoves ==
  ASSUME TypeOK, NEW r \in Restores, ItemsFromRequest(r), Books(r), ItemsOnce(r), WorkerStep(r),
         Finishes(r), NEW id, id = Current(r).id
  PROVE  /\ VerdictOf(r, id) = IF SkipUnknownGroup(r) THEN "pending" ELSE "working"
         /\ SkipUnknownGroup(r) => \A j : VerdictOf(r, j) # "working"
         /\ MovesTo(r, id, IF RestoreDone(r) THEN "SUCCESS" ELSE "FAILED")
<1>a. RestoreTypeOK /\ request' = request
  BY RequestKept DEF TypeOK
<1>b. /\ items[r] # <<>> /\ FinishItem(r)
      /\ RestoreDone(r) =>
           /\ Entries(r, "SUCCESS")' = Entries(r, "SUCCESS") \cup {Current(r).id}
           /\ Entries(r, "FAILED")' = Entries(r, "FAILED")
      /\ ~RestoreDone(r) =>
           /\ Entries(r, "SUCCESS")' = Entries(r, "SUCCESS")
           /\ Entries(r, "FAILED")' = Entries(r, "FAILED") \cup {Current(r).id}
  BY EntriesAfterFinish
<1>1. /\ pc'[r] = "next" /\ 1 \in DOMAIN items[r] /\ items[r][1] = Current(r)
      /\ unbacked' = unbacked /\ unrecoverable' = unrecoverable
  BY <1>a, <1>b, ItemsAfterFinish
  DEF Finishes, SkipUnknownGroup, BackupFailedSkip, RestoreDone, UndoDone
<1>2. Current(r) \in Requested(r) /\ id \in Ids(r)
  BY <1>a, <1>b, CurrentIsRequested DEF Ids
<1>3. id \notin Entries(r, "SUCCESS")
  BY <1>1 DEF ItemsOnce
<1>4. \A j : ~AtWork(r, j)'
  BY <1>1 DEF AtWork, Begun, CallPhase
<1>5. \A j : AtWork(r, j) => j = id
  BY DEF AtWork
<1>6. VerdictOf(r, id) = IF SkipUnknownGroup(r) THEN "pending" ELSE "working"
  <2>1. CASE SkipUnknownGroup(r)
    <3>1. pc[r] = "next" /\ ~AtWork(r, id)
      BY <2>1 DEF SkipUnknownGroup, AtWork, Begun, CallPhase
    <3>2. id \notin Entries(r, "FAILED")
      BY <1>1, <3>1 DEF ItemsOnce
    <3>. QED BY <1>3, <2>1, <3>1, <3>2, VerdictCases
  <2>2. CASE ~SkipUnknownGroup(r)
    <3>1. AtWork(r, id)
      BY <1>b, <2>2
      DEF Finishes, BackupFailedSkip, RestoreDone, UndoDone, AtWork, Begun, CallPhase
    <3>. QED BY <2>2, <3>1, VerdictCases
  <2>. QED BY <2>1, <2>2
<1>7. SkipUnknownGroup(r) => \A j : VerdictOf(r, j) # "working"
  BY VerdictCases DEF SkipUnknownGroup, AtWork, Begun, CallPhase
<1>8. VerdictOf(r, id)' = IF RestoreDone(r) THEN "SUCCESS" ELSE "FAILED"
  BY <1>b, <1>3, <1>4 DEF VerdictOf
<1>9. ASSUME NEW j \in Ids(r) \ {id}
      PROVE  VerdictOf(r, j)' = VerdictOf(r, j) /\ OpenOf(r, j)' = OpenOf(r, j)
  <2>1. /\ j \in Entries(r, "SUCCESS")' <=> j \in Entries(r, "SUCCESS")
        /\ j \in Entries(r, "FAILED")' <=> j \in Entries(r, "FAILED")
    BY <1>b
  <2>. QED BY <1>a, <1>1, <1>4, <1>5, <2>1, ItemStands
<1>. QED BY <1>a, <1>2, <1>6, <1>7, <1>8, <1>9, OthersSameOutcome DEF MovesTo

-----------------------------------------------------------------------------
(* Each is a step of SrrOutcome.                                              *)

LEMMA StillAnswering ==
  ASSUME TypeOK, NEW r \in Restores, CallOfLoop(r), WorkerStep(r), BeginItem(r) \/ Finishes(r)
  PROVE  replied[r] = "none" /\ replied' = replied /\ askedItems' = askedItems
<1>1. pc[r] # "answered"
  BY DEF BeginItem, Finishes, SkipUnknownGroup, BackupFailedSkip, RestoreDone, UndoDone
<1>2. ~Reply(r)
  BY DEF Reply, BeginItem, Finishes, SkipUnknownGroup, BackupFailedSkip, RestoreDone, UndoDone
<1>. QED BY <1>1, <1>2, RepliedStands, RequestKept, AskedStands DEF replied

LEMMA BeginRefines ==
  ASSUME TypeOK, ConfigFollows, ConfigFollows', NEW r \in Restores, ItemsFromRequest(r),
         ItemsOnce(r), CallOfLoop(r), WorkerStep(r), BeginItem(r)
  PROVE  Promise!OutcomeNext
<1>a. RestoreTypeOK /\ request' = request
  BY RequestKept DEF TypeOK
<1>0. PICK id : id = Current(r).id
  OBVIOUS
<1>1. /\ VerdictOf(r, id) = "pending" /\ (\A j : VerdictOf(r, j) # "working")
      /\ MovesTo(r, id, "working")
  BY <1>a, <1>0, BeginMoves
<1>2. id \in Ids(r) /\ \A q \in Restores \ {r} : SameOutcome(q)
  BY <1>1 DEF MovesTo
<1>3. Promise!Decide(r, id, "working")
  BY <1>a, <1>1, DecideFollows
<1>4. \A f \in Feature : ConfigOf(r, f)' = IF f \in OwnOf(r, id) THEN "open" ELSE ConfigOf(r, f)
  BY <1>a, <1>1, ConfigOfOwn, ConfigOfOthers
<1>5. Promise!Leave(r, OwnOf(r, id), "open")
  BY <1>a, <1>2, <1>4, LeaveFollows
<1>6. Promise!Begin(r, id)
  BY <1>1, <1>2, <1>3, <1>5, MappedIs, StillAnswering DEF Promise!Begin, Promise!Own
<1>. QED BY <1>2, <1>6, MappedIs DEF Promise!OutcomeNext

LEMMA SucceedRefines ==
  ASSUME TypeOK, ConfigFollows, ConfigFollows', NEW r \in Restores, ItemsFromRequest(r), Books(r),
         ItemsOnce(r), CallOfLoop(r), WorkerStep(r), RestoreDone(r)
  PROVE  Promise!OutcomeNext
<1>a. RestoreTypeOK /\ request' = request /\ Finishes(r) /\ ~SkipUnknownGroup(r)
  BY RequestKept DEF TypeOK, Finishes, SkipUnknownGroup, RestoreDone
<1>0. PICK id : id = Current(r).id
  OBVIOUS
<1>1. VerdictOf(r, id) = "working" /\ MovesTo(r, id, "SUCCESS")
  BY <1>a, <1>0, FinishMoves
<1>2. id \in Ids(r) /\ \A q \in Restores \ {r} : SameOutcome(q)
  BY <1>1 DEF MovesTo
<1>3. Promise!Decide(r, id, "SUCCESS")
  BY <1>a, <1>1, DecideFollows
<1>4. ASSUME NEW f \in Feature
      PROVE  ConfigOf(r, f)' = IF f \in CarriedOf(r, id) THEN "restored" ELSE ConfigOf(r, f)
  <2>1. CASE f \in OwnOf(r, id)
    BY <1>a, <1>1, <1>2, <2>1, ConfigOfOwn, ConfigAtWork
  <2>2. CASE f \notin OwnOf(r, id)
    BY <1>a, <1>1, <2>2, ConfigOfOthers DEF CarriedOf
  <2>. QED BY <2>1, <2>2
<1>5. Promise!Leave(r, CarriedOf(r, id), "restored")
  BY <1>a, <1>2, <1>4, LeaveFollows
<1>6. Promise!Succeed(r, id)
  BY <1>a, <1>1, <1>2, <1>3, <1>5, MappedIs, StillAnswering DEF Promise!Succeed, Promise!Carried
<1>. QED BY <1>2, <1>6, MappedIs DEF Promise!OutcomeNext

LEMMA GiveUpRefines ==
  ASSUME TypeOK, ConfigFollows, ConfigFollows', NEW r \in Restores, ItemsFromRequest(r), Books(r),
         ItemsOnce(r), CallOfLoop(r), WorkerStep(r), BackupFailedSkip(r) \/ UndoDone(r)
  PROVE  Promise!OutcomeNext
<1>a. RestoreTypeOK /\ request' = request /\ Finishes(r) /\ ~SkipUnknownGroup(r) /\ ~RestoreDone(r)
  BY RequestKept
  DEF TypeOK, Finishes, SkipUnknownGroup, RestoreDone, BackupFailedSkip, UndoDone
<1>0. PICK id : id = Current(r).id
  OBVIOUS
<1>1. VerdictOf(r, id) = "working" /\ MovesTo(r, id, "FAILED")
  BY <1>a, <1>0, FinishMoves
<1>2. id \in Ids(r) /\ \A q \in Restores \ {r} : SameOutcome(q)
  BY <1>1 DEF MovesTo
<1>3. Promise!Decide(r, id, "FAILED")
  BY <1>a, <1>1, DecideFollows
<1> DEFINE gone == OwnOf(r, id) \cap (unbacked'[r] \cup unrecoverable'[r])
<1>4. ASSUME NEW f \in Feature
      PROVE  ConfigOf(r, f)' = IF f \in OwnOf(r, id) \ gone THEN "kept" ELSE ConfigOf(r, f)
  <2>1. CASE f \in OwnOf(r, id)
    BY <1>a, <1>1, <1>2, <2>1, ConfigOfOwn, ConfigAtWork
  <2>2. CASE f \notin OwnOf(r, id)
    BY <1>a, <1>1, <2>2, ConfigOfOthers
  <2>. QED BY <2>1, <2>2
<1>5. gone \in SUBSET OwnOf(r, id)
  OBVIOUS
<1> HIDE DEF gone
<1>6. Promise!Leave(r, OwnOf(r, id) \ gone, "kept")
  BY <1>a, <1>2, <1>4, LeaveFollows
<1>7. Promise!GiveUpItem(r, id)
  BY <1>a, <1>1, <1>2, <1>3, <1>5, <1>6, MappedIs, StillAnswering
  DEF Promise!GiveUpItem, Promise!Own
<1>. QED BY <1>2, <1>7, MappedIs DEF Promise!OutcomeNext

LEMMA SkipRefines ==
  ASSUME TypeOK, ConfigFollows, ConfigFollows', NEW r \in Restores, ItemsFromRequest(r), Books(r),
         ItemsOnce(r), CallOfLoop(r), WorkerStep(r), SkipUnknownGroup(r)
  PROVE  Promise!OutcomeNext
<1>a. RestoreTypeOK /\ request' = request /\ Finishes(r) /\ ~RestoreDone(r)
  BY RequestKept DEF TypeOK, Finishes, SkipUnknownGroup, RestoreDone
<1>0. PICK id : id = Current(r).id
  OBVIOUS
<1>1. /\ VerdictOf(r, id) = "pending" /\ (\A j : VerdictOf(r, j) # "working")
      /\ MovesTo(r, id, "FAILED")
  BY <1>a, <1>0, FinishMoves
<1>2. id \in Ids(r) /\ \A q \in Restores \ {r} : SameOutcome(q)
  BY <1>1 DEF MovesTo
<1>3. Promise!Decide(r, id, "FAILED")
  BY <1>a, <1>1, DecideFollows
(* Nothing is promised with an unknown group.                                 *)
<1>4. OwnOf(r, id) = {}
  <2>1. Current(r) \in Requested(r) /\ ~Known(r, Current(r).id)
    BY <1>a, CurrentIsRequested DEF SkipUnknownGroup
  <2>. QED BY <1>a, <1>0, <2>1, ItemOfId DEF Writable
<1>5. \A f \in Feature : ConfigOf(r, f)' = IF f \in {} THEN "kept" ELSE ConfigOf(r, f)
  BY <1>a, <1>1, <1>4, ConfigOfOthers
<1>6. Promise!Leave(r, {}, "kept")
  BY <1>a, <1>2, <1>5, LeaveFollows
<1>7. configKept' = configKept
  <2>1. configKept[r] = [f \in Feature |-> configKept[r][f]]
        /\ configKept = [q \in Restores |-> configKept[q]]
    BY DEF configKept
  <2>2. configKept' = [configKept EXCEPT ![r] = [f \in Feature |-> configKept[r][f]]]
    BY <1>6 DEF Promise!Leave
  <2>. QED BY <2>1, <2>2
<1>8. Promise!SkipItem(r, id)
  BY <1>a, <1>1, <1>2, <1>3, <1>7, MappedIs, StillAnswering DEF Promise!SkipItem
<1>. QED BY <1>2, <1>8, MappedIs DEF Promise!OutcomeNext

(* The overall status says what has become of the items.                      *)
LEMMA StatusFollows ==
  ASSUME RestoreTypeOK, NEW r \in Restores, Books(r), ItemsOnce(r), ItemsFromRequest(r),
         EntriesKept(r), LeftOff(r), pc[r] = "reply"
  PROVE  Promise!MayReply(r, status[r])
<1>a. /\ DOMAIN askedItems[r] = Ids(r)
      /\ \A i, v : Promise!Is(r, i, v) <=> i \in Ids(r) /\ VerdictOf(r, i) = v
      /\ \A i : Promise!Decided(r, i) <=> i \in Ids(r) /\ VerdictOf(r, i) \in {"SUCCESS", "FAILED"}
  BY MappedIs DEF Promise!Decided
<1>b. /\ status[r] # "FAILED" => items[r] = <<>>
      /\ status[r] = "FAILED" => items[r] # <<>> \/ statusList[r] = <<>>
      /\ status[r] = "UNKNOWN" => statusList[r] = <<>>
      /\ status[r] \in {"SUCCESS", "FAILED", "PARTIAL_SUCCESS", "UNKNOWN"}
  BY DEF LeftOff, RestoreTypeOK, Status, ItemOutcome
<1>c. items[r] = <<>> => \A i : ~AtWork(r, i)
  BY DEF AtWork, Begun
<1>d. statusList[r] = <<>> => \A st : Entries(r, st) = {}
  BY DEF Entries
<1>1. CASE status[r] \in {"SUCCESS", "PARTIAL_SUCCESS"}
  <2>1. \A i \in Ids(r) : VerdictOf(r, i) \in {"SUCCESS", "FAILED"}
    <3>1. ASSUME NEW it \in Requested(r)
          PROVE  it.id \in Entries(r, "SUCCESS") \cup Entries(r, "FAILED")
      BY <1>1, ReportedHow DEF Books
    <3>2. \A i \in Ids(r) : ~AtWork(r, i) /\ i \in Entries(r, "SUCCESS") \cup Entries(r, "FAILED")
      BY <1>1, <1>b, <1>c, <3>1 DEF Ids
    <3>. QED BY <3>2, VerdictCases
  <2>2. CASE status[r] = "SUCCESS"
    <3>1. Entries(r, "FAILED") = {}
      BY <2>2 DEF Books, HasFailed, Entries
    <3>2. \A i : VerdictOf(r, i) # "FAILED"
      BY <3>1, VerdictCases
    <3>. QED BY <1>a, <2>1, <2>2, <3>2 DEF Promise!MayReply
  <2>3. CASE status[r] = "PARTIAL_SUCCESS"
    <3>1. PICK j \in DOMAIN statusList[r] : statusList[r][j].outcome = "FAILED"
      BY <2>3 DEF Books, HasFailed
    <3>2. PICK it \in Requested(r) : it.id = statusList[r][j].name
      BY DEF EntriesKept
    <3>3. it.id \in Ids(r) /\ it.id \in Entries(r, "FAILED") \ Entries(r, "SUCCESS")
      BY <3>1, <3>2 DEF Ids, Entries, EntriesKept
    <3>4. VerdictOf(r, it.id) = "FAILED"
      BY <1>b, <1>c, <2>3, <3>3, VerdictCases
    <3>. QED BY <1>a, <2>1, <2>3, <3>3, <3>4 DEF Promise!MayReply
  <2>. QED BY <1>1, <2>2, <2>3
<1>2. CASE status[r] = "FAILED" /\ items[r] # <<>>
  <2>1. 1 \in DOMAIN items[r] /\ items[r][1] = Current(r)
    BY <1>2 DEF RestoreTypeOK, Current
  <2>2. Current(r).id \in Ids(r)
    BY <1>2, CurrentIsRequested DEF Ids
  <2>3. VerdictOf(r, Current(r).id) \notin {"SUCCESS", "FAILED"}
    <3>1. CASE AtWork(r, Current(r).id)
      BY <3>1, VerdictCases
    <3>2. CASE ~AtWork(r, Current(r).id)
      <4>1. ~isV1(r)
        BY <1>2, <3>2 DEF AtWork, Begun, Known
      <4>2. Current(r).id \notin Entries(r, "SUCCESS") \cup Entries(r, "FAILED")
        BY <2>1, <4>1 DEF ItemsOnce
      <4>. QED BY <4>2, VerdictCases
    <3>. QED BY <3>1, <3>2
  <2>. QED BY <1>a, <1>2, <2>2, <2>3 DEF Promise!MayReply
<1>3. CASE status[r] \in {"FAILED", "UNKNOWN"} /\ items[r] = <<>>
  <2>1. \A i : VerdictOf(r, i) = "pending"
    BY <1>3, <1>b, <1>c, <1>d, VerdictCases
  <2>. QED BY <1>a, <1>3, <2>1 DEF Promise!MayReply
<1>. QED BY <1>b, <1>1, <1>2, <1>3

LEMMA AnswerRefines ==
  ASSUME TypeOK, ConfigFollows, ConfigFollows', NEW r \in Restores, ItemsFromRequest(r), Books(r),
         LoopBounds(r), ItemsOnce(r), EntriesKept(r), LeftOff(r), CallOfLoop(r), WorkerStep(r),
         Reply(r)
  PROVE  Promise!OutcomeNext
<1>a. RestoreTypeOK /\ request' = request
  BY RequestKept DEF TypeOK
<1>1. pc[r] = "reply" /\ pc' = [pc EXCEPT ![r] = "answered"] /\ status' = status
      /\ replied[r] = "none"
  BY DEF Reply, Goto, replied
<1>2. ~Settles(r) /\ ~BeginItem(r)
  BY <1>1 DEF Settles, BeginItem, Accept, SkipUnknownGroup, BackupFailedSkip, RestoreDone,
              UndoDone, RestoreFailed
<1>3. \A q \in Restores : SameOutcome(q)
  BY <1>a, <1>2, OnwardSameOutcome, OthersSameOutcome
<1>4. askedItems' = askedItems /\ \A q \in Restores : Ids(q)' = Ids(q)
  BY <1>a, AskedStands
<1>5. itemVerdict' = itemVerdict
  BY <1>3, <1>4 DEF itemVerdict, SameOutcome
<1>6. configKept' = configKept
  <2>1. \A q \in Restores : configKept'[q] = configKept[q]
    BY <1>a, <1>3, SameConfig
  <2>2. /\ configKept = [q \in Restores |-> configKept[q]]
        /\ configKept' = [q \in Restores |-> configKept'[q]]
    BY DEF configKept
  <2>. QED BY <2>1, <2>2
<1>7. replied' = [replied EXCEPT ![r] = status[r]]
  BY <1>a, <1>1 DEF replied, RestoreTypeOK
<1>8. Promise!MayReply(r, status[r])
  BY <1>a, <1>1, StatusFollows
<1>9. status[r] \in {"SUCCESS", "PARTIAL_SUCCESS", "FAILED", "UNKNOWN"}
  BY <1>a DEF RestoreTypeOK, Status, ItemOutcome
<1>10. Promise!Answer(r)
  BY <1>1, <1>4, <1>5, <1>6, <1>7, <1>8, <1>9 DEF Promise!Answer
<1>. QED BY <1>10 DEF Promise!OutcomeNext

(* Every step of a thread is one of these, or changes nothing.                 *)
LEMMA WorkerStepRefines ==
  ASSUME RestoreInv, ConfigFollows', NEW r \in Restores, WorkerStep(r)
  PROVE  [Promise!OutcomeNext]_(Promise!outcomeVars)
<1>a. /\ TypeOK /\ RestoreTypeOK /\ request' = request /\ ConfigFollows
      /\ ItemsFromRequest(r) /\ Books(r) /\ EntriesKept(r) /\ LeftOff(r)
      /\ CallOfLoop(r) /\ LoopBounds(r) /\ ItemsOnce(r)
  BY RequestKept, ConfigByVerdict DEF RestoreInv, TypeInv, TypeOK, LoopsInOrder
<1>1. CASE BeginItem(r)
  BY <1>a, <1>1, BeginRefines
<1>2. CASE RestoreDone(r)
  BY <1>a, <1>2, SucceedRefines
<1>3. CASE BackupFailedSkip(r) \/ UndoDone(r)
  BY <1>a, <1>3, GiveUpRefines
<1>4. CASE SkipUnknownGroup(r)
  BY <1>a, <1>4, SkipRefines
<1>5. CASE Reply(r)
  BY <1>a, <1>5, AnswerRefines
<1>6. CASE /\ ~Reply(r)
          /\ \/ ~Settles(r) /\ ~BeginItem(r)
             \/ Accept(r)
             \/ RestoreFailed(r) /\ isV1(r)
  <2>1. SameOutcome(r)
    BY <1>a, <1>6, OnwardSameOutcome, AcceptSameOutcome, FailingV1SameOutcome
  <2>2. \A q \in Restores : SameOutcome(q)
    BY <1>a, <2>1, OthersSameOutcome
  <2>3. replied' = replied
    BY <1>a, <1>6, RepliedStands
  <2>. QED BY <1>a, <2>2, <2>3, NothingHappens
<1>7. Accept(r) \/ RestoreFailed(r) => ~Reply(r)
  BY DEF Accept, RestoreFailed, Reply
<1>. QED BY <1>1, <1>2, <1>3, <1>4, <1>5, <1>6, <1>7 DEF Settles

(* Agents, the ends of threads and idle steps change nothing of the outcome.    *)
LEMMA BackgroundRefines ==
  ASSUME RestoreInv, ConfigFollows', UNCHANGED workerVars
  PROVE  UNCHANGED Promise!outcomeVars
<1>1. \A q \in Restores : Bystander(q)
  BY DEF workerVars, Bystander
<1>2. \A q \in Restores : SameOutcome(q)
  BY <1>1, OutcomeStands DEF workerVars
<1>3. replied' = replied
  BY DEF workerVars, replied
<1>. QED BY <1>2, <1>3, ConfigByVerdict, NothingHappens DEF workerVars

LEMMA InitRefines == Init => Promise!OutcomeInit
<1> SUFFICES ASSUME Init PROVE Promise!OutcomeInit
  OBVIOUS
<1>1. RestoreInv /\ ConfigFollows
  BY InitRestoreInv, ConfigByVerdict
<1>2. \A r \in Restores : pc[r] = "license" /\ items[r] = <<>> /\ statusList[r] = <<>>
  BY DEF Init
<1>3. \A r \in Restores : \A i : VerdictOf(r, i) = "pending"
  <2>1. \A r \in Restores : \A i : ~AtWork(r, i) /\ \A st : Entries(r, st) = {}
    BY <1>2 DEF AtWork, Begun, Entries
  <2>. QED BY <2>1, VerdictCases
<1>4. \A r \in Restores : \A f \in Feature : configKept[r][f] = "kept"
  BY <1>1, <1>3, OpenCases DEF ConfigFollows, ConfigOf
<1>5. configKept = [r \in Restores |-> [f \in Feature |-> "kept"]]
  BY <1>4 DEF configKept
<1>6. itemVerdict = [r \in Restores |-> [i \in DOMAIN askedItems[r] |-> "pending"]]
  BY <1>3, MappedIs DEF itemVerdict
<1>7. replied = [r \in Restores |-> "none"]
  BY <1>2 DEF replied
<1>. QED BY <1>5, <1>6, <1>7 DEF Promise!OutcomeInit

-----------------------------------------------------------------------------
(* The refinement. *)

LEMMA StepRefines ==
  ASSUME CrashInv, ConfigFollows', [CrashNext]_crashVars
  PROVE  [Promise!OutcomeNext]_(Promise!outcomeVars)
<1>a. RestoreInv
  BY DEF CrashInv
<1>1. CASE \E r \in Restores \ lost : WorkerStep(r)
  BY <1>a, <1>1, WorkerStepRefines
<1>2. CASE UNCHANGED workerVars
  BY <1>a, <1>2, BackgroundRefines
<1>. QED
  BY <1>1, <1>2
  DEF CrashNext, AgentStep, DaemonDies, Reboot, ThreadsEnd, AllOver, crashVars, vars

(* An item is restored or given up as a whole, decided once, and what was decided *)
(* stays true of the agents, whatever is carried out late and whatever ends the  *)
(* process or the machine in between.                                         *)
THEOREM Refinement == Reporting => (CrashSpec => ImplementsOutcome)
<1> SUFFICES ASSUME Reporting PROVE CrashSpec => ImplementsOutcome
  OBVIOUS
<1>1. CrashInv => RestoreInv
  BY DEF CrashInv
<1>2. CrashInv /\ ConfigFollows' /\ [CrashNext]_crashVars
        => [Promise!OutcomeNext]_(Promise!outcomeVars)
  BY StepRefines
<1>3. CrashInit => Promise!OutcomeInit
  BY InitRefines DEF CrashInit
<1>. QED
  BY <1>1, <1>2, <1>3, InitCrashInv, StepKeepsCrashInv, ConfigByVerdictNext, PTL
  DEF CrashSpec, ImplementsOutcome, Promise!OutcomeSpec
-----------------------------------------------------------------------------
(* A request that comes last.  What the others have sent is before all it      *)
(* sends, so that its own reply finds nothing of theirs in the mailbox; and    *)
(* they send no more.                                                         *)

LEMMA BackupStands ==
  ASSUME NEW r \in Restores, WorkerStep(r)
  PROVE  BeginItem(r) \/ BackupOk(r) \/ backup' = backup
BY DEF WorkerStep, LicenseGranted, LicenseRefused, Reject, IntegrityCheckFailed, Accept,
       SkipUnknownGroup, MissingFeature, AllItemsDone, Reply, SendQuery, GiveUp, BackupFailedSkip,
       BackupFailedGoOn, BackupDone, ResetAnswered, ResetDone, UnexpectedReply, RestoreOk,
       RestoreDone, RestoreFailed, UndoResetDone, UndoRestoreAnswered, UndoDone, Abort, workerVars

LEMMA SettledStays ==
  ASSUME \A q \in Restores : NoNewMail(q), NEW f, Settled(f)
  PROVE  Settled(f)'
BY NoMoreInTheMail DEF Settled

LEMMA NotYetClaimsNothing == NotYet => InLine /\ LastHolds
<1> SUFFICES ASSUME NotYet PROVE InLine /\ LastHolds
  OBVIOUS
<1>1. Entries(Last, "SUCCESS") = {} /\ \A id : ~AtWork(Last, id)
  BY DEF NotYet, Entries, AtWork, Begun, CallPhase
<1>2. \A f : ~Done(Last, f)
  BY <1>1 DEF Done
<1>. QED BY <1>2 DEF NotYet, InLine, LastHolds

LEMMA NotYetClaimsNothingNext == NotYet' => RetryInv'
<1>1. NotYet' => InLine' /\ LastHolds'
  BY NotYetClaimsNothing, PTL
<1>. QED BY <1>1 DEF RetryInv

(* Before its first step, nothing another thread or an agent does is its doing.  *)
LEMMA NotYetStays ==
  ASSUME NotYet, Bystander(Last), NoNewMail(Last)
  PROVE  NotYet'
<1>1. BackedUp(Last)' = BackedUp(Last)
  BY RetryAssumption, SameLoop
<1>. QED BY <1>1 DEF NotYet, Bystander, NoNewMail, SameLetter

(* A step of another request: the last one has not begun.                       *)
LEMMA EarlierStep ==
  ASSUME CrashInv, RetryInv, NEW r \in Restores \ lost, r # Last, WorkerStep(r)
  PROVE  RetryInv'
<1>a. RestoreInv /\ TypeOK /\ RestoreTypeOK /\ Last \in Restores /\ Last \in Thread
  BY RetryAssumption, PayloadAssumption DEF CrashInv, RestoreInv, TypeInv, TypeOK
<1>1. NotYet
  BY <1>a, AnsweredIsOver DEF RetryInv, AllGone, Gone
<1>2. Bystander(Last) /\ NoNewMail(Last)
  BY <1>a, OthersStandBy, MailOfWorkerStep
<1>. QED BY <1>1, <1>2, NotYetStays, NotYetClaimsNothingNext

(* A step of the last request itself.                                          *)
LEMMA LastStepInLine ==
  ASSUME RestoreInv, InLine, WorkerStep(Last)
  PROVE  InLine'
<1>a. TypeOK /\ AgentsTypeOK /\ RestoreTypeOK /\ Last \in Restores /\ Last \in Thread
  BY RetryAssumption, PayloadAssumption DEF RestoreInv, TypeInv, TypeOK
<1>1. CASE SendQuery(Last)
  <2>1. PICK f \in todo[Last] :
          /\ f \in Name /\ OpOf(Last) \in Op
          /\ f \in Feature => QueryData(Last, f) \in Data
          /\ Call(Last, OpOf(Last), f, QueryData(Last, f))
    BY <1>a, <1>1, QueryOfLoop
  <2>2. CASE f \in Feature
    <3>1. CallDoes(Last, OpOf(Last), f, QueryData(Last, f))
      BY <1>a, <2>1, <2>2, CallEffect
    <3>2. ASSUME NEW a \in Agent, NEW i \in DOMAIN queue'[a], NEW j \in DOMAIN queue'[a],
                 i < j, queue'[a][i].from = Last, queue'[a][j].from # Last
          PROVE  FALSE
      <4>1. j \in DOMAIN queue[a] /\ queue'[a][j] = queue[a][j]
        BY <3>1, <3>2 DEF CallDoes, Sent
      <4>2. AgentsTypeOK'
        BY <1>a, <2>1, CallKeepsTypes
      <4>3. i \in Nat /\ j \in Nat
        BY <4>2, LenProperties DEF AgentsTypeOK
      <4>4. i \in DOMAIN queue[a] /\ queue'[a][i] = queue[a][i]
        BY <3>1, <3>2, <4>3 DEF CallDoes
      <4>. QED BY <3>2, <4>1, <4>4 DEF InLine
    <3>. QED BY <3>2 DEF InLine
  <2>3. CASE f \notin Feature
    BY <2>1, <2>3 DEF Call, InLine
  <2>. QED BY <2>2, <2>3
<1>2. CASE GiveUp(Last)
  <2>1. TimeOutDoes(Last)
    BY <1>a, <1>2, TimeOutEffect DEF GiveUp
  <2>. QED BY <2>1 DEF TimeOutDoes, InLine
<1>3. CASE Consume(Last) \/ UNCHANGED agentVars
  BY <1>3 DEF Consume, agentVars, InLine
<1>. QED BY <1>1, <1>2, <1>3, <1>a, WorkerTouch

LEMMA LastStepHolds ==
  ASSUME RestoreInv, RestoreInv', LastHolds, WorkerStep(Last)
  PROVE  LastHolds'
<1>a. /\ TypeOK /\ AgentsTypeOK /\ RestoreTypeOK /\ Last \in Restores /\ Last \in Thread
      /\ Restores \subseteq Thread /\ NothingLate' /\ BackedUp(Last)' \subseteq Feature
      /\ ItemsFromRequest(Last) /\ Books(Last) /\ CallOfLoop(Last) /\ LoopBounds(Last)
      /\ ItemsOnce(Last)
  BY RetryAssumption, PayloadAssumption
  DEF RestoreInv, TypeInv, TypeOK, LoopsInOrder, SInv, BackedUp
<1>1. store' = store /\ ClaimsShrink(Last)
  BY <1>a, MailOfWorkerStep, WorkerStepShrinks
<1>2. ASSUME NEW f \in Feature, Settled(f), Done(Last, f)' \/ AsFound(Last, f)'
      PROVE  Settled(f)'
  <2>1. ~InTheMail(Last, f)'
    BY <1>2, <1>a DEF NothingLate
  <2>2. ASSUME NEW q \in Restores, q # Last PROVE ~InTheMail(q, f)'
    <3>1. NoNewMail(q)
      BY <1>a, <2>2, MailOfWorkerStep
    <3>. QED BY <1>2, <3>1, NoMoreInTheMail DEF Settled
  <2>. QED BY <2>1, <2>2 DEF Settled
<1>3. ASSUME NEW f \in Feature, Done(Last, f)' PROVE store'[f] = Last /\ Settled(f)'
  BY <1>1, <1>2, <1>3 DEF ClaimsShrink, LastHolds
<1>4. ASSUME NEW f \in BackedUp(Last)', AsFound(Last, f)'
      PROVE  store'[f] = backup'[Last][f] /\ Settled(f)'
  <2>1. f \in Feature /\ AsFound(Last, f) /\ backup'[Last][f] # None
    BY <1>1, <1>4 DEF ClaimsShrink, BackedUp
  <2>2. CASE BeginItem(Last)
    <3>1. backup'[Last] = [g \in Feature |-> None]
      BY <1>a, <2>2 DEF BeginItem, RestoreTypeOK
    <3>. QED BY <2>1, <3>1
  <2>3. CASE BackupOk(Last)
    <3>1. /\ pc[Last] = "backup" /\ answer[Last].kind = "ok"
          /\ backup' = [backup EXCEPT ![Last][answer[Last].feature] = answer[Last].data]
      BY <1>a, <2>3 DEF BackupOk, Succeeded, CallOfLoop
    <3>2. backup[Last] \in [Feature -> Data] /\ backup \in [Restores -> [Feature -> Data]]
      BY <1>a DEF RestoreTypeOK
    <3>3. backup'[Last][f] = IF f = answer[Last].feature THEN answer[Last].data ELSE backup[Last][f]
      BY <1>a, <2>1, <3>1, <3>2
    <3>4. store[f] = backup'[Last][f] /\ Settled(f)
      BY <2>1, <3>1, <3>3 DEF LastHolds, BackedUp
    <3>. QED BY <1>1, <1>2, <1>4, <2>1, <3>4
  <2>4. CASE backup' = backup
    <3>1. f \in BackedUp(Last)
      BY <2>1, <2>4 DEF BackedUp
    <3>2. store[f] = backup[Last][f] /\ Settled(f)
      BY <2>1, <3>1 DEF LastHolds
    <3>. QED BY <1>1, <1>2, <1>4, <2>1, <2>4, <3>2
  <2>. QED BY <1>a, <2>2, <2>3, <2>4, BackupStands
<1>5. answer'[Last].kind # "ok"
  BY <1>a, NoReplyOfItsOwn
<1>. QED BY <1>3, <1>4, <1>5 DEF LastHolds

LEMMA LastStep ==
  ASSUME CrashInv, CrashInv', RetryInv, WorkerStep(Last), AskAgain, lost' = lost
  PROVE  RetryInv'
<1>a. RestoreInv /\ RestoreInv' /\ RestoreTypeOK /\ Last \in Restores
  BY RetryAssumption DEF CrashInv, RestoreInv, TypeInv, TypeOK
<1>1. AllGone
  BY <1>a, AnsweredIsOver DEF AskAgain, RetryInv, NotYet
<1>2. AllGone'
  BY <1>a, <1>1, OthersStandBy DEF AllGone, Gone, Bystander
<1>3. InLine'
  BY <1>a, LastStepInLine DEF RetryInv
<1>4. LastHolds'
  BY <1>a, LastStepHolds DEF RetryInv
<1>. QED BY <1>2, <1>3, <1>4 DEF RetryInv

(* A reply to the last request finds it alone with its agent: what is left in    *)
(* that mailbox would be behind, and its own are not, since it is blocked.       *)
LEMMA ServedAlone ==
  ASSUME RestoreInv, InLine, NEW a \in Agent, NEW kind, Serve(a, kind),
         queue[a][1].awaited, queue[a][1].from = Last, NEW f, queue[a][1].feature = f
  PROVE  Settled(f)'
<1>a. AgentsTypeOK /\ InOrder /\ ServeDoes(a, kind)
  BY ServeEffect DEF RestoreInv, TypeInv, TypeOK, LoopsInOrder
<1>1. 1 \in DOMAIN queue[a] /\ m_agent[f] = a
      /\ \A j \in DOMAIN queue[a] : j > 1 => queue[a][j].from # Last
  BY <1>a DEF ServeDoes, InOrder, MailboxesInOrder
<1>2. \A j \in DOMAIN queue[a] : ~(j > 1)
  <2> SUFFICES ASSUME NEW j \in DOMAIN queue[a], j > 1 PROVE FALSE
    OBVIOUS
  <2>1. 1 < j
    BY <1>a, MessageTypes
  <2>. QED BY <1>1, <2>1 DEF InLine
<1>3. ASSUME NEW b \in Agent, NEW i \in DOMAIN queue'[b], queue'[b][i].feature = f PROVE FALSE
  <2>1. CASE b = a
    BY <1>a, <1>2, <1>3, <2>1 DEF ServeDoes
  <2>2. CASE b # a
    <3>1. queue'[b] = queue[b]
      BY <1>a, <2>2 DEF ServeDoes
    <3>. QED BY <1>1, <1>3, <1>a, <2>2, <3>1 DEF InOrder, MailboxesInOrder
  <2>. QED BY <2>1, <2>2
<1>. QED BY <1>3 DEF Settled, InTheMail

LEMMA ServeKeepsInLine ==
  ASSUME AgentsTypeOK, InLine, NEW a \in Agent, NEW kind, Serve(a, kind)
  PROVE  InLine'
<1>1. ServeDoes(a, kind)
  BY ServeEffect
<1>2. ASSUME NEW b \in Agent, NEW i \in DOMAIN queue'[b], NEW j \in DOMAIN queue'[b],
             i < j, queue'[b][i].from = Last
      PROVE  queue'[b][j].from = Last
  <2>1. CASE b = a
    <3>1. /\ i + 1 \in DOMAIN queue[a] /\ queue'[a][i] = queue[a][i + 1] /\ i \in Nat
          /\ j + 1 \in DOMAIN queue[a] /\ queue'[a][j] = queue[a][j + 1] /\ j \in Nat
      BY <1>1, <1>2, <2>1 DEF ServeDoes
    <3>2. i + 1 < j + 1
      BY <1>2, <3>1
    <3>. QED BY <1>2, <2>1, <3>1, <3>2 DEF InLine
  <2>2. CASE b # a
    BY <1>1, <1>2, <2>2 DEF ServeDoes, InLine
  <2>. QED BY <2>1, <2>2
<1>. QED BY <1>2 DEF InLine

LEMMA ServeKeepsLastHolds ==
  ASSUME RestoreInv, InLine, LastHolds, NEW a \in Agent, NEW kind, kind # "empty",
         Serve(a, kind), UNCHANGED workerVars
  PROVE  LastHolds'
<1> DEFINE m == queue[a][1]
<1>a. /\ TypeOK /\ AgentsTypeOK /\ InOrder /\ NothingLate /\ Last \in Restores /\ Last \in Thread
      /\ Last # None /\ ItemsFromRequest(Last) /\ ItemsOnce(Last) /\ CallOfLoop(Last)
  BY RetryAssumption, PayloadAssumption, AgentsAssumption
  DEF RestoreInv, TypeInv, TypeOK, LoopsInOrder, SInv
<1>b. Bystander(Last) /\ backup' = backup /\ pc' = pc /\ BackedUp(Last)' = BackedUp(Last)
  <2>1. Bystander(Last)
    BY DEF workerVars, Bystander
  <2>. QED BY <1>a, <2>1, SameLoop DEF workerVars
(* A feature nobody is about to change is not changed.                          *)
<1>1. ASSUME NEW f \in Feature, Settled(f) PROVE store'[f] = store[f] /\ Settled(f)'
  <2>1. ~(f = m.feature /\ Changes(m))
    BY <1>1, <1>a, ServedStore DEF Settled, Writers
  <2>2. \A q \in Restores : NoNewMail(q)
    BY <1>a, ServeSendsNothing, PayloadAssumption
  <2>. QED BY <1>1, <1>a, <2>1, <2>2, ServedStore, SettledStays
<1>2. ASSUME NEW f, NEW d, d # None, kind = "ok", Restoring(a, Last, f, d)
      PROVE  store'[f] = d /\ Settled(f)'
  <2>1. f = m.feature /\ m.awaited /\ m.from = Last
    BY <1>2 DEF Restoring
  <2>2. Settled(f)'
    BY <2>1, ServedAlone
  <2>3. store'[f] = d
    BY <1>2, <1>a, ServedStore
  <2>. QED BY <2>1, <2>2, <2>3
<1>3. ASSUME NEW f \in Feature, Done(Last, f)' PROVE store'[f] = Last /\ Settled(f)'
  <2>1. Done(Last, f) \/ (kind = "ok" /\ Restoring(a, Last, f, Last))
    BY <1>3, <1>a, ServedClaims
  <2>. QED BY <1>1, <1>2, <1>a, <2>1 DEF LastHolds
<1>4. ASSUME NEW f \in BackedUp(Last), AsFound(Last, f)'
      PROVE  store'[f] = backup[Last][f] /\ Settled(f)'
  <2>1. f \in Feature /\ backup[Last][f] # None
    BY DEF BackedUp
  <2>2. AsFound(Last, f) \/ (kind = "ok" /\ Restoring(a, Last, f, backup[Last][f]))
    BY <1>4, <1>a, ServedClaims
  <2>. QED BY <1>1, <1>2, <1>4, <2>1, <2>2 DEF LastHolds
<1>5. ASSUME pc[Last] = "backup", answer'[Last].kind = "ok", NEW f, f = answer'[Last].feature
      PROVE  f \in Feature /\ store'[f] = answer'[Last].data /\ Settled(f)'
  <2>1. ServeDoes(a, kind)
    BY <1>a, ServeEffect
  <2>2. CASE answer'[Last] = answer[Last]
    BY <1>1, <1>5, <2>2 DEF LastHolds
  <2>3. CASE answer'[Last] # answer[Last]
    <3>1. m.awaited /\ m.from = Last /\ kind = "ok" /\ answer'[Last].feature = answer[Last].feature
          /\ 1 \in DOMAIN queue[a] /\ m.feature \in Feature
      BY <1>a, <1>5, <2>1, <2>3 DEF ServeDoes, Message
    <3>2. m.op = "save" /\ answer[Last].feature = m.feature
      BY <1>a, <1>5, <3>1 DEF CallOfLoop, OpOf, InOrder, MailboxesInOrder
    <3>3. answer'[Last].data = store[m.feature]
      BY <2>1, <3>1, <3>2 DEF ServeDoes
    <3>4. ~Changes(m)
      BY <3>2 DEF Changes
    <3>5. store'[m.feature] = store[m.feature]
      BY <1>a, <3>1, <3>4, ServedStore
    <3>6. f = m.feature /\ Settled(f)'
      BY <1>5, <3>1, <3>2, ServedAlone
    <3>. QED BY <3>1, <3>2, <3>3, <3>5, <3>6
  <2>. QED BY <2>2, <2>3
<1>. QED BY <1>b, <1>3, <1>4, <1>5 DEF LastHolds

LEMMA ServeKeepsRetry ==
  ASSUME Reporting, CrashInv, RetryInv, NEW a \in Agent, AgentStep(a), lost' = lost
  PROVE  RetryInv'
<1>a. RestoreInv /\ AgentsTypeOK /\ Last \in Restores /\ Last \in Thread
  BY RetryAssumption, PayloadAssumption DEF CrashInv, RestoreInv, TypeInv, TypeOK
<1>b. PICK kind \in ReplyKind : Serve(a, kind) /\ UNCHANGED workerVars
  BY DEF AgentStep
<1>1. NotYet => NotYet'
  BY <1>a, <1>b, ServeSendsNothing, NotYetStays DEF workerVars, Bystander
<1>2. AllGone => AllGone'
  BY <1>b DEF AllGone, Gone, workerVars
<1>3. InLine'
  BY <1>a, <1>b, ServeKeepsInLine DEF RetryInv
<1>4. LastHolds'
  BY <1>a, <1>b, ServeKeepsLastHolds DEF RetryInv, Reporting
<1>. QED BY <1>1, <1>2, <1>3, <1>4 DEF RetryInv

(* The end of a process, or of the machine: fewer messages, and no more claims.   *)
LEMMA EndKeepsInLine ==
  ASSUME RestoreInv, InLine, DaemonDies \/ \E r \in Restores : Reboot(r)
  PROVE  InLine'
<1>1. CASE DaemonDies
  <2>1. /\ \A a \in Agent : DOMAIN queue'[a] = DOMAIN queue[a]
        /\ \A a \in Agent : \A i \in DOMAIN queue[a] : queue'[a][i].from = queue[a][i].from
    BY <1>1, DaemonDiesEffect DEF RestoreInv, TypeInv, TypeOK
  <2>. QED BY <2>1 DEF InLine
<1>2. CASE \E r \in Restores : Reboot(r)
  <2>1. \A a \in Agent : DOMAIN queue'[a] = {}
    BY <1>2 DEF Reboot
  <2>. QED BY <2>1 DEF InLine
<1>. QED BY <1>1, <1>2

LEMMA EndKeepsLastHolds ==
  ASSUME RestoreInv, LastHolds, Ends
  PROVE  LastHolds'
<1>a. /\ RestoreTypeOK /\ ItemsFromRequest(Last) /\ Last \in Restores /\ Last \in Thread
      /\ Restores \subseteq Thread
  BY RetryAssumption, PayloadAssumption DEF RestoreInv, TypeInv, TypeOK
<1>b. Bystander(Last) /\ backup' = backup /\ pc' = pc /\ BackedUp(Last)' = BackedUp(Last)
      /\ answer'[Last] \in {NoAnswer, answer[Last]} /\ request' = request
  <2>1. Bystander(Last)
    BY DEF Ends, workerVars, Bystander
  <2>. QED BY <1>a, <2>1, SameLoop DEF Ends, workerVars
<1>1. ClaimsShrink(Last)
  BY <1>a, <1>b, EndShrinks
<1>2. \A q \in Restores : NoNewMail(q)
  BY DEF Ends, NoNewMail
<1>3. ASSUME NEW f \in Feature, Settled(f) PROVE store'[f] = store[f] /\ Settled(f)'
  BY <1>2, <1>3, SettledStays DEF Ends, Settled, Writers
<1>4. ASSUME NEW f \in Feature, Done(Last, f)' PROVE store'[f] = Last /\ Settled(f)'
  BY <1>1, <1>3, <1>4 DEF ClaimsShrink, LastHolds
<1>5. ASSUME NEW f \in BackedUp(Last), AsFound(Last, f)'
      PROVE  store'[f] = backup[Last][f] /\ Settled(f)'
  BY <1>1, <1>3, <1>5 DEF ClaimsShrink, LastHolds, BackedUp
<1>6. ASSUME pc[Last] = "backup", answer'[Last].kind = "ok", NEW f, f = answer'[Last].feature
      PROVE  f \in Feature /\ store'[f] = answer'[Last].data /\ Settled(f)'
  <2>1. answer'[Last] = answer[Last]
    BY <1>b, <1>6 DEF NoAnswer
  <2>. QED BY <1>3, <1>6, <2>1 DEF LastHolds
<1>. QED BY <1>b, <1>4, <1>5, <1>6 DEF LastHolds

LEMMA EndKeepsRetry ==
  ASSUME CrashInv, RetryInv, DaemonDies \/ \E r \in Restores : Reboot(r)
  PROVE  RetryInv'
<1>a. RestoreInv /\ Last \in Restores /\ Last \in Thread
  BY RetryAssumption, PayloadAssumption DEF CrashInv
<1>1. Ends
  BY <1>a, DaemonDiesEnds, RebootEnds
<1>2. NotYet => NotYet'
  BY <1>a, <1>1, NotYetStays DEF Ends, workerVars, Bystander, NoNewMail
<1>3. AllGone => AllGone'
  <2>1. pc' = pc /\ lost \subseteq lost'
    BY DEF DaemonDies, Reboot, ThreadsEnd, workerVars
  <2>. QED BY <2>1 DEF AllGone, Gone
<1>4. InLine' /\ LastHolds'
  BY <1>a, <1>1, EndKeepsInLine, EndKeepsLastHolds DEF RetryInv
<1>. QED BY <1>2, <1>3, <1>4 DEF RetryInv

LEMMA RetryFrame ==
  ASSUME RestoreInv, RetryInv, UNCHANGED crashVars
  PROVE  RetryInv'
<1>a. Bystander(Last) /\ UNCHANGED <<store, queue, answer, request, pc, backup, lost>>
  BY DEF crashVars, vars, agentVars, workerVars, Bystander
<1>1. /\ BackedUp(Last)' = BackedUp(Last)
      /\ \A f : (Done(Last, f)' <=> Done(Last, f)) /\ (AsFound(Last, f)' <=> AsFound(Last, f))
  BY <1>a, RetryAssumption, SameLoop, ClaimsStand
<1>2. \A f : Settled(f)' <=> Settled(f)
  BY <1>a DEF Settled, InTheMail, Changes
<1>3. LastHolds'
  BY <1>a, <1>1, <1>2 DEF RetryInv, LastHolds
<1>4. (NotYet \/ AllGone)'
  BY <1>a, <1>1 DEF Bystander, RetryInv, NotYet, AllGone, Gone
<1>5. InLine'
  BY <1>a DEF RetryInv, InLine
<1>. QED BY <1>3, <1>4, <1>5 DEF RetryInv

-----------------------------------------------------------------------------
LEMMA InitRetry == CrashInit => RetryInv
<1> SUFFICES ASSUME CrashInit PROVE NotYet
  BY NotYetClaimsNothing DEF RetryInv
<1>. QED BY RetryAssumption DEF CrashInit, Init, AgentsInit, NotYet, BackedUp

LEMMA StepKeepsRetry ==
  ASSUME Reporting, CrashInv, RetryInv, [CrashNext /\ AskAgain]_crashVars
  PROVE  RetryInv'
<1>1. CrashInv'
  BY StepKeepsCrashInv
<1>2. ASSUME NEW r \in Restores \ lost, WorkerStep(r), lost' = lost, AskAgain PROVE RetryInv'
  <2>1. CASE r = Last
    BY <1>1, <1>2, <2>1, LastStep
  <2>2. CASE r # Last
    BY <1>2, <2>2, EarlierStep
  <2>. QED BY <2>1, <2>2
<1>3. RestoreInv
  BY DEF CrashInv
<1>. QED BY <1>2, <1>3, ServeKeepsRetry, EndKeepsRetry, RetryFrame DEF CrashNext, AllOver

LEMMA InvRepairs == RetryInv => RetryRepairs
BY DEF RetryInv, LastHolds, RetryRepairs, HoldsRestored, Done, Writable

LEMMA InvFoundAgain == RestoreInv /\ RetryInv => RetryRollsBackToFound
<1> SUFFICES ASSUME RestoreInv, RetryInv, NEW it \in Requested(Last),
                    it.id \in Entries(Last, "FAILED"), Finished(Last, it),
                    NEW f \in Writable(Last, it) \ (unbacked[Last] \cup unrecoverable[Last]),
                    f \in BackedUp(Last)
             PROVE  store[f] = backup[Last][f]
  BY DEF RetryRollsBackToFound
<1>1. ~AtWork(Last, it.id)
  <2>1. items[Last] # <<>> => 1 \in DOMAIN items[Last] /\ Current(Last) = items[Last][1]
    BY RetryAssumption DEF RestoreInv, TypeInv, TypeOK, RestoreTypeOK, Current
  <2>. QED BY <2>1 DEF AtWork, Begun, Finished
<1>2. AsFound(Last, f)
  BY <1>1 DEF AsFound
<1>. QED BY <1>2 DEF RetryInv, LastHolds

(* A request that comes when all others are answered or lost repairs what they    *)
(* have left, messages in the mailboxes and processes gone half way included:    *)
(* what it reports SUCCESS is what its payload carries.                        *)
THEOREM RetryRestores == Reporting => (AskAgainSpec => []RetryRepairs)
<1> SUFFICES ASSUME Reporting PROVE AskAgainSpec => []RetryRepairs
  OBVIOUS
<1>. QED BY InitCrashInv, InitRetry, StepKeepsCrashInv, StepKeepsRetry, InvRepairs, PTL
     DEF AskAgainSpec

(* ... and what it reports FAILED is what it found itself, whoever left it so.   *)
THEOREM RetryRollsBack == Reporting => (AskAgainSpec => []RetryRollsBackToFound)
<1> SUFFICES ASSUME Reporting PROVE AskAgainSpec => []RetryRollsBackToFound
  OBVIOUS
<1>1. CrashInv => RestoreInv
  BY DEF CrashInv
<1>. QED BY <1>1, InitCrashInv, InitRetry, StepKeepsCrashInv, StepKeepsRetry, InvFoundAgain, PTL
     DEF AskAgainSpec
=============================================================================
