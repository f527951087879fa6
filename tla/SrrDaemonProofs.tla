--------------------------- MODULE SrrDaemonProofs ---------------------------
(***************************************************************************)
(* What SrrDaemon checks of two messages, for any number of messages, of     *)
(* subjects nobody has thought of, and of interrupts and failures of the bus. *)
(***************************************************************************)
EXTENDS SrrDaemon, TLAPS

(* The invariant: a thread runs only in a process that listens, or has, and    *)
(* whose handlers are all bound; what it has for its message is what the       *)
(* subject calls for; and main leaves its wait for a signal only.  The queue    *)
(* is opened from the phase "bound" only, where nothing has unbound a handler.  *)
Serving == {"testing", "blocking", "waiting", "ending"}

DInv ==
  /\ DaemonTypeOK
  /\ listening <=> main \in Serving
  /\ main = "bound" => handlers = m_requestType
  /\ \A u \in Query : query[u] \in {"serving", "answering"} => listening
  /\ AnswerFitsSubject
  /\ ReturnsOnlyInterrupted

LEMMA InitD == DaemonInit => DInv
<1> SUFFICES ASSUME DaemonInit PROVE DInv
  OBVIOUS
<1>1. interrupts \in 0..MaxInterrupts /\ failures \in 0..MaxBusFailures
  BY DaemonAssumption DEF DaemonInit
<1>2. \A u \in Query : query[u] = "unsent"
  BY DEF DaemonInit
<1>3. DaemonTypeOK
  BY <1>1, <1>2 DEF DaemonInit, DaemonTypeOK, DaemonConsistent, InThread, MainPhase, Response
<1>. QED BY <1>2, <1>3 DEF DaemonInit, DInv, AnswerFitsSubject, ReturnsOnlyInterrupted, Serving

(* With all handlers bound the dispatch returns what it owes.                  *)
LEMMA Dispatch ==
  ASSUME handlers = m_requestType, NEW op
  PROVE  ProcessRequest(op) = Owed(op) /\ ProcessRequest(op) \in Response
<1>1. CASE op \in {"list", "save", "restore"}
  BY <1>1 DEF ProcessRequest, m_requestType, Owed, Response
<1>2. CASE op = "reset"
  BY <1>2 DEF ProcessRequest, requestReset, m_requestType, Owed, Response
<1>3. CASE op \notin {"list", "save", "restore", "reset"}
  <2>1. op \notin m_requestType /\ op # "reset" /\ op \notin {"list", "save", "restore"}
    BY <1>3 DEF m_requestType
  <2>2. ProcessRequest(op) = "Unknown query!"
    BY <2>1 DEF ProcessRequest
  <2>3. Owed(op) = "Unknown query!"
    BY <2>1 DEF Owed
  <2>. QED BY <2>2, <2>3 DEF Response
<1>. QED BY <1>1, <1>2, <1>3

(* The end of the process, whichever way: it takes its threads along.          *)
LEMMA EndKeepsD ==
  ASSUME DInv, ProcessEnds, interrupts' \in 0..MaxInterrupts, failures' \in 0..MaxBusFailures
  PROVE  DInv'
BY DEF DInv, ProcessEnds, DaemonTypeOK, DaemonConsistent, InThread, MainPhase, Response,
       AnswerFitsSubject, ReturnsOnlyInterrupted, Serving

(* main on its own: it neither binds, listens nor serves out of order.          *)
LEMMA MainKeepsD ==
  ASSUME DInv, MainStep \/ SpuriousWake \/ Start \/ Interrupt
  PROVE  DInv'
<1> USE DEF DInv, DaemonTypeOK, DaemonConsistent, InThread, MainPhase, Response,
            AnswerFitsSubject, ReturnsOnlyInterrupted, Serving, queryVars, budget
<1>1. CASE SetSignalHandler BY <1>1 DEF SetSignalHandler
<1>2. CASE Connect BY <1>2 DEF Connect
<1>3. CASE Bind BY <1>3 DEF Bind
<1>4. CASE Listen BY <1>4 DEF Listen
<1>5. CASE TestPredicate BY <1>5 DEF TestPredicate
<1>6. CASE Block BY <1>6 DEF Block
<1>7. CASE Return
  BY <1>7, EndKeepsD DEF Return
<1>8. CASE SpuriousWake BY <1>8 DEF SpuriousWake
<1>9. CASE Start BY <1>9 DEF Start
<1>10. CASE Interrupt
  <2>1. interrupts' \in 0..MaxInterrupts
    <3>1. CASE g_exit
      BY <1>10, <3>1 DEF Interrupt
    <3>2. CASE ~g_exit
      <4>1. interrupts < MaxInterrupts /\ interrupts' = interrupts + 1
        BY <1>10, <3>2 DEF Interrupt
      <4>2. interrupts \in 0..MaxInterrupts /\ MaxInterrupts \in Nat
        BY DaemonAssumption
      <4> HIDE DEF DInv
      <4>. QED BY <4>1, <4>2
    <3>. QED BY <3>1, <3>2
  <2>. QED BY <1>10, <2>1 DEF Interrupt
<1>. QED
  BY <1>1, <1>2, <1>3, <1>4, <1>5, <1>6, <1>7, <1>8, <1>9, <1>10 DEF MainStep

(* A thread finds the handler of its subject.                                 *)
LEMMA QueryKeepsD ==
  ASSUME DInv, NEW u \in Query, Ask(u) \/ QueryStep(u)
  PROVE  DInv'
<1> USE DEF DInv, DaemonTypeOK, DaemonConsistent, InThread, MainPhase, Response,
            AnswerFitsSubject, ReturnsOnlyInterrupted, Serving, queryVars, budget
<1>1. CASE Ask(u) BY <1>1 DEF Ask
<1>2. CASE HandleRequest(u) BY <1>2 DEF HandleRequest
<1>3. CASE UiMsgHandler(u)
  <2>1. handlers = m_requestType
    BY <1>3 DEF UiMsgHandler
  <2>2. ProcessRequest(subject[u]) = Owed(subject[u]) /\ ProcessRequest(subject[u]) \in Response
    BY <2>1, Dispatch
  <2> HIDE DEF Response
  <2>. QED BY <1>3, <2>2 DEF UiMsgHandler
<1>4. CASE SendUiResponse(u) BY <1>4 DEF SendUiResponse
<1>. QED BY <1>1, <1>2, <1>3, <1>4 DEF QueryStep

LEMMA StepKeepsD == DInv /\ [DaemonNext]_daemonVars => DInv'
<1> SUFFICES ASSUME DInv, [DaemonNext]_daemonVars PROVE DInv'
  OBVIOUS
<1>1. CASE ConnectFails \/ \E u \in Query : SendFails(u)
  <2>1. ProcessEnds /\ interrupts' \in 0..MaxInterrupts /\ failures' \in 0..MaxBusFailures
    BY <1>1, DaemonAssumption DEF ConnectFails, SendFails, BusFails, DInv, DaemonTypeOK
  <2>. QED BY <2>1, EndKeepsD
<1>2. CASE InterruptUnarmed
  <2>1. ProcessEnds /\ interrupts' \in 0..MaxInterrupts /\ failures' \in 0..MaxBusFailures
    BY <1>2, DaemonAssumption DEF InterruptUnarmed, DInv, DaemonTypeOK
  <2>. QED BY <2>1, EndKeepsD
<1>3. CASE UNCHANGED daemonVars
  BY <1>3 DEF daemonVars, DInv, DaemonTypeOK, DaemonConsistent, InThread,
              AnswerFitsSubject, ReturnsOnlyInterrupted
<1>. QED BY <1>1, <1>2, <1>3, MainKeepsD, QueryKeepsD DEF DaemonNext

(* Every variable keeps its type, and the process is never listening before    *)
(* its handlers are bound.                                                    *)
THEOREM DaemonTypeCorrect == DaemonSpec => []DaemonTypeOK
BY InitD, StepKeepsD, PTL DEF DaemonSpec, DInv

(* Every message answered got what its subject calls for, across restarts,     *)
(* interrupts and failures of the bus.                                        *)
THEOREM AnswersFit == DaemonSpec => []AnswerFitsSubject
BY InitD, StepKeepsD, PTL DEF DaemonSpec, DInv

(* main returns after a SIGINT only, however often the condition variable       *)
(* wakes up by itself.                                                        *)
THEOREM WaitsForInterrupt == DaemonSpec => []ReturnsOnlyInterrupted
BY InitD, StepKeepsD, PTL DEF DaemonSpec, DInv
=============================================================================
