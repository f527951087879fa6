----------------------------- MODULE SrrDaemon -----------------------------
(***************************************************************************)
(* The process around the requests: main with its wait for SIGINT           *)
(* (fty-srr.cc), the manager that opens the buses, starts a detached thread  *)
(* per message of the UI and sends what the worker makes of it               *)
(* (fty_srr_manager.cc), and systemd, which starts the daemon again whatever  *)
(* it ended by (fty-srr.service.in).  What save and restore do inside is in   *)
(* SrrSave and SrrRestore: here they take a step and return a response.       *)
(*                                                                           *)
(* Messages of the UI carry their metadata and their user data.               *)
(***************************************************************************)
EXTENDS Naturals

CONSTANTS
  Query,           \* the messages of the UI
  Subject,         \* the subjects they may have
  MaxInterrupts,   \* bound on the times a running daemon is interrupted
  MaxBusFailures   \* bound on the failures of the message bus

m_requestType == {"list", "save", "restore", "reset"}

ASSUME DaemonAssumption ==
  /\ m_requestType \subseteq Subject
  /\ MaxInterrupts \in Nat /\ MaxBusFailures \in Nat

VARIABLES
  main,            \* where the main thread is
  g_exit,          \* set by the signal handler
  handlers,        \* the handlers bound in m_processor
  listening,       \* whether m_uiBus delivers messages
  subject,         \* the subject of each message
  query,           \* what has become of each message
  response,        \* what its thread has for it
  interrupts, failures

daemonVars == <<main, g_exit, handlers, listening, subject, query, response, interrupts, failures>>
queryVars == <<subject, query, response>>
budget == <<interrupts, failures>>

(* "blocking": the predicate was FALSE and the thread is not yet on the        *)
(* condition variable; "ending": main has returned, its locals are destroyed.  *)
MainPhase == {"starting", "armed", "connected", "bound", "testing", "blocking",
              "waiting", "ending", "down"}
Response == {"none", "result", "Not implemented yet!", "No handler!", "Unknown query!"}

InThread == {u \in Query : query[u] \in {"serving", "answering"}}

(* A message is delivered to handlers that are all bound, and no thread runs   *)
(* without a process.                                                         *)
DaemonConsistent ==
  /\ listening => handlers = m_requestType /\ main \in {"testing", "blocking", "waiting", "ending"}
  /\ main = "down" => InThread = {}

DaemonTypeOK ==
  /\ main \in MainPhase
  /\ g_exit \in BOOLEAN /\ listening \in BOOLEAN
  /\ handlers \subseteq m_requestType
  /\ subject \in [Query -> Subject]
  /\ query \in [Query -> {"unsent", "queued", "serving", "answering", "answered", "lost"}]
  /\ response \in [Query -> Response]
  /\ interrupts \in 0..MaxInterrupts /\ failures \in 0..MaxBusFailures
  /\ DaemonConsistent

DaemonInit ==
  /\ main = "starting"
  /\ g_exit = FALSE /\ listening = FALSE /\ handlers = {}
  /\ subject \in [Query -> Subject]
  /\ query = [u \in Query |-> "unsent"]
  /\ response = [u \in Query |-> "none"]
  /\ interrupts = 0 /\ failures = 0

(* The process ends, with all of its threads: main has returned, or            *)
(* terminateHandler has called exit.                                          *)
ProcessEnds ==
  /\ main' = "down"
  /\ listening' = FALSE /\ handlers' = {} /\ g_exit' = FALSE
  /\ query' = [u \in Query |-> IF u \in InThread THEN "lost" ELSE query[u]]
  /\ UNCHANGED <<subject, response>>

BusFails == failures < MaxBusFailures /\ failures' = failures + 1 /\ UNCHANGED interrupts

-----------------------------------------------------------------------------
(* The main thread, up to the wait. *)

SetSignalHandler ==
  /\ main = "starting" /\ main' = "armed"
  /\ UNCHANGED <<g_exit, handlers, listening, queryVars, budget>>

Connect ==
  /\ main = "armed" /\ main' = "connected"
  /\ UNCHANGED <<g_exit, handlers, listening, queryVars, budget>>

(* An exception of the bus becomes SrrException, which nothing in main catches. *)
ConnectFails ==
  /\ main \in {"armed", "bound"}
  /\ BusFails
  /\ ProcessEnds

Bind ==
  /\ main = "connected" /\ main' = "bound"
  /\ handlers' = m_requestType
  /\ UNCHANGED <<g_exit, listening, queryVars, budget>>

(* Mutant: the queue is opened before the handlers are bound.                  *)
ListenEarly ==
  /\ \/ main = "connected" /\ ~listening /\ UNCHANGED main
     \/ main = "bound" /\ main' = "testing"
  /\ listening' = TRUE
  /\ UNCHANGED <<g_exit, handlers, queryVars, budget>>

Listen ==
  /\ main = "bound" /\ main' = "testing"
  /\ listening' = TRUE
  /\ UNCHANGED <<g_exit, handlers, queryVars, budget>>

-----------------------------------------------------------------------------
(* g_cv.wait with its predicate: the mutex is held from the test to the wait,  *)
(* but the signal handler does not take it.                                   *)

TestPredicate ==
  /\ main = "testing"
  /\ main' = IF g_exit THEN "ending" ELSE "blocking"
  /\ UNCHANGED <<g_exit, handlers, listening, queryVars, budget>>

Block ==
  /\ main = "blocking" /\ main' = "waiting"
  /\ UNCHANGED <<g_exit, handlers, listening, queryVars, budget>>

(* Mutant: the wait has no predicate.                                         *)
WakeAndGo ==
  /\ main = "waiting" /\ main' = "ending"
  /\ UNCHANGED <<g_exit, handlers, listening, queryVars, budget>>

(* A condition variable may wake up without a notification.                   *)
SpuriousWake ==
  /\ main = "waiting" /\ main' = "testing"
  /\ UNCHANGED <<g_exit, handlers, listening, queryVars, budget>>

(* Mutant: the handler sets the flag and leaves the waiter asleep.             *)
InterruptSilent ==
  /\ main \notin {"starting", "down"}
  /\ g_exit' = TRUE
  /\ IF g_exit THEN UNCHANGED interrupts
     ELSE interrupts < MaxInterrupts /\ interrupts' = interrupts + 1
  /\ UNCHANGED <<main, handlers, listening, queryVars, failures>>

(* sigHandler: the flag, then a notification that only a waiter hears.         *)
Interrupt ==
  /\ main \notin {"starting", "down"}
  /\ g_exit' = TRUE
  /\ main' = IF main = "waiting" THEN "testing" ELSE main
  /\ IF g_exit THEN UNCHANGED interrupts
     ELSE interrupts < MaxInterrupts /\ interrupts' = interrupts + 1
  /\ UNCHANGED <<handlers, listening, queryVars, failures>>

(* Before the handler is set a SIGINT ends the process.                        *)
InterruptUnarmed ==
  /\ main = "starting"
  /\ interrupts < MaxInterrupts /\ interrupts' = interrupts + 1
  /\ ProcessEnds
  /\ UNCHANGED failures

(* The buses, the worker and the manager are destroyed under the threads that  *)
(* use them: one of those may fail on the way, which ends the process as well.  *)
Return ==
  /\ main = "ending"
  /\ ProcessEnds
  /\ UNCHANGED budget

(* systemd, Restart=always.                                                   *)
Start ==
  /\ main = "down" /\ main' = "starting"
  /\ UNCHANGED <<g_exit, handlers, listening, queryVars, budget>>

-----------------------------------------------------------------------------
(* The requests. *)

(* The queue of the daemon keeps a message until the daemon listens to it.     *)
Ask(u) ==
  /\ query[u] = "unsent"
  /\ query' = [query EXCEPT ![u] = "queued"]
  /\ UNCHANGED <<main, g_exit, handlers, listening, subject, response, budget>>

HandleRequest(u) ==
  /\ listening /\ query[u] = "queued"
  /\ query' = [query EXCEPT ![u] = "serving"]
  /\ UNCHANGED <<main, g_exit, handlers, listening, subject, response, budget>>

(* The handler of "reset" throws.                                             *)
requestReset == "Not implemented yet!"

(* What processRequest returns, or the text of what it throws.                 *)
ProcessRequest(op) ==
  IF op \notin m_requestType THEN "Unknown query!"
  ELSE IF op \notin handlers THEN "No handler!"
  ELSE IF op = "reset" THEN requestReset ELSE "result"

(* Mutant: an exception leaves uiMsgHandler before the answer.                 *)
ResultsOnly(u) ==
  /\ query[u] = "serving"
  /\ response' = [response EXCEPT ![u] = ProcessRequest(subject[u])]
  /\ query' = [query EXCEPT ![u] =
       IF ProcessRequest(subject[u]) = "result" THEN "answering" ELSE @]
  /\ UNCHANGED <<main, g_exit, handlers, listening, subject, budget>>

UiMsgHandler(u) ==
  /\ query[u] = "serving"
  /\ response' = [response EXCEPT ![u] = ProcessRequest(subject[u])]
  /\ query' = [query EXCEPT ![u] = "answering"]
  /\ UNCHANGED <<main, g_exit, handlers, listening, subject, budget>>

SendUiResponse(u) ==
  /\ query[u] = "answering"
  /\ query' = [query EXCEPT ![u] = "answered"]
  /\ UNCHANGED <<main, g_exit, handlers, listening, subject, response, budget>>

(* The SrrException of sendUiResponse leaves a detached thread.                *)
SendFails(u) ==
  /\ query[u] = "answering"
  /\ BusFails
  /\ ProcessEnds

-----------------------------------------------------------------------------

MainStep ==
  \/ SetSignalHandler \/ Connect \/ Bind \/ Listen \/ TestPredicate \/ Block \/ Return

QueryStep(u) == HandleRequest(u) \/ UiMsgHandler(u) \/ SendUiResponse(u)

DaemonNext ==
  \/ MainStep \/ ConnectFails \/ SpuriousWake \/ Start
  \/ Interrupt \/ InterruptUnarmed
  \/ \E u \in Query : Ask(u) \/ QueryStep(u) \/ SendFails(u)

DaemonSpec == DaemonInit /\ [][DaemonNext]_daemonVars

(* The threads of the process run, the bus delivers what is queued, systemd     *)
(* restarts; nobody has to interrupt and no spurious wake-up has to come.       *)
DaemonFairness ==
  /\ WF_daemonVars(MainStep) /\ WF_daemonVars(Start)
  /\ \A u \in Query : WF_daemonVars(QueryStep(u))
FairDaemonSpec == DaemonSpec /\ DaemonFairness

(* Whoever sends SIGINT repeats it while the daemon stays.                     *)
PersistentSpec == FairDaemonSpec /\ WF_daemonVars(Interrupt /\ g_exit)

-----------------------------------------------------------------------------
(* What the process owes to its users. *)

Owed(op) ==
  CASE op \in {"list", "save", "restore"} -> "result"
    [] op = "reset"                       -> "Not implemented yet!"
    [] OTHER                              -> "Unknown query!"

(* Every message gets the answer its subject calls for, in whatever order      *)
(* restarts, interrupts and messages come: a thread never finds its handler    *)
(* unbound, although messages wait in the queue before the daemon is there.     *)
AnswerFitsSubject ==
  \A u \in Query : query[u] \in {"answering", "answered"} => response[u] = Owed(subject[u])

(* The daemon takes leave only of those who asked it to: main returns after a  *)
(* SIGINT, not because the condition variable woke up by itself.               *)
ReturnsOnlyInterrupted == main = "ending" => g_exit

(* Every message sent is answered, an error included, unless the process ends  *)
(* while its thread runs; one that comes while the daemon is down waits for    *)
(* the next process.                                                          *)
EveryQueryConcluded ==
  \A u \in Query : query[u] = "queued" ~> query[u] \in {"answered", "lost"}

(* "wait until interrupt" (fty-srr.cc:136): a SIGINT ends the daemon.  It holds  *)
(* of one that is repeated; a single one between the test of the predicate and  *)
(* the wait is lost.                                                           *)
InterruptEnds == g_exit ~> main = "down"
=============================================================================
