----------------------------- MODULE SrrAgents -----------------------------
(***************************************************************************)
(* The back end: the agents that own the features, their mailboxes on the   *)
(* message bus, and sendRequest (helpers/utils.cc), the one way a worker     *)
(* thread talks to them.  A thread has at most one request outstanding: the  *)
(* call blocks until the correlated reply arrives or the time-out passes.    *)
(* A request that timed out stays in its mailbox and is served late, its     *)
(* reply matched by nobody.                                                  *)
(*                                                                           *)
(* The agents and the bus are not part of this repository.  What is assumed  *)
(* of them: a mailbox is FIFO, an agent serves one message at a time, a      *)
(* successful reset or restore takes effect on exactly the named feature,    *)
(* and a reply that is not a success tells nothing of the feature's state.   *)
(***************************************************************************)
EXTENDS SrrGroups

CONSTANTS
  Thread,          \* the detached threads serving UI requests
  Initial,         \* the configuration a feature has before any request
  Default,         \* the configuration after a reset
  Undefined,       \* what an operation that went wrong may leave behind
  None,            \* no configuration, no feature: an empty query, no answer yet
  ReplyKind,       \* the replies the agents may give, a subset of AnyReply
  CanTimeOut       \* whether request() may give up waiting

(* The configuration thread t carries in its payload is written t itself.    *)
Data == Thread \cup {Initial, Default, Undefined, None}

(* "empty": a reply that reports on no feature, from an agent that did nothing. *)
AnyReply == {"ok", "empty", "failed", "malformed"}
Op == {"save", "reset", "restore"}

ASSUME AgentsAssumption ==
  /\ {Initial, Default, Undefined, None} \cap Thread = {}
  /\ Initial # Default /\ Initial # Undefined /\ Initial # None
  /\ Default # Undefined /\ Default # None /\ Undefined # None
  /\ ReplyKind \subseteq AnyReply
  /\ CanTimeOut \in BOOLEAN

(* An agent that answers with SUCCESS reports on the feature it was asked     *)
(* about.  Nothing in sendRequest or its callers checks it.                   *)
Reporting == "empty" \notin ReplyKind

VARIABLES
  store,           \* the configuration each feature has in its agent
  queue,           \* the mailbox of each agent
  answer           \* what sendRequest has for each thread

agentVars == <<store, queue, answer>>

(* "none": no call; "pending": blocked in request(); "unreachable": the      *)
(* look-up of the feature's agent threw before anything was sent.            *)
AnswerKind == {"none", "pending", "unreachable", "timeout"} \cup AnyReply

Message == [from : Thread, op : Op, feature : Feature, data : Data, awaited : BOOLEAN]
Answer == [kind : AnswerKind, feature : Name \cup {None}, data : Data]
NoAnswer == [kind |-> "none", feature |-> None, data |-> None]

AgentsTypeOK ==
  /\ store \in [Feature -> Data \ {None}]
  /\ queue \in [Agent -> Seq(Message)]
  /\ answer \in [Thread -> Answer]

AgentsInit ==
  /\ store = [f \in Feature |-> Initial]
  /\ queue = [a \in Agent |-> <<>>]
  /\ answer = [t \in Thread |-> NoAnswer]

Idle(t)     == answer[t].kind = "none"
Answered(t) == answer[t].kind \notin {"none", "pending"}

(* No status other than SUCCESS is in the reply.                              *)
Succeeded(t) == answer[t].kind \in {"ok", "empty"}

(* The call raised SrrException, or the reply reports a status other than     *)
(* SUCCESS: both become SrrSaveFailed, SrrResetFailed or SrrRestoreFailed.    *)
Failed(t) == answer[t].kind \in {"failed", "timeout"}

(* Thread t calls the agent of feature f and blocks.  A feature no table      *)
(* knows has no agent to call: the look-up throws.                            *)
Call(t, op, f, d) ==
  IF f \in Feature
  THEN /\ answer' = [answer EXCEPT ![t] = [kind |-> "pending", feature |-> f, data |-> None]]
       /\ queue' = [queue EXCEPT ![m_agent[f]] =
            Append(@, [from |-> t, op |-> op, feature |-> f, data |-> d, awaited |-> TRUE])]
       /\ UNCHANGED store
  ELSE /\ answer' = [answer EXCEPT ![t] = [kind |-> "unreachable", feature |-> f, data |-> None]]
       /\ UNCHANGED <<store, queue>>

(* The thread has handled the answer it was given.                            *)
Consume(t) ==
  /\ answer' = [answer EXCEPT ![t] = NoAnswer]
  /\ UNCHANGED <<store, queue>>

(* Mutant: a query without data clears the feature.                           *)
AppliedBlindly(m) ==
  CASE m.op = "reset"   -> Default
    [] m.op = "restore" -> m.data
    [] OTHER            -> store[m.feature]

(* What message m makes of its feature when the agent carries it out.  A      *)
(* restore query without data for the feature leaves it alone.                *)
Applied(m) ==
  CASE m.op = "reset"                       -> Default
    [] m.op = "restore" /\ m.data # None  -> m.data
    [] OTHER                                -> store[m.feature]

Changes(m) == m.op = "reset" \/ (m.op = "restore" /\ m.data # None)

(* What may be in the feature once m was carried out and answered with kind.   *)
Outcomes(m, kind) ==
  IF kind = "empty" THEN {store[m.feature]}
  ELSE IF Changes(m) /\ kind # "ok" THEN {Applied(m), store[m.feature], Undefined}
  ELSE {Applied(m)}

(* Mutant: the reply goes to any thread that waits for the feature.            *)
DeliveredToAny(m, kind, d) ==
  LET waiting == {t \in Thread : answer[t].kind = "pending" /\ answer[t].feature = m.feature}
      t == CHOOSE u \in waiting : TRUE
  IN  IF waiting = {} THEN answer
      ELSE [answer EXCEPT ![t].kind = kind, ![t].data = d]

(* The reply reaches the thread that waits for it, by its correlation id.     *)
Delivered(m, kind, d) ==
  IF m.awaited THEN [answer EXCEPT ![m.from].kind = kind, ![m.from].data = d] ELSE answer

(* Agent a serves the oldest message of its mailbox, replying kind.           *)
Serve(a, kind) ==
  LET m == Head(queue[a])
      saved == IF kind = "ok" /\ m.op = "save" THEN store[m.feature] ELSE None
  IN  /\ queue[a] # <<>>
      /\ queue' = [queue EXCEPT ![a] = Tail(@)]
      /\ \E d \in Outcomes(m, kind) : store' = [store EXCEPT ![m.feature] = d]
      /\ answer' = Delivered(m, kind, saved)

(* Mutant: the late reply is still matched with the thread.                   *)
TimeOutStillAwaited(t) ==
  /\ CanTimeOut
  /\ answer[t].kind = "pending"
  /\ answer' = [answer EXCEPT ![t].kind = "timeout"]
  /\ UNCHANGED <<store, queue>>

(* request() gives up: the message stays in the mailbox, awaited by nobody.   *)
TimeOut(t) ==
  /\ CanTimeOut
  /\ answer[t].kind = "pending"
  /\ answer' = [answer EXCEPT ![t].kind = "timeout"]
  /\ queue' = [queue EXCEPT ![m_agent[answer[t].feature]] =
       [i \in DOMAIN @ |-> IF @[i].from = t THEN [@[i] EXCEPT !.awaited = FALSE] ELSE @[i]]]
  /\ UNCHANGED store

-----------------------------------------------------------------------------
(* What holds between the threads and the mailboxes. *)

(* The messages thread t waits for, by mailbox and position.                  *)
AwaitedBy(t) ==
  UNION {{<<a, i>> : i \in {j \in DOMAIN queue[a] : queue[a][j].from = t /\ queue[a][j].awaited}}
         : a \in Agent}

(* A message is in the mailbox of the agent of its feature.  One that is       *)
(* awaited is about the feature its thread waits for, and the last thing that  *)
(* thread has sent there: it is blocked.                                      *)
MailboxesInOrder ==
  \A a \in Agent : \A i \in DOMAIN queue[a] :
    /\ m_agent[queue[a][i].feature] = a
    /\ queue[a][i].awaited =>
         /\ answer[queue[a][i].from].kind = "pending"
         /\ answer[queue[a][i].from].feature = queue[a][i].feature
         /\ \A j \in DOMAIN queue[a] : j > i => queue[a][j].from # queue[a][i].from

(* A thread that is blocked has something to wait for.                        *)
CallsPosted ==
  \A t \in Thread : answer[t].kind = "pending" =>
    /\ answer[t].feature \in Feature
    /\ \E i \in DOMAIN queue[m_agent[answer[t].feature]] :
         /\ queue[m_agent[answer[t].feature]][i].from = t
         /\ queue[m_agent[answer[t].feature]][i].awaited
=============================================================================
