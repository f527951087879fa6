--------------------------- MODULE SrrAgentsProofs --------------------------
(***************************************************************************)
(* Lemmas about SrrAgents: what each way of touching the mailboxes does to   *)
(* them, that it keeps their types, and that replies are matched with the     *)
(* calls they answer.  Restores and saves both rest on them.                 *)
(***************************************************************************)
EXTENDS SrrAgents, SequenceTheorems, TLAPS

-----------------------------------------------------------------------------
(* Lemmas about the agents: each way a thread or an agent touches the         *)
(* mailboxes keeps their types.                                               *)

LEMMA NoNoneAmongConfigurations ==
  /\ Initial \in Data \ {None} /\ Default \in Data \ {None} /\ Undefined \in Data \ {None}
  /\ None \in Data
BY AgentsAssumption DEF Data

LEMMA ExceptKeepsType ==
  ASSUME NEW S, NEW T, NEW g \in [S -> T], NEW s, NEW x \in T
  PROVE  [g EXCEPT ![s] = x] \in [S -> T]
OBVIOUS

LEMMA ExceptElsewhere ==
  ASSUME NEW S, NEW T, NEW g \in [S -> T], NEW s, NEW u \in S \ {s}, NEW x
  PROVE  [g EXCEPT ![s] = x][u] = g[u]
OBVIOUS

LEMMA CallKeepsTypes ==
  ASSUME AgentsTypeOK, NEW t \in Thread, NEW op \in Op, NEW f \in Name, NEW d,
         f \in Feature => d \in Data, Call(t, op, f, d)
  PROVE  AgentsTypeOK'
<1>1. CASE f \in Feature
  <2>1. m_agent[f] \in Agent
    BY <1>1, TablesAssumption
  <2>2. [from |-> t, op |-> op, feature |-> f, data |-> d, awaited |-> TRUE] \in Message
    BY <1>1 DEF Message
  <2>3. queue' \in [Agent -> Seq(Message)]
    <3> DEFINE msg == [from |-> t, op |-> op, feature |-> f, data |-> d, awaited |-> TRUE]
    <3>1. Append(queue[m_agent[f]], msg) \in Seq(Message)
      BY <2>1, <2>2, AppendProperties DEF AgentsTypeOK
    <3>2. queue' = [queue EXCEPT ![m_agent[f]] = Append(queue[m_agent[f]], msg)]
      BY <1>1 DEF Call
    <3>3. queue \in [Agent -> Seq(Message)]
      BY DEF AgentsTypeOK
    <3>. QED BY ONLY <3>1, <3>2, <3>3, ExceptKeepsType
  <2>4. answer' \in [Thread -> Answer]
    <3> DEFINE ans == [kind |-> "pending", feature |-> f, data |-> None]
    <3>1. ans \in Answer
      BY NoNoneAmongConfigurations DEF Answer, AnswerKind
    <3>2. answer' = [answer EXCEPT ![t] = ans] /\ answer \in [Thread -> Answer]
      BY <1>1 DEF Call, AgentsTypeOK
    <3>. QED BY ONLY <3>1, <3>2, ExceptKeepsType
  <2>5. store' = store
    BY <1>1 DEF Call
  <2>. QED BY <2>3, <2>4, <2>5 DEF AgentsTypeOK
<1>2. CASE f \notin Feature
  <2>1. answer' \in [Thread -> Answer]
    BY <1>2, NoNoneAmongConfigurations DEF Call, AgentsTypeOK, Answer, AnswerKind
  <2>. QED BY <1>2, <2>1 DEF AgentsTypeOK, Call
<1>. QED BY <1>1, <1>2

LEMMA ConsumeKeepsTypes ==
  ASSUME AgentsTypeOK, NEW t \in Thread, Consume(t)
  PROVE  AgentsTypeOK'
BY NoNoneAmongConfigurations DEF Consume, AgentsTypeOK, NoAnswer, Answer, AnswerKind

LEMMA ServeKeepsTypes ==
  ASSUME AgentsTypeOK, NEW a \in Agent, NEW kind \in ReplyKind, Serve(a, kind)
  PROVE  AgentsTypeOK'
<1> DEFINE m == Head(queue[a])
           saved == IF kind = "ok" /\ m.op = "save" THEN store[m.feature] ELSE None
<1>1. queue[a] \in Seq(Message) /\ queue[a] # <<>>
  BY DEF Serve, AgentsTypeOK
<1>2. m \in Message
  BY <1>1
<1>3. m.from \in Thread /\ m.feature \in Feature /\ m.data \in Data
  BY <1>2 DEF Message
<1>4. queue' \in [Agent -> Seq(Message)]
  BY <1>1 DEF Serve, AgentsTypeOK
<1>5. store[m.feature] \in Data \ {None}
  BY <1>3 DEF AgentsTypeOK
<1>6. Outcomes(m, kind) \subseteq Data \ {None}
  BY <1>3, <1>5, NoNoneAmongConfigurations DEF Outcomes, Applied
<1>7. store' \in [Feature -> Data \ {None}]
  BY <1>3, <1>6 DEF Serve, AgentsTypeOK
<1>8. saved \in Data /\ kind \in AnswerKind
  BY <1>5, NoNoneAmongConfigurations, AgentsAssumption DEF AnswerKind
<1>9. answer' = answer \/ answer' = [answer EXCEPT ![m.from].kind = kind, ![m.from].data = saved]
  BY DEF Serve, Delivered
<1>10. answer' \in [Thread -> Answer]
  <2> DEFINE ans == [answer[m.from] EXCEPT !.kind = kind, !.data = saved]
  <2>1. answer \in [Thread -> Answer]
    BY DEF AgentsTypeOK
  <2>2. ans \in Answer
    BY <1>3, <1>8, <2>1 DEF Answer
  <2>3. answer' = answer \/ answer' = [answer EXCEPT ![m.from] = ans]
    BY <1>3, <1>9, <2>1
  <2>. QED BY ONLY <2>1, <2>2, <2>3, ExceptKeepsType
<1>. QED BY <1>4, <1>7, <1>10 DEF AgentsTypeOK

LEMMA TimeOutKeepsTypes ==
  ASSUME AgentsTypeOK, NEW t \in Thread, TimeOut(t)
  PROVE  AgentsTypeOK'
<1> DEFINE b == m_agent[answer[t].feature]
           forget(q) == [i \in DOMAIN q |-> IF q[i].from = t THEN [q[i] EXCEPT !.awaited = FALSE] ELSE q[i]]
<1>1. answer' \in [Thread -> Answer]
  BY DEF TimeOut, AgentsTypeOK, Answer, AnswerKind
<1>2. ASSUME NEW q \in Seq(Message) PROVE forget(q) \in Seq(Message)
  <2>1. \A i \in DOMAIN q : q[i] \in Message
    BY <1>2
  <2>2. \A i \in DOMAIN q : forget(q)[i] \in Message
    BY <2>1 DEF Message
  <2>3. DOMAIN q = 1..Len(q) /\ Len(q) \in Nat
    BY <1>2
  <2> HIDE DEF forget
  <2>4. forget(q) = [i \in 1..Len(q) |-> forget(q)[i]]
    BY <2>3 DEF forget
  <2>. QED BY <2>2, <2>3, <2>4, IsASeq
<1>3. queue' = [queue EXCEPT ![b] = forget(queue[b])]
  BY DEF TimeOut
<1>4. queue' \in [Agent -> Seq(Message)]
  <2>1. CASE b \in Agent
    <3>1. forget(queue[b]) \in Seq(Message)
      BY <1>2, <2>1 DEF AgentsTypeOK
    <3>. QED BY <1>3, <3>1 DEF AgentsTypeOK
  <2>2. CASE b \notin Agent
    BY <1>3, <2>2 DEF AgentsTypeOK
  <2>. QED BY <2>1, <2>2
<1>. QED BY <1>1, <1>4 DEF AgentsTypeOK, TimeOut

-----------------------------------------------------------------------------
(* What each of them does, message by message.                                *)

Sent(t, op, f, d) == [from |-> t, op |-> op, feature |-> f, data |-> d, awaited |-> TRUE]

(* A call puts one message at the end of the mailbox of the feature's agent.   *)
CallDoes(t, op, f, d) ==
  /\ store' = store
  /\ \A u \in Thread \ {t} : answer'[u] = answer[u]
  /\ answer'[t] = [kind |-> "pending", feature |-> f, data |-> None]
  /\ \A a \in Agent : \A i \in DOMAIN queue[a] :
       i \in DOMAIN queue'[a] /\ queue'[a][i] = queue[a][i]
  /\ \A a \in Agent : \A i \in DOMAIN queue'[a] :
       \/ i \in DOMAIN queue[a] /\ queue'[a][i] = queue[a][i]
       \/ /\ a = m_agent[f] /\ queue'[a][i] = Sent(t, op, f, d)
          /\ \A j \in DOMAIN queue'[a] : ~(j > i)
  /\ \E i \in DOMAIN queue'[m_agent[f]] : queue'[m_agent[f]][i] = Sent(t, op, f, d)

(* Serving takes the first message; only its feature and its thread change.    *)
ServeDoes(a, kind) ==
  LET m == queue[a][1] IN
  /\ 1 \in DOMAIN queue[a] /\ m \in Message
  /\ \A b \in Agent \ {a} : queue'[b] = queue[b]
  /\ \A i \in DOMAIN queue'[a] :
       i \in Nat /\ i + 1 \in DOMAIN queue[a] /\ i + 1 > 1 /\ queue'[a][i] = queue[a][i + 1]
  /\ \A i \in DOMAIN queue[a] \ {1} :
       i - 1 \in DOMAIN queue'[a] /\ queue'[a][i - 1] = queue[a][i]
  /\ \A g \in Feature \ {m.feature} : store'[g] = store[g]
  /\ store'[m.feature] \in Outcomes(m, kind)
  /\ \A u \in Thread : u # m.from \/ ~m.awaited => answer'[u] = answer[u]
  /\ m.awaited =>
       /\ answer'[m.from].kind = kind /\ answer'[m.from].feature = answer[m.from].feature
       /\ answer'[m.from].data = IF kind = "ok" /\ m.op = "save" THEN store[m.feature] ELSE None

(* A time-out marks the message of the thread as awaited by nobody.            *)
TimeOutDoes(t) ==
  /\ store' = store
  /\ \A u \in Thread \ {t} : answer'[u] = answer[u]
  /\ answer[t].kind = "pending" /\ answer'[t].kind = "timeout"
  /\ answer'[t].feature = answer[t].feature
  /\ \A a \in Agent : DOMAIN queue'[a] = DOMAIN queue[a]
  /\ \A a \in Agent : \A i \in DOMAIN queue[a] :
       /\ queue'[a][i].from = queue[a][i].from /\ queue'[a][i].op = queue[a][i].op
       /\ queue'[a][i].feature = queue[a][i].feature /\ queue'[a][i].data = queue[a][i].data
       /\ queue'[a][i].awaited <=>
            queue[a][i].awaited /\ ~(queue[a][i].from = t /\ a = m_agent[answer[t].feature])

LEMMA MessageTypes ==
  ASSUME AgentsTypeOK, NEW a \in Agent, NEW i \in DOMAIN queue[a]
  PROVE  /\ queue[a][i] \in Message /\ i \in Nat /\ i >= 1
         /\ queue[a][i].from \in Thread /\ queue[a][i].feature \in Feature
<1>1. queue[a] \in Seq(Message)
  BY DEF AgentsTypeOK
<1>2. DOMAIN queue[a] = 1..Len(queue[a]) /\ Len(queue[a]) \in Nat
  BY <1>1
<1>3. queue[a][i] \in Message
  BY <1>1, <1>2, ElementOfSeq
<1>. QED BY <1>2, <1>3 DEF Message

LEMMA CallEffect ==
  ASSUME AgentsTypeOK, NEW t \in Thread, NEW op \in Op, NEW f \in Feature, NEW d \in Data,
         Call(t, op, f, d)
  PROVE  CallDoes(t, op, f, d)
<1> DEFINE b == m_agent[f]
           msg == Sent(t, op, f, d)
           q == queue[b]
<1>1. b \in Agent /\ msg \in Message
  BY TablesAssumption DEF Message, Sent
<1>2. /\ answer' = [answer EXCEPT ![t] = [kind |-> "pending", feature |-> f, data |-> None]]
      /\ queue' = [queue EXCEPT ![b] = Append(q, msg)]
      /\ store' = store
  BY DEF Call, Sent
<1>3. queue \in [Agent -> Seq(Message)] /\ answer \in [Thread -> Answer]
  BY DEF AgentsTypeOK
<1>4. /\ \A u \in Thread \ {t} : answer'[u] = answer[u]
      /\ answer'[t] = [kind |-> "pending", feature |-> f, data |-> None]
  BY <1>2, <1>3
<1> HIDE DEF msg
<1>5. q \in Seq(Message)
  BY <1>1, <1>3
<1>6. /\ Append(q, msg) \in Seq(Message) /\ Len(q) \in Nat
      /\ DOMAIN q = 1..Len(q) /\ DOMAIN Append(q, msg) = 1..(Len(q) + 1)
      /\ \A i \in 1..Len(q) : Append(q, msg)[i] = q[i]
      /\ Append(q, msg)[Len(q) + 1] = msg
  BY <1>1, <1>5, AppendProperties, LenProperties
<1>7. queue'[b] = Append(q, msg) /\ \A a \in Agent \ {b} : queue'[a] = queue[a]
  BY <1>1, <1>2, <1>3
<1>8. \A i \in DOMAIN q : i \in DOMAIN queue'[b] /\ queue'[b][i] = q[i]
  BY <1>6, <1>7
<1>9. \A i \in DOMAIN queue'[b] :
        \/ i \in DOMAIN q /\ queue'[b][i] = q[i]
        \/ queue'[b][i] = msg /\ \A j \in DOMAIN queue'[b] : ~(j > i)
  BY <1>6, <1>7
<1>10. Len(q) + 1 \in DOMAIN queue'[b] /\ queue'[b][Len(q) + 1] = msg
  BY <1>6, <1>7
<1>. QED BY <1>1, <1>2, <1>4, <1>7, <1>8, <1>9, <1>10 DEF msg, CallDoes

LEMMA ServeEffect ==
  ASSUME AgentsTypeOK, NEW a \in Agent, NEW kind, Serve(a, kind)
  PROVE  ServeDoes(a, kind)
<1> DEFINE q == queue[a]
           m == q[1]
           saved == IF kind = "ok" /\ m.op = "save" THEN store[m.feature] ELSE None
<1>1. /\ queue \in [Agent -> Seq(Message)] /\ answer \in [Thread -> Answer]
      /\ store \in [Feature -> Data \ {None}]
  BY DEF AgentsTypeOK
<1>2. q \in Seq(Message) /\ q # <<>>
  BY <1>1 DEF Serve
<1>3. /\ Head(q) = m /\ 1 \in DOMAIN q /\ m \in Message
      /\ Len(q) \in Nat /\ DOMAIN q = 1..Len(q) /\ DOMAIN Tail(q) = 1..(Len(q) - 1)
      /\ \A i \in 1..(Len(q) - 1) : Tail(q)[i] = q[i + 1]
  BY <1>2
<1>4. m.from \in Thread /\ m.feature \in Feature
  BY <1>3 DEF Message
<1>5. queue'[a] = Tail(q) /\ \A b \in Agent \ {a} : queue'[b] = queue[b]
  BY <1>1 DEF Serve
<1>6. \A i \in DOMAIN queue'[a] :
        i \in Nat /\ i + 1 \in DOMAIN q /\ i + 1 > 1 /\ queue'[a][i] = q[i + 1]
  BY <1>3, <1>5
<1>7. \A i \in DOMAIN q \ {1} : i - 1 \in DOMAIN queue'[a] /\ queue'[a][i - 1] = q[i]
  BY <1>3, <1>5
<1>8. PICK d \in Outcomes(m, kind) : store' = [store EXCEPT ![m.feature] = d]
  BY <1>3 DEF Serve
<1>9. /\ \A g \in Feature \ {m.feature} : store'[g] = store[g]
      /\ store'[m.feature] \in Outcomes(m, kind)
  BY <1>1, <1>4, <1>8
<1>10. answer' = Delivered(m, kind, saved)
  BY <1>3 DEF Serve
<1>11. \A u \in Thread : u # m.from \/ ~m.awaited => answer'[u] = answer[u]
  BY <1>1, <1>10 DEF Delivered
<1>12. ASSUME m.awaited
       PROVE  /\ answer'[m.from].kind = kind /\ answer'[m.from].data = saved
              /\ answer'[m.from].feature = answer[m.from].feature
  <2>1. answer' = [answer EXCEPT ![m.from].kind = kind, ![m.from].data = saved]
    BY <1>10, <1>12 DEF Delivered
  <2>2. answer[m.from] \in Answer
    BY <1>1, <1>4
  <2>. QED BY <1>1, <1>4, <2>1, <2>2 DEF Answer
<1>. QED BY <1>3, <1>5, <1>6, <1>7, <1>9, <1>11, <1>12 DEF ServeDoes

LEMMA TimeOutEffect ==
  ASSUME AgentsTypeOK, NEW t \in Thread, TimeOut(t)
  PROVE  TimeOutDoes(t)
<1> DEFINE b == m_agent[answer[t].feature]
           forget(q) == [i \in DOMAIN q |-> IF q[i].from = t THEN [q[i] EXCEPT !.awaited = FALSE] ELSE q[i]]
<1>1. queue \in [Agent -> Seq(Message)] /\ answer \in [Thread -> Answer]
  BY DEF AgentsTypeOK
<1>2. queue' = [queue EXCEPT ![b] = forget(queue[b])]
  BY DEF TimeOut
<1>3. answer' = [answer EXCEPT ![t].kind = "timeout"] /\ answer[t] \in Answer
  BY <1>1 DEF TimeOut
<1>4. \A a \in Agent : queue'[a] = IF a = b THEN forget(queue[a]) ELSE queue[a]
  BY <1>1, <1>2
<1>5. \A a \in Agent : \A i \in DOMAIN queue[a] : queue[a][i] \in Message
  BY <1>1, ElementOfSeq, LenProperties
<1>6. \A a \in Agent : DOMAIN queue'[a] = DOMAIN queue[a]
  BY <1>4
<1>7. ASSUME NEW a \in Agent, NEW i \in DOMAIN queue[a]
      PROVE  /\ queue'[a][i].from = queue[a][i].from /\ queue'[a][i].op = queue[a][i].op
             /\ queue'[a][i].feature = queue[a][i].feature /\ queue'[a][i].data = queue[a][i].data
             /\ queue'[a][i].awaited <=> queue[a][i].awaited /\ ~(queue[a][i].from = t /\ a = b)
  <2> DEFINE m == queue[a][i]
  <2>1. m \in Message
    BY <1>5
  <2>2. queue'[a][i] = IF a = b /\ m.from = t THEN [m EXCEPT !.awaited = FALSE] ELSE m
    BY <1>4
  <2> HIDE DEF m
  <2>3. m.awaited \in BOOLEAN
    BY <2>1 DEF Message
  <2>4. CASE a = b /\ m.from = t
    BY <2>1, <2>2, <2>4 DEF Message, m
  <2>5. CASE ~(a = b /\ m.from = t)
    BY <2>2, <2>3, <2>5 DEF m
  <2>. QED BY <2>4, <2>5
<1>8. /\ \A u \in Thread \ {t} : answer'[u] = answer[u]
      /\ answer'[t].kind = "timeout" /\ answer'[t].feature = answer[t].feature
  BY <1>1, <1>3 DEF Answer
<1>. QED BY <1>6, <1>7, <1>8 DEF TimeOut, TimeOutDoes

-----------------------------------------------------------------------------
(* Replies are matched with the calls they answer.                            *)

InOrder == MailboxesInOrder /\ CallsPosted

LEMMA OnlyOneAwaited ==
  ASSUME InOrder, NEW a \in Agent, NEW i \in DOMAIN queue[a], NEW b \in Agent,
         NEW j \in DOMAIN queue[b], AgentsTypeOK, queue[a][i].awaited, queue[b][j].awaited,
         queue[a][i].from = queue[b][j].from
  PROVE  a = b /\ i = j
<1>1. a = b
  BY DEF InOrder, MailboxesInOrder
<1>2. i \in Nat /\ j \in Nat
  BY <1>1, MessageTypes
<1>3. ~(i > j) /\ ~(j > i)
  BY <1>1 DEF InOrder, MailboxesInOrder
<1>. QED BY <1>1, <1>2, <1>3

LEMMA CallKeepsOrder ==
  ASSUME AgentsTypeOK, InOrder, NEW t \in Thread, NEW op \in Op, NEW f \in Name, NEW d,
         f \in Feature => d \in Data, Idle(t), Call(t, op, f, d)
  PROVE  InOrder'
<1>1. CASE f \in Feature
  <2>0. CallDoes(t, op, f, d)
    BY <1>1, CallEffect
  <2>1. m_agent[f] \in Agent
    BY <1>1, TablesAssumption
  <2>2. ASSUME NEW a \in Agent, NEW i \in DOMAIN queue'[a]
        PROVE  /\ m_agent[queue'[a][i].feature] = a
               /\ queue'[a][i].awaited =>
                    /\ answer'[queue'[a][i].from].kind = "pending"
                    /\ answer'[queue'[a][i].from].feature = queue'[a][i].feature
                    /\ \A j \in DOMAIN queue'[a] : j > i => queue'[a][j].from # queue'[a][i].from
    <3>1. CASE i \in DOMAIN queue[a] /\ queue'[a][i] = queue[a][i]
      <4>1. queue[a][i] \in Message /\ queue[a][i].from \in Thread
        BY <3>1, MessageTypes
      <4>2. queue[a][i].awaited => queue[a][i].from # t
        BY <3>1 DEF InOrder, MailboxesInOrder, Idle
      <4>3. \A j \in DOMAIN queue'[a] :
              queue'[a][j].from = t \/ (j \in DOMAIN queue[a] /\ queue'[a][j] = queue[a][j])
        BY <1>1, <2>0 DEF CallDoes, Sent
      <4>4. answer'[queue[a][i].from] = answer[queue[a][i].from] \/ queue[a][i].from = t
        BY <1>1, <4>1, <2>0 DEF CallDoes
      <4>. QED BY <3>1, <4>2, <4>3, <4>4 DEF InOrder, MailboxesInOrder
    <3>2. CASE /\ a = m_agent[f] /\ queue'[a][i] = Sent(t, op, f, d)
               /\ \A j \in DOMAIN queue'[a] : ~(j > i)
      BY <1>1, <3>2, <2>0 DEF CallDoes, Sent
    <3>. QED BY <1>1, <3>1, <3>2, <2>0 DEF CallDoes
  <2>3. ASSUME NEW u \in Thread, answer'[u].kind = "pending"
        PROVE  /\ answer'[u].feature \in Feature
               /\ \E i \in DOMAIN queue'[m_agent[answer'[u].feature]] :
                    /\ queue'[m_agent[answer'[u].feature]][i].from = u
                    /\ queue'[m_agent[answer'[u].feature]][i].awaited
    <3>1. CASE u = t
      BY <1>1, <2>1, <3>1, <2>0 DEF CallDoes, Sent
    <3>2. CASE u # t
      <4>1. answer'[u] = answer[u]
        BY <1>1, <3>2, <2>0 DEF CallDoes
      <4>2. answer[u].feature \in Feature /\ m_agent[answer[u].feature] \in Agent
        BY <2>3, <4>1, TablesAssumption DEF InOrder, CallsPosted
      <4>. QED BY <1>1, <2>3, <4>1, <4>2, <2>0 DEF CallDoes, InOrder, CallsPosted
    <3>. QED BY <3>1, <3>2
  <2>. QED BY <2>2, <2>3 DEF InOrder, MailboxesInOrder, CallsPosted
<1>2. CASE f \notin Feature
  <2>1. queue' = queue /\ answer'[t].kind = "unreachable" /\ \A u \in Thread \ {t} : answer'[u] = answer[u]
    BY <1>2 DEF Call, AgentsTypeOK
  <2>2. \A a \in Agent : \A i \in DOMAIN queue[a] :
          queue[a][i].awaited => queue[a][i].from \in Thread \ {t}
    BY MessageTypes DEF InOrder, MailboxesInOrder, Idle
  <2>. QED BY <2>1, <2>2 DEF InOrder, MailboxesInOrder, CallsPosted
<1>. QED BY <1>1, <1>2

LEMMA ConsumeKeepsOrder ==
  ASSUME AgentsTypeOK, InOrder, NEW t \in Thread, Answered(t), Consume(t)
  PROVE  InOrder'
<1>1. queue' = queue /\ answer'[t].kind = "none" /\ \A u \in Thread \ {t} : answer'[u] = answer[u]
  BY DEF Consume, AgentsTypeOK, NoAnswer
<1>2. \A a \in Agent : \A i \in DOMAIN queue[a] :
        queue[a][i].awaited => queue[a][i].from \in Thread \ {t}
  BY MessageTypes DEF InOrder, MailboxesInOrder, Answered
<1>. QED BY <1>1, <1>2 DEF InOrder, MailboxesInOrder, CallsPosted

LEMMA TimeOutKeepsOrder ==
  ASSUME AgentsTypeOK, InOrder, NEW t \in Thread, TimeOut(t)
  PROVE  InOrder'
<1>0. TimeOutDoes(t)
  BY TimeOutEffect
<1>1. ASSUME NEW a \in Agent, NEW i \in DOMAIN queue'[a]
      PROVE  /\ m_agent[queue'[a][i].feature] = a
             /\ queue'[a][i].awaited =>
                  /\ answer'[queue'[a][i].from].kind = "pending"
                  /\ answer'[queue'[a][i].from].feature = queue'[a][i].feature
                  /\ \A j \in DOMAIN queue'[a] : j > i => queue'[a][j].from # queue'[a][i].from
  <2>1. i \in DOMAIN queue[a]
    BY <1>0 DEF TimeOutDoes
  <2>2. queue'[a][i].from = queue[a][i].from /\ queue'[a][i].feature = queue[a][i].feature
    BY <2>1, <1>0 DEF TimeOutDoes
  <2>3. queue[a][i].from \in Thread
    BY <2>1, MessageTypes
  <2>4. ASSUME queue'[a][i].awaited
        PROVE  /\ answer'[queue[a][i].from].kind = "pending"
               /\ answer'[queue[a][i].from].feature = queue[a][i].feature
               /\ \A j \in DOMAIN queue[a] : j > i => queue'[a][j].from # queue[a][i].from
    <3>1. queue[a][i].awaited /\ ~(queue[a][i].from = t /\ a = m_agent[answer[t].feature])
      BY <2>1, <2>4, <1>0 DEF TimeOutDoes
    <3>2. queue[a][i].from # t
      BY <2>1, <3>1 DEF InOrder, MailboxesInOrder
    <3>3. answer'[queue[a][i].from] = answer[queue[a][i].from]
      BY <2>3, <3>2, <1>0 DEF TimeOutDoes
    <3>4. \A j \in DOMAIN queue[a] : queue'[a][j].from = queue[a][j].from
      BY <1>0 DEF TimeOutDoes
    <3>. QED BY <2>1, <3>1, <3>3, <3>4 DEF InOrder, MailboxesInOrder
  <2>5. DOMAIN queue'[a] = DOMAIN queue[a] /\ m_agent[queue[a][i].feature] = a
    BY <2>1, <1>0 DEF TimeOutDoes, InOrder, MailboxesInOrder
  <2>. QED BY <2>2, <2>4, <2>5
<1>2. ASSUME NEW u \in Thread, answer'[u].kind = "pending"
      PROVE  /\ answer'[u].feature \in Feature
             /\ \E i \in DOMAIN queue'[m_agent[answer'[u].feature]] :
                  /\ queue'[m_agent[answer'[u].feature]][i].from = u
                  /\ queue'[m_agent[answer'[u].feature]][i].awaited
  <2>1. u # t
    BY <1>2, <1>0 DEF TimeOutDoes
  <2>2. answer'[u] = answer[u]
    BY <2>1, <1>0 DEF TimeOutDoes
  <2>3. answer[u].feature \in Feature /\ m_agent[answer[u].feature] \in Agent
    BY <1>2, <2>2, TablesAssumption DEF InOrder, CallsPosted
  <2>4. PICK i \in DOMAIN queue[m_agent[answer[u].feature]] :
          /\ queue[m_agent[answer[u].feature]][i].from = u
          /\ queue[m_agent[answer[u].feature]][i].awaited
    BY <1>2, <2>2 DEF InOrder, CallsPosted
  <2>5. /\ i \in DOMAIN queue'[m_agent[answer[u].feature]]
        /\ queue'[m_agent[answer[u].feature]][i].from = u
        /\ queue'[m_agent[answer[u].feature]][i].awaited
    BY <2>1, <2>3, <2>4, <1>0 DEF TimeOutDoes
  <2>. QED BY <2>2, <2>3, <2>5
<1>. QED BY <1>1, <1>2 DEF InOrder, MailboxesInOrder, CallsPosted

LEMMA ServeKeepsOrder ==
  ASSUME AgentsTypeOK, InOrder, NEW a \in Agent, NEW kind \in ReplyKind, Serve(a, kind)
  PROVE  InOrder'
<1> DEFINE m == queue[a][1]
<1>a. ServeDoes(a, kind)
  BY ServeEffect
<1>0. kind # "pending"
  BY AgentsAssumption DEF AnyReply
<1>1. 1 \in DOMAIN queue[a] /\ m \in Message /\ m_agent[m.feature] = a
  BY <1>a DEF ServeDoes, InOrder, MailboxesInOrder
<1>2. ASSUME NEW u \in Thread, answer'[u] # answer[u]
      PROVE  m.awaited /\ u = m.from /\ answer'[u].kind # "pending"
  BY <1>0, <1>2, <1>a DEF ServeDoes
(* What a message of the new mailboxes was in the old ones.                   *)
<1>3. ASSUME NEW b \in Agent, NEW i \in DOMAIN queue'[b]
      PROVE  \E k \in DOMAIN queue[b] :
               /\ queue'[b][i] = queue[b][k] /\ (b = a => k > 1)
               /\ \A j \in DOMAIN queue'[b] : j > i =>
                    \E l \in DOMAIN queue[b] : l > k /\ queue'[b][j] = queue[b][l]
  <2>1. CASE b = a
    <3>1. i \in Nat /\ i + 1 \in DOMAIN queue[a] /\ i + 1 > 1 /\ queue'[a][i] = queue[a][i + 1]
      BY <1>3, <2>1, <1>a DEF ServeDoes
    <3>2. \A j \in DOMAIN queue'[a] :
            j \in Nat /\ j + 1 \in DOMAIN queue[a] /\ queue'[a][j] = queue[a][j + 1]
      BY <1>a DEF ServeDoes
    <3>3. \A j \in DOMAIN queue'[a] : j > i => j + 1 > i + 1
      BY <3>1, <3>2
    <3>. QED BY <2>1, <3>1, <3>2, <3>3
  <2>2. CASE b # a
    BY <1>3, <2>2, <1>a DEF ServeDoes
  <2>. QED BY <2>1, <2>2
<1>4. ASSUME NEW b \in Agent, NEW i \in DOMAIN queue'[b]
      PROVE  /\ m_agent[queue'[b][i].feature] = b
             /\ queue'[b][i].awaited =>
                  /\ answer'[queue'[b][i].from].kind = "pending"
                  /\ answer'[queue'[b][i].from].feature = queue'[b][i].feature
                  /\ \A j \in DOMAIN queue'[b] : j > i => queue'[b][j].from # queue'[b][i].from
  <2>1. PICK k \in DOMAIN queue[b] :
          /\ queue'[b][i] = queue[b][k] /\ (b = a => k > 1)
          /\ \A j \in DOMAIN queue'[b] : j > i =>
               \E l \in DOMAIN queue[b] : l > k /\ queue'[b][j] = queue[b][l]
    BY <1>3, <1>4
  <2>2. queue[b][k].from \in Thread
    BY MessageTypes
  <2>3. ASSUME queue[b][k].awaited PROVE answer'[queue[b][k].from] = answer[queue[b][k].from]
    <3>1. SUFFICES ASSUME m.awaited, m.from = queue[b][k].from PROVE FALSE
      BY <1>2, <2>2
    <3>2. b = a /\ k = 1
      BY <1>1, <2>3, <3>1, OnlyOneAwaited
    <3>. QED BY <2>1, <3>2
  <2>. QED BY <2>1, <2>3 DEF InOrder, MailboxesInOrder
<1>5. ASSUME NEW u \in Thread, answer'[u].kind = "pending"
      PROVE  /\ answer'[u].feature \in Feature
             /\ \E i \in DOMAIN queue'[m_agent[answer'[u].feature]] :
                  /\ queue'[m_agent[answer'[u].feature]][i].from = u
                  /\ queue'[m_agent[answer'[u].feature]][i].awaited
  <2>1. answer'[u] = answer[u]
    BY <1>2, <1>5
  <2> DEFINE b == m_agent[answer[u].feature]
  <2>2. answer[u].feature \in Feature /\ b \in Agent
    BY <1>5, <2>1, TablesAssumption DEF InOrder, CallsPosted
  <2>3. PICK i \in DOMAIN queue[b] : queue[b][i].from = u /\ queue[b][i].awaited
    BY <1>5, <2>1 DEF InOrder, CallsPosted
  <2>4. \E k \in DOMAIN queue'[b] : queue'[b][k].from = u /\ queue'[b][k].awaited
    <3>1. CASE b = a
      <4>1. i # 1
        <5>1. SUFFICES ASSUME i = 1 PROVE FALSE
          OBVIOUS
        <5>2. m.awaited /\ m.from = u
          BY <2>3, <3>1, <5>1
        <5>3. answer'[u].kind = kind
          BY <5>2, <1>a DEF ServeDoes
        <5>. QED BY <1>0, <1>5, <5>3
      <4>. QED BY <2>3, <3>1, <4>1, <1>a DEF ServeDoes
    <3>2. CASE b # a
      BY <2>2, <2>3, <3>2, <1>a DEF ServeDoes
    <3>. QED BY <3>1, <3>2
  <2>. QED BY <2>1, <2>2, <2>4
<1>. QED BY <1>4, <1>5 DEF InOrder, MailboxesInOrder, CallsPosted
-----------------------------------------------------------------------------
(* Only a call puts mail of its thread anywhere.                              *)

SameLetter(m, n) ==
  /\ n.from = m.from /\ n.op = m.op /\ n.feature = m.feature /\ n.data = m.data
  /\ n.awaited => m.awaited

NoNewMail(t) ==
  \A a \in Agent : \A i \in DOMAIN queue'[a] : queue'[a][i].from = t =>
    \E j \in DOMAIN queue[a] : SameLetter(queue[a][j], queue'[a][i])

LEMMA CallSendsForItself ==
  ASSUME AgentsTypeOK, NEW t \in Thread, NEW op \in Op, NEW f \in Name, NEW d,
         f \in Feature => d \in Data, Call(t, op, f, d), NEW u \in Thread \ {t}
  PROVE  NoNewMail(u) /\ answer'[u] = answer[u]
<1>1. CASE f \in Feature
  <2>1. CallDoes(t, op, f, d)
    BY <1>1, CallEffect
  <2>. QED BY <2>1 DEF CallDoes, Sent, NoNewMail, SameLetter
<1>2. CASE f \notin Feature
  <2>1. queue' = queue /\ answer'[u] = answer[u]
    BY <1>2 DEF Call, AgentsTypeOK
  <2>. QED BY <2>1 DEF NoNewMail, SameLetter
<1>. QED BY <1>1, <1>2

LEMMA ConsumeSendsNothing ==
  ASSUME AgentsTypeOK, NEW t \in Thread, Consume(t), NEW u \in Thread
  PROVE  NoNewMail(u) /\ answer'[t].kind = "none" /\ (u # t => answer'[u] = answer[u])
<1>1. queue' = queue /\ answer'[t].kind = "none" /\ (u # t => answer'[u] = answer[u])
  BY DEF Consume, AgentsTypeOK, NoAnswer
<1>. QED BY <1>1 DEF NoNewMail, SameLetter

LEMMA TimeOutSendsNothing ==
  ASSUME AgentsTypeOK, NEW t \in Thread, TimeOut(t), NEW u \in Thread
  PROVE  NoNewMail(u) /\ (u # t => answer'[u] = answer[u])
<1>1. TimeOutDoes(t)
  BY TimeOutEffect
<1>. QED BY <1>1 DEF TimeOutDoes, NoNewMail, SameLetter

LEMMA ServeSendsNothing ==
  ASSUME AgentsTypeOK, NEW a \in Agent, NEW kind, Serve(a, kind), NEW u \in Thread
  PROVE  NoNewMail(u)
<1>1. ServeDoes(a, kind)
  BY ServeEffect
<1>. QED BY <1>1 DEF ServeDoes, NoNewMail, SameLetter
=============================================================================
