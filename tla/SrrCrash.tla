------------------------------ MODULE SrrCrash ------------------------------
(***************************************************************************)
(* Restores in a process that may end and on a machine that reboots.  No     *)
(* state of a request outlives its process: neither the roll-back data nor   *)
(* the status list is written anywhere.  systemd starts the daemon again      *)
(* (Restart=always, fty-srr.service.in), and it serves the requests that come *)
(* then.  The agents are other processes: they keep what they hold, and the   *)
(* mailboxes, unless the machine goes down too.                              *)
(***************************************************************************)
EXTENDS SrrRestoreOutcome

VARIABLE
  lost             \* the requests whose process, and with it their thread, is gone

crashVars == <<vars, lost>>

CrashInit == Init /\ lost = {}

(* A thread that has done nothing yet is as good as one to come.               *)
InProcess == {r \in Restores \ lost : pc[r] # "license"}

(* The threads end where they are.                                            *)
ThreadsEnd ==
  /\ lost' = lost \cup InProcess
  /\ answer' = [r \in Thread |-> IF r \in InProcess THEN NoAnswer ELSE answer[r]]
  /\ UNCHANGED workerVars

(* std::terminate in one of the threads (terminateHandler), a signal, systemd: *)
(* the messages sent stay in the mailboxes and are carried out, awaited by     *)
(* nobody.                                                                    *)
DaemonDies ==
  /\ InProcess # {}
  /\ ThreadsEnd
  /\ queue' = [a \in Agent |-> [i \in DOMAIN queue[a] |->
       [queue[a][i] EXCEPT !.awaited = @ /\ queue[a][i].from \notin InProcess]]]
  /\ UNCHANGED store

(* What an agent caught by the reboot may hold: the message it was working on  *)
(* was carried out, in part or not at all.                                    *)
CaughtBy(f) ==
  LET q == queue[m_agent[f]]
  IN  IF q # <<>> /\ Head(q).feature = f THEN Outcomes(Head(q), "failed") ELSE {store[f]}

(* restartBiosService of request r has slept and runs the reboot script, if    *)
(* its process has lived so long: mailboxes and all threads are gone.          *)
Reboot(r) ==
  /\ rebooting[r] /\ r \notin lost
  /\ ThreadsEnd
  /\ store' \in {c \in [Feature -> UNION {CaughtBy(f) : f \in Feature}] :
                 \A f \in Feature : c[f] \in CaughtBy(f)}
  /\ queue' = [a \in Agent |-> <<>>]

(* Nothing is left to do: every request was answered or lost.                  *)
AllOver ==
  /\ \A r \in Restores : pc[r] = "answered" \/ r \in lost
  /\ \A a \in Agent : queue[a] = <<>>
  /\ UNCHANGED crashVars

CrashNext ==
  \/ \E r \in Restores \ lost : WorkerStep(r) /\ UNCHANGED lost
  \/ \E a \in Agent : AgentStep(a) /\ UNCHANGED lost
  \/ DaemonDies
  \/ \E r \in Restores : Reboot(r)
  \/ AllOver

CrashSpec == CrashInit /\ [][CrashNext]_crashVars
=============================================================================
