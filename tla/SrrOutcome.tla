----------------------------- MODULE SrrOutcome -----------------------------
(***************************************************************************)
(* What a restore promises, without the agents, the calls and the order of   *)
(* the features (abstract specification of SrrRestore).  A request asks for   *)
(* items; each is restored as a whole or given up as a whole.  While an item  *)
(* is worked on its features may hold anything, and whatever ends the         *)
(* request in the middle of one leaves only that one so.                      *)
(***************************************************************************)
CONSTANTS
  Restores,        \* the requests
  Feature

VARIABLES
  asked,           \* per request and item: the features it owns and those the payload carries
  verdict,         \* per request and item: what has become of it
  config,          \* per request and feature: "kept" as it was, "restored", or "open"
  reply            \* the overall status, "none" before the answer

outcomeVars == <<asked, verdict, config, reply>>

Own(r, i) == asked[r][i].own
Carried(r, i) == asked[r][i].carried

Is(r, i, v) == i \in DOMAIN asked[r] /\ verdict[r][i] = v
Decided(r, i) == Is(r, i, "SUCCESS") \/ Is(r, i, "FAILED")

OutcomeInit ==
  /\ verdict = [r \in Restores |-> [i \in DOMAIN asked[r] |-> "pending"]]
  /\ config = [r \in Restores |-> [f \in Feature |-> "kept"]]
  /\ reply = [r \in Restores |-> "none"]

Decide(r, i, v) == verdict' = [verdict EXCEPT ![r][i] = v]
Leave(r, S, c) ==
  config' = [config EXCEPT ![r] = [f \in Feature |-> IF f \in S THEN c ELSE config[r][f]]]

Begin(r, i) ==
  /\ reply[r] = "none" /\ Is(r, i, "pending")
  /\ \A j \in DOMAIN asked[r] : ~Is(r, j, "working")
  /\ Decide(r, i, "working")
  /\ Leave(r, Own(r, i), "open")
  /\ UNCHANGED <<asked, reply>>

(* Features the payload does not carry may have been reset and stay open.     *)
Succeed(r, i) ==
  /\ reply[r] = "none" /\ Is(r, i, "working")
  /\ Decide(r, i, "SUCCESS")
  /\ Leave(r, Carried(r, i), "restored")
  /\ UNCHANGED <<asked, reply>>

(* Rolled back, but for what the log calls lost.                              *)
GiveUpItem(r, i) ==
  /\ reply[r] = "none" /\ Is(r, i, "working")
  /\ Decide(r, i, "FAILED")
  /\ \E lost \in SUBSET Own(r, i) : Leave(r, Own(r, i) \ lost, "kept")
  /\ UNCHANGED <<asked, reply>>

SkipItem(r, i) ==
  /\ reply[r] = "none" /\ Is(r, i, "pending")
  /\ \A j \in DOMAIN asked[r] : ~Is(r, j, "working")
  /\ Decide(r, i, "FAILED")
  /\ UNCHANGED <<asked, config, reply>>

(* SUCCESS and PARTIAL_SUCCESS close the books; FAILED breaks off, before the *)
(* first item or in the middle; UNKNOWN is a refusal for its integrity.       *)
MayReply(r, st) ==
  LET undecided == {i \in DOMAIN asked[r] : ~Decided(r, i)}
      failed == {i \in DOMAIN asked[r] : Is(r, i, "FAILED")}
  IN  \/ st = "SUCCESS" /\ undecided = {} /\ failed = {}
      \/ st = "PARTIAL_SUCCESS" /\ undecided = {} /\ failed # {}
      \/ st = "FAILED" /\ (undecided # {} \/ DOMAIN asked[r] = {})
      \/ st = "UNKNOWN" /\ \A i \in DOMAIN asked[r] : Is(r, i, "pending")

Answer(r) ==
  /\ reply[r] = "none"
  /\ \E st \in {"SUCCESS", "PARTIAL_SUCCESS", "FAILED", "UNKNOWN"} :
       MayReply(r, st) /\ reply' = [reply EXCEPT ![r] = st]
  /\ UNCHANGED <<asked, verdict, config>>

OutcomeNext ==
  \E r \in Restores :
    \/ Answer(r)
    \/ \E i \in DOMAIN asked[r] : Begin(r, i) \/ Succeed(r, i) \/ GiveUpItem(r, i) \/ SkipItem(r, i)

OutcomeSpec == OutcomeInit /\ [][OutcomeNext]_outcomeVars
=============================================================================
