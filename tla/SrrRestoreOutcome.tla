-------------------------- MODULE SrrRestoreOutcome --------------------------
(***************************************************************************)
(* SrrRestore implements SrrOutcome: the status list, the program counter    *)
(* and the configuration the agents hold, read as verdicts and promises.      *)
(***************************************************************************)
EXTENDS SrrRestoreInvariants

(* Features two requests write are outside of any promise.                    *)
Promised(r, S) == S \ Contended(r)

ItemOf(r, id) == CHOOSE it \in Requested(r) : it.id = id

Ids(r) == {it.id : it \in Requested(r)}
OwnOf(r, id) == Promised(r, Writable(r, ItemOf(r, id)))
CarriedOf(r, id) == OwnOf(r, id) \cap ItemOf(r, id).features

askedItems ==
  [r \in Restores |-> [id \in Ids(r) |->
    [own |-> OwnOf(r, id), carried |-> CarriedOf(r, id)]]]

VerdictOf(r, id) ==
  IF AtWork(r, id) THEN "working"
  ELSE CASE id \in Entries(r, "SUCCESS") -> "SUCCESS"
         [] id \in Entries(r, "FAILED") \ Entries(r, "SUCCESS") -> "FAILED"
         [] OTHER                        -> "pending"

itemVerdict == [r \in Restores |-> [id \in Ids(r) |-> VerdictOf(r, id)]]

(* What nothing is promised about: the item at work, what a restored item did *)
(* not carry, what of a failed one the log says could not be saved or rolled   *)
(* back.                                                                      *)
OpenOf(r, id) ==
  LET v == VerdictOf(r, id)
  IN  CASE v = "working" -> OwnOf(r, id)
        [] v = "SUCCESS" -> OwnOf(r, id) \ CarriedOf(r, id)
        [] v = "FAILED"  -> OwnOf(r, id) \cap (unbacked[r] \cup unrecoverable[r])
        [] OTHER         -> {}

configKept ==
  [r \in Restores |->
    LET open == UNION {OpenOf(r, id) : id \in Ids(r)}
        outside == Contended(r)
    IN  [f \in Feature |->
          IF f \in open THEN "open"
          ELSE IF f \in outside \/ store[f] = Initial THEN "kept"
          ELSE IF store[f] = r THEN "restored" ELSE "disturbed"]]

replied == [r \in Restores |-> IF pc[r] = "answered" THEN status[r] ELSE "none"]

Promise == INSTANCE SrrOutcome WITH
  asked <- askedItems, verdict <- itemVerdict, config <- configKept, reply <- replied

(* Every step of the threads and of the agents is a step of SrrOutcome or      *)
(* none at all: an item is restored or given up as a whole, decided once, and  *)
(* what was decided stays true of the agents whatever is carried out late.     *)
ImplementsOutcome == Promise!OutcomeSpec
=============================================================================
