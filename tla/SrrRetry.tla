------------------------------ MODULE SrrRetry ------------------------------
(***************************************************************************)
(* A request that is sent when all those before it have been answered or are  *)
(* known to be lost: while what they have sent may still be in the mailboxes,  *)
(* and while a reboot they asked for may still be due.                        *)
(***************************************************************************)
EXTENDS SrrCrash

CONSTANT
  Last             \* the request that is sent last

ASSUME RetryAssumption == Last \in Restores

Gone(q) == pc[q] = "answered" \/ q \in lost
AllGone == \A q \in Restores \ {Last} : Gone(q)

AskAgain == ~AllGone => UNCHANGED pc[Last]
AskAgainSpec == CrashInit /\ [][CrashNext /\ AskAgain]_crashVars

(* A request that comes after others that gave up on their calls, or ended half *)
(* way, repairs what they left: an item it reports SUCCESS has the             *)
(* configuration of its own payload in every feature, whatever was reset before *)
(* or is still in a mailbox, and keeps it when the reboot of another ends it.   *)
RetryRepairs == HoldsRestored(Last, {})

(* ... and an item it reports FAILED is back to what the last request itself    *)
(* had found, be it half restored: not to what a process that is gone           *)
(* remembered.                                                                *)
RetryRollsBackToFound ==
  \A it \in Requested(Last) :
    it.id \in Entries(Last, "FAILED") /\ Finished(Last, it) =>
      \A f \in Writable(Last, it) \ (unbacked[Last] \cup unrecoverable[Last]) :
        f \in BackedUp(Last) => store[f] = backup[Last][f]

-----------------------------------------------------------------------------
(* The inductive invariant behind both. *)

(* The last request has done nothing yet. *)
NotYet ==
  /\ pc[Last] = "license" /\ statusList[Last] = <<>> /\ BackedUp(Last) = {}
  /\ \A a \in Agent : \A i \in DOMAIN queue[a] : queue[a][i].from # Last

(* What the others have sent is before all the last request sends.             *)
InLine ==
  \A a \in Agent : \A i, j \in DOMAIN queue[a] :
    i < j /\ queue[a][i].from = Last => queue[a][j].from = Last

(* No message that will change feature f is in a mailbox, whoever sent it.      *)
Settled(f) == \A r \in Restores : ~InTheMail(r, f)

(* What the last request takes for restored, for rolled back and for saved is   *)
(* so, although others have written the same features.                        *)
LastHolds ==
  /\ \A f \in Feature : Done(Last, f) => store[f] = Last /\ Settled(f)
  /\ \A f \in BackedUp(Last) : AsFound(Last, f) => store[f] = backup[Last][f] /\ Settled(f)
  /\ pc[Last] = "backup" /\ answer[Last].kind = "ok" =>
       /\ answer[Last].feature \in Feature
       /\ store[answer[Last].feature] = answer[Last].data /\ Settled(answer[Last].feature)

RetryInv == (NotYet \/ AllGone) /\ InLine /\ LastHolds
=============================================================================
