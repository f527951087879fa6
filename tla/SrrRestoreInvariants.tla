------------------------ MODULE SrrRestoreInvariants ------------------------
(***************************************************************************)
(* The inductive invariant that ties what a thread believes of its items to  *)
(* what the agents hold and to what is still in their mailboxes.  It is why   *)
(* a request carried out after its thread gave up on it does no harm, and     *)
(* what the proofs of the properties of SrrRestoreProperties rest on.         *)
(***************************************************************************)
EXTENDS SrrRestoreProperties

(* A thread has begun the first of the items left if it is in one of its      *)
(* loops, or was when an exception or its end caught it.                      *)
Begun(r) ==
  /\ items[r] # <<>>
  /\ \/ pc[r] \in CallPhase
     \/ /\ pc[r] \in {"reply", "answered"} /\ Known(r, Current(r).id)
        /\ isV1(r) \/ MissingRequired(r) = {}

AtWork(r, id) == Begun(r) /\ Current(r).id = id

-----------------------------------------------------------------------------
(* The loops. *)

(* The operation each loop is about.                                          *)
OpOf(r) ==
  IF pc[r] = "backup" THEN "save"
  ELSE IF pc[r] \in {"reset", "undoReset"} THEN "reset" ELSE "restore"

(* A call is about a feature the loop has not done with, one of the lowest     *)
(* priority when it is a restore, and the message awaited is the query of     *)
(* this loop.                                                                 *)
CallOfLoop(r) ==
  /\ ~Idle(r) =>
       /\ pc[r] \in CallPhase /\ answer[r].feature \in todo[r]
       /\ pc[r] \in {"restore", "undoRestore"} => answer[r].feature \in Lowest(todo[r])
  /\ answer[r].kind # "empty"
  /\ \A a \in Agent : \A i \in DOMAIN queue[a] :
       queue[a][i].from = r /\ queue[a][i].awaited =>
         /\ queue[a][i].op = OpOf(r)
         /\ queue[a][i].data = QueryData(r, queue[a][i].feature)

(* Where each loop may be: what it walks, and that a feature of the item has   *)
(* been saved, is still to be saved, or is known not to have been.            *)
LoopBounds(r) ==
  /\ pc[r] \in CallPhase =>
       /\ isV1(r) \/ MissingRequired(r) = {}
       /\ BackedUp(r) \subseteq Owned(r)
       /\ Owned(r) \cap Feature \subseteq
            BackedUp(r) \cup (IF pc[r] = "backup" THEN todo[r] ELSE unbacked[r])
  /\ pc[r] = "backup" => todo[r] \subseteq Owned(r)
  /\ pc[r] = "reset" => todo[r] \subseteq Owned(r) \cap Feature
  /\ pc[r] = "restore" => todo[r] \subseteq Current(r).features
  /\ Undoing(r) => todo[r] \subseteq BackedUp(r)

(* The items left have distinct ids, and none of them has an entry but the one *)
(* version 1.0 reports as FAILED before it rolls it back.                     *)
ItemsOnce(r) ==
  /\ pc[r] \in {"license", "decode"} => items[r] = <<>>
  /\ \A i, j \in DOMAIN items[r] : items[r][i].id = items[r][j].id => i = j
  /\ \A i \in DOMAIN items[r] :
       /\ items[r][i].id \notin Entries(r, "SUCCESS")
       /\ items[r][i].id \in Entries(r, "FAILED") =>
            i = 1 /\ isV1(r) /\ pc[r] \in {"undoReset", "undoRestore", "reply", "answered"}

(* The restart flag of a request in version 2.0 or 2.1: it is set once a       *)
(* feature that asks for it is restored, and what Reply goes by.              *)
RestartKept(r) ==
  /\ ~isV1(r) =>
       \A it \in Requested(r) : \A f \in it.features \cap Feature :
         /\ m_restart[f]
         /\ \/ it.id \in Entries(r, "SUCCESS")
            \/ pc[r] = "restore" /\ it = Current(r) /\ f \notin todo[r]
         => restart[r]
  /\ pc[r] = "answered" => (rebooting[r] <=> restart[r] /\ EnableReboot)

(* The groups left are in restore order, and so are those reported before them. *)
OrderKept(r) ==
  ~isV1(r) /\ {it.id : it \in Requested(r)} \subseteq Group =>
    \A j \in DOMAIN items[r] :
      /\ \A i \in DOMAIN items[r] : i < j =>
           m_restoreOrder[items[r][i].id] <= m_restoreOrder[items[r][j].id]
      /\ \A i \in DOMAIN statusList[r] :
           m_restoreOrder[statusList[r][i].name] <= m_restoreOrder[items[r][j].id]

(* The status list names items of the request, and none of them with both      *)
(* outcomes.                                                                  *)
EntriesKept(r) ==
  /\ \A i \in DOMAIN statusList[r] : \E it \in Requested(r) : it.id = statusList[r][i].name
  /\ Entries(r, "SUCCESS") \cap Entries(r, "FAILED") = {}

(* Where a thread stood when it came to answer: through with the items, in the  *)
(* middle of them, or before the first.                                       *)
LeftOff(r) ==
  pc[r] \in {"reply", "answered"} =>
    /\ status[r] # "FAILED" => items[r] = <<>>
    /\ status[r] = "FAILED" => items[r] # <<>> \/ statusList[r] = <<>>
    /\ status[r] = "UNKNOWN" => statusList[r] = <<>>

LInv ==
  /\ MailboxesInOrder /\ CallsPosted
  /\ \A r \in Restores : CallOfLoop(r) /\ LoopBounds(r) /\ ItemsOnce(r)

-----------------------------------------------------------------------------
(* What the thread has achieved of a feature, by its own books. *)

(* It has the reply that the feature was carried out in this loop.            *)
Through(r, f) == f \notin todo[r] \/ (answer[r].kind = "ok" /\ answer[r].feature = f)

(* Feature f is restored: its item is reported, or is being restored and f is  *)
(* behind.                                                                    *)
Done(r, f) ==
  \E it \in Requested(r) :
    /\ f \in it.features \cap Writable(r, it)
    /\ \/ it.id \in Entries(r, "SUCCESS")
       \/ AtWork(r, it.id) /\ pc[r] = "restore" /\ Through(r, f)

(* Feature f is as it was before the request: its item is not begun or not yet *)
(* beyond the backup, or it is rolled back and the log does not say that f     *)
(* was lost.                                                                  *)
AsFound(r, f) ==
  \E it \in Requested(r) :
    /\ f \in Writable(r, it)
    /\ \/ ~Reported(r, it) /\ ~AtWork(r, it.id)
       \/ AtWork(r, it.id) /\ pc[r] = "backup"
       \/ /\ it.id \in Entries(r, "FAILED") /\ ~AtWork(r, it.id)
          /\ f \notin unbacked[r] \cup unrecoverable[r]
       \/ /\ AtWork(r, it.id) /\ pc[r] = "undoRestore"
          /\ f \in BackedUp(r) \ unrecoverable[r] /\ Through(r, f)

(* A message of thread r that will change feature f is in a mailbox.          *)
InTheMail(r, f) ==
  \E a \in Agent : \E i \in DOMAIN queue[a] :
    queue[a][i].from = r /\ queue[a][i].feature = f /\ Changes(queue[a][i])

Writers(f) == {r \in Restores : f \in Scope(r)}

(* Only a request that asks for a feature ever writes it; what a thread takes  *)
(* for restored or rolled back is in nobody's mailbox on its behalf.           *)
NothingLate ==
  /\ \A a \in Agent : \A i \in DOMAIN queue[a] :
       Changes(queue[a][i]) =>
         queue[a][i].from \in Restores /\ queue[a][i].feature \in Scope(queue[a][i].from)
  /\ \A r \in Restores : \A f \in Feature : Done(r, f) \/ AsFound(r, f) => ~InTheMail(r, f)

(* When every request that writes a feature has restored it, it holds the      *)
(* configuration of one of them.                                              *)
Composed ==
  \A f \in Feature :
    Writers(f) # {} /\ (\A r \in Writers(f) : Done(r, f)) => store[f] \in Writers(f)

(* A feature only one request writes holds what it held at first, as long as   *)
(* the request takes it to be so; that is also what was saved of it.          *)
KeptAsFound(r) ==
  /\ \A f \in Scope(r) \ Contended(r) : AsFound(r, f) => store[f] = Initial
  /\ pc[r] \in CallPhase =>
       \A f \in BackedUp(r) \ Contended(r) : backup[r][f] = Initial
  /\ pc[r] = "backup" /\ answer[r].kind = "ok" =>
       /\ answer[r].data # None
       /\ answer[r].feature \notin Contended(r) => answer[r].data = Initial

SInv ==
  /\ NothingLate /\ Composed
  /\ \A r \in Restores : KeptAsFound(r)
  /\ \A f \in Feature : Writers(f) = {} => store[f] = Initial

AInv ==
  /\ TypeOK
  /\ \A r \in Restores : /\ ItemsFromRequest(r) /\ RestartKept(r) /\ OrderKept(r)
                        /\ EntriesKept(r) /\ LeftOff(r)
  /\ LInv /\ SInv
=============================================================================
