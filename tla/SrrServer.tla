----------------------------- MODULE SrrServer -----------------------------
(***************************************************************************)
(* The daemon at work: saves and restores, each in the thread handleRequest  *)
(* (fty_srr_manager.cc) started for it, over the same agents.                *)
(***************************************************************************)
EXTENDS SrrRestoreProperties, SrrSave

(* A thread serves one request.                                               *)
ASSUME ServerAssumption == Restores \cap Saves = {}

serverVars == <<agentVars, workerVars, saveVars>>

ServerInit == Init /\ SaveInit

ServerNext ==
  \/ \E r \in Restores : WorkerStep(r) /\ UNCHANGED saveVars
  \/ \E s \in Saves : SaveStep(s) /\ UNCHANGED workerVars
  \/ \E a \in Agent : AgentStep(a) /\ UNCHANGED saveVars
  \/ AllServed /\ AllSaved /\ UNCHANGED saveVars

ServerSpec == ServerInit /\ [][ServerNext]_serverVars

(* Saves that are asked for once every restore has been answered, while the    *)
(* messages of a restore that gave up may still be in the mailboxes.          *)
SavesComeLater ==
  \A s \in Saves : savePc[s] = "decode" /\ savePc'[s] # "decode" =>
    \A r \in Restores : pc[r] = "answered"

SaveAfterRestoreSpec == ServerInit /\ [][ServerNext /\ SavesComeLater]_serverVars

(* A configuration d of feature f is what the responses say: of an item        *)
(* restored the configuration of its payload, of a failed one that the thread  *)
(* is through with what was there before, but for the features the log names,  *)
(* and of a feature no request has any business with what was there before.    *)
Reflects(f, d) ==
  \A r \in Restores : f \notin Contended(r) =>
    /\ f \notin Scope(r) => d = Initial
    /\ \A it \in Requested(r) : f \in Writable(r, it) =>
         /\ it.id \in Entries(r, "SUCCESS") /\ f \in it.features => d = r
         /\ /\ it.id \in Entries(r, "FAILED") /\ Finished(r, it)
            /\ f \notin unbacked[r] \cup unrecoverable[r]
            => d = Initial

(* Such a save returns what the responses of the restores said, whatever a     *)
(* restore left in the mailboxes and whenever it is carried out.               *)
SaveReflectsRestore ==
  \A s \in Saves : \A g \in Group : \A i \in DOMAIN savedGroups[s][g] :
    Reflects(savedGroups[s][g][i].m_feature, savedGroups[s][g][i].data)

-----------------------------------------------------------------------------
(* The inductive invariant behind the theorem of SrrSaveProofs. *)

(* Before the first save begins there is nothing to show; from then on no      *)
(* restore is under way, and a reply to a save is as good as what was saved.   *)
ReflectInv ==
  /\ SaveReflectsRestore
  /\ \A s \in Saves :
       /\ savePc[s] = "decode" => \A g \in Group : savedGroups[s][g] = <<>>
       /\ savePc[s] # "decode" => \A r \in Restores : pc[r] = "answered"
       /\ answer[s].kind = "ok" => Reflects(answer[s].feature, answer[s].data)
=============================================================================
