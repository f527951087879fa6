----------------------------- MODULE SrrCommand -----------------------------
(***************************************************************************)
(* The command line tool (fty-srr-cmd.cc): its runs one after the other on   *)
(* one file and on the standard streams, the device they save and restore,   *)
(* and whoever edits the file or configures the device in between.           *)
(*                                                                           *)
(* The daemon answers a run, answers with the text of an exception, or does  *)
(* not answer within the time-out of the tool.  What it began for a run that  *)
(* has given up it goes on with, in a thread of its own.                      *)
(***************************************************************************)
EXTENDS SrrPayload

CONSTANTS
  Options,         \* the command lines that are run
  Passphrase,      \* "" is the absence of one
  Compliant,       \* those of the required format
  Configuration,   \* the configurations somebody gives the device between runs
  Factory,         \* what a reset leaves of the features
  MaxTurns         \* bound on the number of runs, edits and configurations

Place == {"file", "stdio"}

ASSUME CommandAssumption ==
  /\ MaxTurns \in Nat /\ Compliant \subseteq Passphrase
  /\ Configuration \subseteq [Feature -> FeatureData] /\ Factory \in [Feature -> FeatureData]
  /\ \A o \in Options :
       /\ o.operation \in {"list", "save", "restore", "reset", "else"}
       /\ o.passphrase \in Passphrase
       /\ o.password \in {"none", "wrong", "right"}
       /\ o.fileName \in {"none", "good", "unopenable"}
       /\ o.groups \subseteq Group \cup StrayGroup
       /\ o.force \in BOOLEAN

VARIABLES
  tool,            \* where the run is
  option,          \* its command line
  groupList,       \* the groups a save will ask for
  doc,             \* what is in the file and on the standard streams
  shown,           \* what the run printed: a status, and whether an error
  exit,            \* how the run ended
  device,          \* the configuration of the features
  before,          \* ... when the run began
  jobs,            \* the restores the daemon is at
  alone,           \* whether there were none when the run began
  turns

commandVars == <<tool, option, groupList, doc, shown, exit, device, before, jobs, alone, turns>>

(* "empty": nothing; "mixed": lines for the user before the JSON; "foreign":   *)
(* JSON of something else; "payload": the response of a save.  of is for the    *)
(* properties: the device when it was saved.                                  *)
NoGroups == [g \in {} |-> {}]
Document(kind) ==
  [kind |-> kind, version |-> "2.1", checksum |-> "", groups |-> NoGroups,
   of |-> [f \in {} |-> {}]]

Quiet == [status |-> "none", error |-> FALSE]

Phase == {"asked", "next", "reset", "restore", "rollback"}

(* The device never holds what no agent can read, and a payload names known     *)
(* groups only.                                                               *)
CommandTypeOK ==
  /\ tool \in {"idle", "listing", "saving", "reading", "restoring", "done"}
  /\ option \in Options
  /\ groupList \subseteq Group \cup StrayGroup
  /\ \A p \in Place : doc[p].kind \in {"empty", "mixed", "foreign", "payload"}
                      /\ DOMAIN doc[p].groups \subseteq Group
  /\ shown \in [status : {"none", "SUCCESS", "PARTIAL_SUCCESS", "FAILED", "UNKNOWN"}, error : BOOLEAN]
  /\ exit \in {"none", "success", "failure", "aborted"}
  /\ {device, before} \subseteq [Feature -> FeatureData]
  /\ \A j \in jobs : j.phase \in Phase /\ j.left \subseteq Group /\ j.todo \subseteq Feature
                     /\ j.backup \in [DOMAIN j.backup -> FeatureData]
  /\ alone \in BOOLEAN /\ turns \in 0..MaxTurns

CommandInit ==
  /\ tool = "idle" /\ option \in Options /\ groupList = {}
  /\ doc = [p \in Place |-> Document("empty")]
  /\ shown = Quiet /\ exit = "none"
  /\ device \in Configuration /\ before = device
  /\ jobs = {} /\ alone = TRUE /\ turns = 0

-----------------------------------------------------------------------------
(* A save, with agents that may fail: what SrrSave does, in one step.           *)

FeatureList(g) == [i \in DOMAIN m_fp[g] |-> [m_feature |-> m_fp[g][i].m_feature,
                                              data |-> device[m_fp[g][i].m_feature]]]

getGroupList == Group

SaveResponse(asked, failed) ==
  [Document("payload") EXCEPT !.checksum = option.passphrase, !.of = device,
     !.groups = [g \in (asked \cap Group) \ failed |-> evalDataIntegrity(FeatureList(g))]]

(* Mutant: an unknown group is no failure.                                     *)
StatusOfKnown(asked, failed) == IF asked \cap failed = {} THEN "SUCCESS" ELSE "PARTIAL_SUCCESS"

SaveStatus(asked, failed) ==
  IF asked \subseteq Group /\ asked \cap failed = {} THEN "SUCCESS" ELSE "PARTIAL_SUCCESS"

(* The daemon's checks of what the tool has sent on from document d: "none" or   *)
(* the status of a refusal, which comes before any group is touched.           *)
Carries(d, g) == {d.groups[g].m_features[i].m_feature : i \in DOMAIN d.groups[g].m_features}

Complete(d, g) == \A f \in FeaturesOf(g) \ Carries(d, g) : d.version \notin m_requiredIn[f]

(* Mutant: the groups that are intact are enough.                              *)
RefusalIfNoneIntact(d) ==
  IF d.checksum # option.passphrase THEN "FAILED"
  ELSE IF ~option.force /\ DOMAIN d.groups # {}
         /\ \A g \in DOMAIN d.groups : ~checkDataIntegrity(d.groups[g]) THEN "UNKNOWN" ELSE "none"

Refusal(d) ==
  IF d.checksum # option.passphrase THEN "FAILED"
  ELSE IF ~option.force /\ \E g \in DOMAIN d.groups : ~checkDataIntegrity(d.groups[g])
  THEN "UNKNOWN" ELSE "none"

(* Mutant: the features of a group are told by their place.                    *)
DataByPlace(d, g, f) ==
  LET fs == ReadFeatures(d.groups[g].m_features)
  IN  fs[CHOOSE i \in DOMAIN m_fp[g] : m_fp[g][i].m_feature = f].data

(* The data of feature f in group g of d, as an agent gets it.                 *)
DataFor(d, g, f) ==
  LET fs == ReadFeatures(d.groups[g].m_features)
  IN  fs[CHOOSE i \in DOMAIN fs : fs[i].m_feature = f].data

(* What opRestore reads it writes again: trees to strings, strings to trees.    *)
Forwarded(d) ==
  [d EXCEPT !.groups = [g \in DOMAIN d.groups |->
     [d.groups[g] EXCEPT !.m_features = WriteFeatures(ReadFeatures(@))]]]

-----------------------------------------------------------------------------
(* A run begins. *)

Resting == tool \in {"idle", "done"}

Turn == Resting /\ turns < MaxTurns /\ turns' = turns + 1

Begins(o) ==
  /\ Turn
  /\ option' = o /\ before' = device /\ alone' = (jobs = {})
  /\ UNCHANGED <<device, jobs>>

Ends(code) == tool' = "done" /\ exit' = code

(* Nothing but messages: no passphrase, no valid password, no such operation.  *)
Refused(o) ==
  \/ o.operation \in {"save", "restore"} /\ o.passphrase = ""
  \/ o.operation = "restore" /\ o.password # "right"
  \/ o.operation = "else"

RunRefused(o) ==
  /\ Begins(o) /\ Refused(o)
  /\ Ends("failure")
  /\ shown' = [Quiet EXCEPT !.error = TRUE]
  /\ groupList' = {}
  /\ UNCHANGED doc

RunReset(o) ==
  /\ Begins(o) /\ o.operation = "reset"
  /\ Ends("success")
  /\ shown' = [Quiet EXCEPT !.error = TRUE]
  /\ groupList' = {}
  /\ UNCHANGED doc

RunList(o) ==
  /\ Begins(o) /\ o.operation = "list"
  /\ tool' = "listing" /\ exit' = "none" /\ shown' = Quiet
  /\ groupList' = {}
  /\ UNCHANGED doc

(* The output is opened, and emptied, before anything is asked for.  A stream   *)
(* that cannot be opened throws nothing.                                      *)
RunSave(o) ==
  /\ Begins(o) /\ o.operation = "save" /\ ~Refused(o)
  /\ doc' = IF o.fileName = "good" THEN [doc EXCEPT !["file"] = Document("empty")]
            ELSE [doc EXCEPT !["stdio"] = Document("mixed")]
  /\ tool' = IF o.groups = {} THEN "listing" ELSE "saving"
  /\ groupList' = o.groups
  /\ shown' = Quiet /\ exit' = "none"

Source == IF option.fileName = "good" THEN "file" ELSE "stdio"

RunRestore(o) ==
  /\ Begins(o) /\ o.operation = "restore" /\ ~Refused(o)
  /\ tool' = "reading" /\ exit' = "none" /\ shown' = Quiet
  /\ groupList' = {}
  /\ UNCHANGED doc

-----------------------------------------------------------------------------
(* opList and opSave. *)

AfterList == IF option.operation = "list" THEN Ends("success") ELSE tool' = "saving" /\ UNCHANGED exit

Listed ==
  /\ tool = "listing"
  /\ groupList' = getGroupList
  /\ AfterList
  /\ UNCHANGED <<option, doc, shown, device, before, jobs, alone, turns>>

(* The error is printed, and a save goes on with no group at all.              *)
ListFailed ==
  /\ tool = "listing"
  /\ shown' = [shown EXCEPT !.error = TRUE]
  /\ AfterList
  /\ UNCHANGED <<option, groupList, doc, device, before, jobs, alone, turns>>

(* Mutant: nothing is said of it.                                              *)
SaveFailsQuietly ==
  /\ tool = "saving"
  /\ Ends("success")
  /\ UNCHANGED <<option, groupList, doc, shown, device, before, jobs, alone, turns>>

SaveFails ==
  /\ tool = "saving"
  /\ shown' = [shown EXCEPT !.error = TRUE]
  /\ Ends("success")
  /\ UNCHANGED <<option, groupList, doc, device, before, jobs, alone, turns>>

Written(answer) ==
  doc' = [doc EXCEPT ![Source] =
            IF Source = "file" THEN answer ELSE [answer EXCEPT !.kind = "mixed"]]

(* A passphrase that does not have the format: the answer has an error and no   *)
(* data, and is written all the same.                                         *)
SaveRefused ==
  /\ tool = "saving" /\ option.passphrase \notin Compliant
  /\ shown' = [status |-> "FAILED", error |-> TRUE]
  /\ Written(Document("payload"))
  /\ Ends("success")
  /\ UNCHANGED <<option, groupList, device, before, jobs, alone, turns>>

(* The standard output has the status line, and what was said of the groups,   *)
(* before the JSON.                                                           *)
Saved ==
  /\ tool = "saving" /\ option.passphrase \in Compliant
  /\ \E failed \in SUBSET Group :
       LET answer == SaveResponse(groupList, failed)
       IN  /\ shown' = [shown EXCEPT !.status = SaveStatus(groupList, failed)]
           /\ Written(answer)
  /\ Ends("success")
  /\ UNCHANGED <<option, groupList, device, before, jobs, alone, turns>>

-----------------------------------------------------------------------------
(* opRestore. *)

NotJson == doc[Source].kind \in {"empty", "mixed"}

ReadFails ==
  /\ tool = "reading"
  /\ NotJson \/ (doc[Source].kind = "payload" /\ doc[Source].version # "2.1")
  /\ shown' = [shown EXCEPT !.error = TRUE]
  /\ Ends("success")
  /\ UNCHANGED <<option, groupList, doc, device, before, jobs, alone, turns>>

(* The members are looked up outside of any try block.                         *)
ReadAborts ==
  /\ tool = "reading" /\ doc[Source].kind = "foreign"
  /\ Ends("aborted")
  /\ UNCHANGED <<option, groupList, doc, shown, device, before, jobs, alone, turns>>

(* A restore the daemon is asked for.                                          *)
NoBackup == [f \in {} |-> {}]
Job(d) ==
  [run |-> turns, doc |-> d, refusal |-> Refusal(d), phase |-> "asked", left |-> DOMAIN d.groups,
   group |-> "none", todo |-> {}, backup |-> NoBackup, allGroupsRestored |-> TRUE]

(* The request may get lost.                                                   *)
Read ==
  /\ tool = "reading"
  /\ doc[Source].kind = "payload" /\ doc[Source].version = "2.1"
  /\ tool' = "restoring"
  /\ jobs' \in {jobs, jobs \cup {Job(Forwarded(doc[Source]))}}
  /\ UNCHANGED <<option, groupList, doc, shown, exit, device, before, alone, turns>>

(* No answer in time, or one that is no JSON: the daemon goes on.              *)
RestoreUnanswered ==
  /\ tool = "restoring"
  /\ shown' = [shown EXCEPT !.error = TRUE]
  /\ Ends("success")
  /\ UNCHANGED <<option, groupList, doc, device, before, jobs, alone, turns>>

-----------------------------------------------------------------------------
(* The daemon at restore j, for the run that waits or for one that has given     *)
(* up: what SrrRestore does, with agents that may fail, a feature at a time.    *)

Becomes(j, new) ==
  /\ jobs' = (jobs \ {j}) \cup {new}
  /\ UNCHANGED <<tool, option, groupList, doc, shown, exit, before, alone, turns>>

Awaited(j) == tool = "restoring" /\ j.run = turns

Answers(j, status) ==
  /\ jobs' = jobs \ {j}
  /\ \/ /\ Awaited(j) /\ Ends("success")
        /\ shown' = [status |-> status, error |-> status \in {"FAILED", "UNKNOWN"}]
     \/ ~Awaited(j) /\ UNCHANGED <<tool, exit, shown>>
  /\ UNCHANGED <<option, groupList, doc, device, before, alone, turns>>

(* Licensing may refuse any request.                                           *)
LicenceRefuses(j) == j.phase = "asked" /\ Answers(j, "FAILED")

RestoreRefused(j) == j.phase = "asked" /\ j.refusal # "none" /\ Answers(j, j.refusal)

Admitted(j) ==
  /\ j.phase = "asked" /\ j.refusal = "none"
  /\ Becomes(j, [j EXCEPT !.phase = "next"]) /\ UNCHANGED device

NextGroups(j) == {g \in j.left : \A h \in j.left : m_restoreOrder[g] <= m_restoreOrder[h]}

(* The exception of a missing feature ends the whole request.                  *)
FeatureMissing(j) ==
  /\ j.phase = "next"
  /\ \E g \in NextGroups(j) : ~Complete(j.doc, g)
  /\ Answers(j, "FAILED")

GroupBegins(j) ==
  /\ j.phase = "next"
  /\ \E g \in NextGroups(j) :
       /\ Complete(j.doc, g)
       /\ Becomes(j, [j EXCEPT !.phase = "reset", !.left = @ \ {g}, !.group = g, !.todo = Carries(j.doc, g),
                               !.backup = [f \in FeaturesOf(g) |-> device[f]]])
  /\ UNCHANGED device

(* Before the restore as before the roll-back.                                 *)
Resetting(j) == j.phase = "reset" \/ (j.phase = "rollback" /\ j.todo = DOMAIN j.backup)

Resets(j) ==
  /\ Resetting(j)
  /\ \E f \in DOMAIN j.backup : m_reset[f] /\ device' = [device EXCEPT ![f] = Factory[f]]
  /\ Becomes(j, j)

RestoreBegins(j) ==
  /\ j.phase = "reset"
  /\ Becomes(j, [j EXCEPT !.phase = "restore"]) /\ UNCHANGED device

FeatureRestored(j) ==
  /\ j.phase = "restore"
  /\ \E f \in Lowest(j.todo) :
       /\ device' = [device EXCEPT ![f] = DataFor(j.doc, j.group, f)]
       /\ Becomes(j, [j EXCEPT !.todo = @ \ {f}])

(* The agent may have taken the data all the same.                             *)
FeatureFails(j) ==
  /\ j.phase = "restore"
  /\ \E f \in Lowest(j.todo) :
       device' \in {device, [device EXCEPT ![f] = DataFor(j.doc, j.group, f)]}
  /\ Becomes(j, [j EXCEPT !.phase = "rollback", !.todo = DOMAIN j.backup, !.allGroupsRestored = FALSE])

(* A feature that was not saved, or cannot be restored, stays as it is.         *)
RollsBack(j) ==
  /\ j.phase = "rollback"
  /\ \E f \in Lowest(j.todo) :
       /\ device' \in {device, [device EXCEPT ![f] = j.backup[f]]}
       /\ Becomes(j, [j EXCEPT !.todo = @ \ {f}])

GroupEnds(j) ==
  /\ j.phase \in {"restore", "rollback"} /\ j.todo = {}
  /\ Becomes(j, [j EXCEPT !.phase = "next", !.group = "none", !.backup = NoBackup]) /\ UNCHANGED device

(* A reply to a reset, or to anything in the roll-back, that cannot be decoded   *)
(* ends the request with the group half done.                                 *)
BreaksOff(j) ==
  /\ \/ j.phase = "reset" /\ \E f \in DOMAIN j.backup : m_reset[f]
     \/ j.phase = "rollback" /\ j.todo # {}
  /\ Answers(j, "FAILED")

RestoreAnswered(j) ==
  /\ j.phase = "next" /\ j.left = {}
  /\ Answers(j, IF j.allGroupsRestored THEN "SUCCESS" ELSE "PARTIAL_SUCCESS")

(* Its process ends, and with it every thread.                                 *)
DaemonEnds ==
  /\ jobs' = {}
  /\ UNCHANGED <<tool, option, groupList, doc, shown, exit, device, before, alone, turns>>

JobNext ==
  \/ \E j \in jobs :
       \/ LicenceRefuses(j) \/ RestoreRefused(j) \/ Admitted(j)
       \/ FeatureMissing(j) \/ GroupBegins(j) \/ Resets(j) \/ RestoreBegins(j)
       \/ FeatureRestored(j) \/ FeatureFails(j) \/ RollsBack(j) \/ GroupEnds(j)
       \/ BreaksOff(j) \/ RestoreAnswered(j)
  \/ DaemonEnds

-----------------------------------------------------------------------------
(* Between the runs. *)

EditFile(d) ==
  /\ Turn /\ tool' = "idle"
  /\ doc' = [doc EXCEPT !["file"] = d]
  /\ UNCHANGED <<option, groupList, shown, exit, device, before, jobs, alone>>

(* One feature is given another content, or is taken out; the features of a    *)
(* group change places, which changes nothing that is said; the file becomes   *)
(* something else altogether.                                                 *)
Edit ==
  \/ \E g \in DOMAIN doc["file"].groups :
       LET old == doc["file"]
           fs == old.groups[g].m_features
           With(new) == [old EXCEPT !.groups[g].m_features = new]
       IN  \/ \E i \in DOMAIN fs : \E c \in Content \ {fs[i].data.content} :
                EditFile(With([fs EXCEPT ![i].data.content = c]))
           \/ fs # <<>> /\ EditFile(With(Tail(fs)))
           \/ EditFile(With([i \in DOMAIN fs |-> fs[Len(fs) + 1 - i]]))
  \/ doc["file"].kind = "payload" /\ EditFile([doc["file"] EXCEPT !.version = "3.0"])
  \/ \E kind \in {"mixed", "foreign"} : EditFile(Document(kind))

Configure ==
  /\ Turn /\ tool' = "idle"
  /\ device' \in Configuration
  /\ UNCHANGED <<option, groupList, doc, shown, exit, before, jobs, alone>>

CommandNext ==
  \/ \E o \in Options : RunRefused(o) \/ RunReset(o) \/ RunList(o) \/ RunSave(o) \/ RunRestore(o)
  \/ Listed \/ ListFailed \/ SaveFails \/ Saved
  \/ SaveRefused
  \/ ReadFails \/ ReadAborts \/ Read \/ RestoreUnanswered
  \/ JobNext
  \/ Edit \/ Configure

CommandSpec == CommandInit /\ [][CommandNext]_commandVars

-----------------------------------------------------------------------------
(* What the file, the tool and the daemon owe to the user together. *)

Finished(op) == tool = "done" /\ option.operation = op

(* The data a payload carries for f, said in the daemon's own spelling.        *)
Respelled(d) == ReadData(WriteData(d))

(* The groups of d that do not say any more what was saved.                    *)
Changed(d) ==
  {g \in DOMAIN d.groups :
     {d.groups[g].m_features[i] : i \in DOMAIN d.groups[g].m_features}
       # {[m_feature |-> f, data |-> WriteData(d.of[f])] : f \in FeaturesOf(g)}}

(* Save, and restore some time later what nobody has changed: every group the  *)
(* tool reports restored is what it was, read and written five times on the     *)
(* way and whatever the order of the features in the file, unless the daemon    *)
(* was still at the restore of a run that had given up.                        *)
RestoredAsSaved ==
  Finished("restore") /\ alone /\ shown.status = "SUCCESS" =>
    LET d == doc[Source]
    IN  \A g \in DOMAIN d.groups \ Changed(d) : \A f \in FeaturesOf(g) :
          device[f] = Respelled(d.of[f])

(* ... and its integrity is never doubted, whatever else the restore may fail   *)
(* of: the digest taken of the agents' own strings, in the order they were      *)
(* saved, is that of what the file brings back.                               *)
IntactAccepted ==
  Finished("restore") /\ Changed(doc[Source]) = {} => shown.status # "UNKNOWN"

(* A payload in which somebody has changed what is said or left a feature out    *)
(* changes nothing on the device, not even for its other groups, unless it is  *)
(* forced or the daemon was still at the restore of a run that had given up.   *)
KeptOut == alone /\ Changed(doc[Source]) # {} /\ ~option.force => device = before
EditedKeptOut == Finished("restore") => KeptOut

(* A save empties the file before it knows what to write: when the file holds   *)
(* no payload in the end, an error was printed.                               *)
NoSilentLoss ==
  Finished("save") /\ Source = "file" /\ ~Refused(option) =>
    doc["file"].kind = "payload" \/ shown.error

(* A save that has not got all the groups it was to get says so.               *)
AskedFor == IF option.groups = {} THEN Group ELSE option.groups
IncompleteIsTold ==
  Finished("save") /\ Source = "file" /\ doc["file"].kind = "payload" /\ ~Refused(option) =>
    AskedFor \subseteq DOMAIN doc["file"].groups \/ shown.error \/ shown.status # "SUCCESS"

-----------------------------------------------------------------------------
(* The inductive invariant behind the theorems of SrrCommandProofs. *)

Entry == [m_feature : Feature, data : [is : {"json", "text"}, content : Content]]

Ascends(fs) ==
  \A i, j \in DOMAIN fs : i < j => getPriority(fs[i].m_feature) < getPriority(fs[j].m_feature)
Descends(fs) ==
  \A i, j \in DOMAIN fs : i < j => getPriority(fs[j].m_feature) < getPriority(fs[i].m_feature)

(* The features of group g by priority, as configuration c has them.           *)
SavedAs(c, g) ==
  [i \in DOMAIN m_fp[g] |-> [m_feature |-> m_fp[g][i].m_feature, data |-> WriteData(c[m_fp[g][i].m_feature])]]

(* The features of a group are its own, each at most once, and ascend or       *)
(* descend in priority, whatever was edited; the digest is of what was saved.  *)
DocumentOK(d) ==
  /\ d \in [kind : {"empty", "mixed", "foreign", "payload"}, version : {"2.1", "3.0"},
            checksum : Passphrase \cup {""}, groups : {d.groups}, of : {d.of}]
  /\ DOMAIN d.groups \subseteq Group
  /\ d.groups \in [DOMAIN d.groups -> [m_features : Seq(Entry), m_data_integrity : Seq(Entry)]]
  /\ DOMAIN d.groups # {} => d.of \in [Feature -> FeatureData]
  /\ \A g \in DOMAIN d.groups :
       /\ Carries(d, g) \subseteq FeaturesOf(g)
       /\ Ascends(d.groups[g].m_features) \/ Descends(d.groups[g].m_features)
       /\ d.groups[g].m_data_integrity = SavedAs(d.of, g)

(* A run in progress has shown no status; a save asks for what it was to ask     *)
(* for, or an error was printed; a restore keeps an edited payload out from the  *)
(* start.                                                                     *)
InProgress ==
  /\ ~Resting => shown.status = "none" /\ ~Refused(option)
  /\ tool = "listing" =>
       option.operation \in {"list", "save"} /\ (option.operation = "save" => option.groups = {})
  /\ tool = "saving" => option.operation = "save" /\ (groupList = AskedFor \/ shown.error)
  /\ tool \in {"reading", "restoring"} => option.operation = "restore"
  /\ tool # "idle" /\ option.operation = "restore" => KeptOut

(* A refused job never gets to a group, and a group at work is one of its own    *)
(* payload that has everything it must have.                                   *)
JobOK(j) ==
  /\ j \in [run : Nat, doc : {j.doc}, refusal : {"none", "FAILED", "UNKNOWN"}, phase : Phase,
            left : SUBSET DOMAIN j.doc.groups, group : {j.group}, todo : SUBSET Feature,
            backup : {j.backup}, allGroupsRestored : BOOLEAN]
  /\ DocumentOK(j.doc)
  /\ j.refusal # "none" => j.phase = "asked"
  /\ j.phase = "asked" => j.left = DOMAIN j.doc.groups
  /\ j.phase \in {"asked", "next"} => j.todo = {}
  /\ j.phase \in {"reset", "restore", "rollback"} =>
       /\ j.group \in DOMAIN j.doc.groups \ j.left
       /\ j.todo \subseteq FeaturesOf(j.group) /\ DOMAIN j.backup = FeaturesOf(j.group)
  /\ j.phase = "reset" => j.todo = Carries(j.doc, j.group)
  /\ j.phase = "restore" => j.todo \subseteq Carries(j.doc, j.group)
  /\ j.phase = "rollback" => ~j.allGroupsRestored
  /\ j.backup \in [DOMAIN j.backup -> FeatureData]

(* As long as nothing failed, what is done is on the device.                    *)
Held(j) ==
  j.allGroupsRestored =>
    \A g \in DOMAIN j.doc.groups \ j.left : \A f \in Carries(j.doc, g) \ j.todo :
      device[f] = DataFor(j.doc, g, f)

(* At most one job is of the present run, and it is at what the run has read; a   *)
(* run that began alone has no other, and none once it was answered.            *)
JobsOK ==
  /\ \A j \in jobs : JobOK(j) /\ j.run <= turns
  /\ \A j, k \in jobs : j.run = k.run => j = k
  /\ tool # "idle" => \A j \in jobs : j.run = turns =>
       /\ tool \in {"restoring", "done"} /\ option.operation = "restore"
       /\ j.doc = doc[Source] /\ j.refusal = Refusal(j.doc)
  /\ alone /\ tool # "idle" => \A j \in jobs : j.run = turns
  /\ alone /\ tool = "restoring" => \A j \in jobs : Held(j)
  /\ alone /\ tool = "done" /\ shown.status # "none" => jobs = {}

CommandInv ==
  /\ CommandTypeOK /\ InProgress /\ JobsOK
  /\ doc \in [Place -> {doc[p] : p \in Place}] /\ \A p \in Place : DocumentOK(doc[p])
  /\ RestoredAsSaved /\ IntactAccepted /\ EditedKeptOut /\ NoSilentLoss /\ IncompleteIsTold

-----------------------------------------------------------------------------
(* What the help text and the messages of the tool say and it does not do: the  *)
(* runs of these find a counterexample.                                       *)

(* "Select groups to save (default to all groups)" (fty-srr-cmd.cc:99): without *)
(* -g a successful save has all groups.  When the list fails it has none.       *)
DefaultsToAllGroups ==
  Finished("save") /\ option.groups = {} /\ shown.status = "SUCCESS" =>
    Group \subseteq DOMAIN doc[Source].groups

(* "Path to the JSON file to save/restore. If not specified, standard           *)
(* input/output is used" (fty-srr-cmd.cc:100): what a save leaves there in the  *)
(* place of the file is such a document.                                      *)
StandardOutputIsDocument ==
  Finished("save") /\ option.fileName = "none" /\ shown.status = "SUCCESS" =>
    doc["stdio"].kind = "payload"

(* "### - Can't open output file" and EXIT_FAILURE (fty-srr-cmd.cc:137), and    *)
(* the same for the input (172): a file that was named and cannot be opened    *)
(* ends the run.                                                              *)
UnopenableFileFails ==
  tool = "done" /\ option.operation \in {"save", "restore"} /\ option.fileName = "unopenable" =>
    exit = "failure"
=============================================================================
