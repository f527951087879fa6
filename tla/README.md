# A formal model of fty-srr

fty-srr saves, restores and resets the configuration of a 42ITy/IPM appliance.
The configuration belongs to other processes, the *feature agents*; the daemon
only asks them, one feature at a time, over the message bus. What is difficult
about it is to leave the appliance in a state somebody asked for although an
agent fails, answers rubbish, answers too late or not at all, and although two
requests may be served at the same time. This directory holds TLA+ models of
that, the TLC runs that check them, and proofs.

Line numbers below are of `server/src/` unless said otherwise.

## 1. The system

| Part | State | Operations | Talks to |
|---|---|---|---|
| Tables (`fty_srr_groups.cc`) | `g_srrFeatureMap`, `g_srrGroupMap`, `g_agentToQueue`, constant | `getPriority`, `getGroupFromFeature` | read by everyone |
| Worker, restore (`fty_srr_worker.cc:470-808`) | per request, on the stack of its thread: items, roll-back data, status list, overall status, restart flag | `requestRestore`, `saveFeature`, `resetFeature`, `restoreFeature`, `rollback`, `getLicenseCapabilities` | the agents through `sendRequest`, the licensing agent |
| Worker, save (`:308-417`) | per request: the groups saved so far | `requestSave`, `saveFeature` | the agents |
| Worker, list and reset (`:266-306`, `:810-814`) | none | `getGroupList`, `requestReset` (throws) | none |
| `sendRequest` (`helpers/utils.cc:71-103`) | none of its own; blocks the thread in `request()` | one correlated request, with time-out | message bus |
| Feature agents, message bus | the configuration of each feature, the mailboxes | external | the daemon |
| Data integrity (`helpers/data_integrity.cc`), dto (`dto/*.cc`) | none | digest of a group, JSON and protobuf, five conversions between two agents | worker, command line tool |
| Pass phrase, re-authentication | none | format check; password check and token | worker; command line tool |
| Manager (`fty_srr_manager.cc`) | the two buses, the worker | `handleRequest` (a detached thread per message), `processRequest`, `sendUiResponse` | UI bus, worker |
| Main (`fty-srr.cc`) | `g_exit`, `g_cv` | start, wait for SIGINT, exit, `terminateHandler` | manager, systemd |
| Reboot (`helpers/utils.cc:31-45`) | none | a detached thread: wait, sync, run the reboot script | operating system |
| `fty-srr-cmd` (`fty-srr-cmd.cc`) | the file of a payload, the standard streams | `list`, `save`, `restore`, `reset`; one run, one or two requests | the manager's queue |

How they interact. The manager's listener starts one **detached thread per UI
message** (`fty_srr_manager.cc:160-168`), and nothing keeps two of them apart:
all threads share the worker (whose members are constant after `init`), the
back-end bus and, through it, the agents. A thread has **at most one request
outstanding**: `sendRequest` blocks until the reply with its correlation id
arrives or the time-out passes. A request that timed out **stays in the
agent's mailbox** and is carried out later.

What is hard, and what correct means for each part:

* *Restore*: reset and restore of a feature fail independently; the code then
  rolls the whole item back. Reported SUCCESS must mean restored, reported
  FAILED must mean back to what was saved; dependencies between features are
  respected in both directions; refused requests must touch nothing; the
  overall status must agree with the entries; a restored feature that needs a
  restart must get one.
* *sendRequest*: replies are matched with calls, late ones with none.
* *Concurrent requests*: features of one request are not disturbed by a request
  on others; on the same features, two successes leave one of the two payloads.
* *Save*: all groups consistent, a failed group left out, the status honest.
* *Manager, main*: a message is dispatched to a bound handler and answered, an
  error included, or lost with its process; SIGINT ends the daemon, and nothing
  but SIGINT lets main return.
* *Ends of a process*: neither roll-back data nor status list is persisted. When
  a thread's exception, systemd or the reboot of another request ends a restore,
  one item at most is left half done, nothing that was reported becomes wrong,
  and asking again repairs it.
* *Command line tool and payload*: what a save wrote a restore brings back to the
  agents, what somebody edited is kept out, and no payload is lost, or written
  incomplete, without a word.

`PROJECT.json` lists the hazards line by line with the properties that watch
them, and those no property watches yet.

## 2. Modules

| Module | Models | Source |
|---|---|---|
| `SrrGroups` | the tables as constants, with what the initialisers establish as assumption; priorities | `fty_srr_groups.cc/.h` |
| `SrrTables` | the values shipped | `fty_srr_groups.cc:63-326` |
| `SrrAgents` | agents, mailboxes, `sendRequest` | `helpers/utils.cc:71-103` |
| `SrrRestore` | `requestRestore` and what it calls, any number of threads | `fty_srr_worker.cc:77-263, 428-808` |
| `SrrRestoreProperties` | its properties, and the inductive invariants of one thread (`IInv`) | |
| `SrrRestoreInvariants` | the inductive invariant of threads, mailboxes and agents together (`AInv`) | |
| `SrrSave` | `requestSave` and `saveFeature`, any number of threads, with its properties | `fty_srr_worker.cc:77-121, 308-417` |
| `SrrServer` | restores and saves over the same agents, and a property of both | `fty_srr_manager.cc:160-168` |
| `SrrOutcome` | what a restore promises: items restored or given up as a whole (abstract) | |
| `SrrRestoreOutcome` | the mapping from `SrrRestore` to `SrrOutcome`, and the refinement | |
| `SrrCrash` | `SrrRestore` in a process that ends and on a machine that reboots | `fty-srr.cc:59-63`, `fty_srr_manager.cc:213-219`, `helpers/utils.cc:31-45` |
| `SrrRetry` | a request that comes when those before it are answered or lost: its properties and their inductive invariant | |
| `SrrDaemon` | main, manager and dispatch | `fty-srr.cc:33-146`, `fty_srr_manager.cc:36-219`, `fty_srr_worker.cc:810-814` |
| `SrrPayload` | the data of features and the digest of a group, written and read | `dto/common.cc:25-89`, `helpers/data_integrity.cc` |
| `SrrCommand` | the command line tool, its file, the device, who edits either | `fty-srr-cmd.cc:69-367`, `fty_srr_worker.cc:266-306` |
| `SrrAgentsProofs`, `SrrRestoreProofs`, `SrrLoopProofs`, `SrrAgreementProofs`, `SrrCrashProofs`, `SrrSaveProofs`, `SrrDaemonProofs`, `SrrCommandProofs` | the theorems and their lemmas (section 4) | |
| `MCRestore`, `MCTables`, `MCSave`, `MCServer`, `MCCrash`, `MCRetry`, `MCDaemon`, `MCCommand` | instances for TLC | |

`SrrRetry` extends `SrrCrash` extends `SrrRestoreOutcome` extends `SrrRestoreInvariants` extends
`SrrRestoreProperties` extends `SrrRestore` extends `SrrAgents` extends `SrrGroups`; `SrrSave` extends
`SrrAgents`, `SrrServer` joins both and gives a thread one request (`ServerAssumption`); `SrrCommand` extends `SrrPayload` extends
`SrrGroups`. `SrrDaemon` stands on its own: what a request does inside its thread
and what becomes of the process around it meet in `SrrCrash`.

### State and code

`SrrAgents`: `store[f]` is the configuration of feature f, one of `Initial`, a
thread's name (the configuration that thread's payload carries), `Default`
(after a reset) or `Undefined` (after a failure half way). `queue[a]` is the
mailbox of agent a; a message remembers who waits for it in `awaited`.
`answer[t]` is what `sendRequest` has for thread t: nothing, pending, or the
reply, time-out or exception it got.

`SrrRestore`: `pc` says where in `requestRestore` a thread is: `license`,
`decode` (parsing, pass phrase, version, integrity), `next` (head of the loop
over the items), the five loops over features (`backup`, `reset`, `restore`,
and `undoReset`, `undoRestore` in `rollback()`), `reply`, `answered`. `todo`
holds the features the current loop has yet to reach; a step takes the lowest
or highest priority of them. `items` is the rest of the groups (versions 2.x)
or features (1.0), `backup` is `rollbackSaveResponse`, `statusList`, `status`,
`allRestored`, `restart` are the variables of that name. An entry of `statusList` has
the `status` the response shows and, for the properties, the `outcome` the thread
found; the two differ only in version 1.0 (`Said`). `unbacked` and
`unrecoverable` hold what the log lines "Could not backup" and "unrecoverable.
May be in undefined state" name: no step reads them, properties do.

One action per way through a handler:

| Action | Lines |
|---|---|
| `LicenseGranted`, `LicenseRefused` | 428-468, 481-484; a blank answer leaves `configurability` uninitialised, so both may follow |
| `Reject`, `IntegrityCheckFailed`, `Accept` | 486-497, 576-623, 775-782 |
| `SkipUnknownGroup`, `MissingFeature`, `BeginItem`, `AllItemsDone` | 504-519, 633-704, 571-575, 770-774 |
| `SendQuery`, `GiveUp` | the three `sendRequest` calls and their time-out |
| `BackupOk`, `BackupFailedSkip` (1.0), `BackupFailedGoOn` (2.x), `BackupDone` | 516-534, 702-712 |
| `ResetAnswered`, `ResetDone` | 536-543, 714-724, 222-231 |
| `RestoreOk`, `RestoreDone`, `RestoreFailed` | 545-569, 726-759 |
| `UndoResetDone`, `UndoRestoreAnswered`, `UndoDone` | 201-263, 561, 763-767 |
| `UnexpectedReply` | an exception that the handler at 227, 251, 540, 550 or 720 does not name |
| `Reply` | 790-807 |
| `AgentStep` | an agent serves the oldest message of its mailbox (external) |

`SrrSave`: `savePc` is `decode`, `next` (head of the loop over the groups),
`saving` (the loop over the features of one) and `answered`; `groupsLeft` and
`featuresLeft` are what the two loops have yet to reach, `savedGroups` and
`allGroupsSaved` the variables of that name.

| Action | Lines |
|---|---|
| `SaveRejected`, `SaveAccepted`, `SaveAnswered` | 319-332 with 395-404, 376-416 |
| `UnknownGroup`, `BeginGroup`, `GroupSaved` | 334-350, 374 |
| `SendSave`, `SaveGiveUp` | 351-353, and the time-out of `sendRequest` |
| `FeatureSaved`, `GroupFailed` | 354-365, 366-373 |

`SrrOutcome`: per request and item a `verdict` (pending, working, SUCCESS,
FAILED), per request and feature what is promised of its configuration (`kept`
as it was, `restored`, or `open`, about which nothing is), and the `reply`. Under
the mapping a verdict is the outcome of an entry of `statusList`, or `working` while the thread is
in one of the item's loops; `config` is read off `store`, and a value that is
neither the old one nor the payload's where something was promised maps to
`disturbed`, which no step of `SrrOutcome` produces. `Begin`, `Succeed`,
`GiveUpItem`, `SkipItem` and `Answer` are the steps; calls, order, late service and
the agents map to stuttering.

`SrrCrash` adds `lost`, the requests whose thread is gone.

| Action | Lines |
|---|---|
| `DaemonDies` | `SrrException` of `sendUiResponse` in a detached thread (`fty_srr_manager.cc:213-219`), any other death: threads end (`ThreadsEnd`), messages stay queued and nobody waits for them |
| `Reboot` | `helpers/utils.cc:31-45`: as above, the mailboxes are gone too, and an agent caught at work has done all, part or none of it (`CaughtBy`) |

`SrrDaemon`: `main` is where the main thread is, `blocking` being the gap between
the predicate and the wait; `handlers` are those bound in `m_processor`,
`listening` is whether `receive` was called; `query` and `response` follow each
message of the UI.

| Action | Lines |
|---|---|
| `SetSignalHandler`, `InterruptUnarmed` | `fty-srr.cc:47-54`, 71-80: before `sigaction` SIGINT kills |
| `Connect`, `Bind`, `Listen`, `ConnectFails` | `fty_srr_manager.cc:98-129` |
| `TestPredicate`, `Block`, `SpuriousWake`, `Return` | `fty-srr.cc:136-145` |
| `Interrupt` | `fty-srr.cc:38-42`: notifies, and only a waiter hears |
| `HandleRequest`, `UiMsgHandler`, `SendUiResponse`, `SendFails` | `fty_srr_manager.cc:160-168, 132-152, 201-219` |
| `Start`, `Ask` | systemd (`Restart=always`), the UI (external) |

`SrrPayload`: the data of a feature is JSON, in the spelling of its agent or of
`serializeJson`, or text. `WriteData` makes a tree of the one and a string of the
other, `ReadData` spells the tree anew; a digest is the text it is taken of.

`SrrCommand`: `tool` is where a run is; `doc` holds the file and the standard
streams, `device` the configuration, `before` that at the start of the run, `shown`
and `exit` what the user gets. A list and a save of the daemon are one step each:
`Listed`, `Saved`, `SaveRefused` when it answers, `ListFailed`, `SaveFails` when it does
not. A restore is a job in `jobs`, the detached thread of `fty_srr_manager.cc:165`, which
takes its steps whether the run that asked for it still waits or has given up
(`RestoreUnanswered`): it goes on during the edits, configurations and runs that follow.
`alone` says that no job was left when the run began. A job has what is left of the
groups, the phase of the group it is at, the features the loop of that phase has yet
to reach, the backup and `allGroupsRestored`; `Refusal` is what the daemon makes of pass
phrase and integrity.

| Action | Lines of `fty-srr-cmd.cc` |
|---|---|
| `RunRefused`, `RunReset`, `RunList`, `RunSave`, `RunRestore` | 103-190 |
| `Listed`, `ListFailed` | 221-252 |
| `Saved`, `SaveRefused`, `SaveFails` | 254-293 |
| `NotJson`, `ReadFails`, `ReadAborts`, `Read` | 295-333; the request may get lost |
| `RestoreUnanswered` | 195-219, 360-363 |
| `Answers` | 341-358 when the run still waits |
| `Edit`, `Configure` | whoever has the file or the device between two runs (external) |

| Action of a job | Lines of `fty_srr_worker.cc` |
|---|---|
| `LicenceRefuses`, `RestoreRefused`, `Admitted` | 481-484, 491-495 with 604-623, 625-630 |
| `FeatureMissing` | 657-682, 783-788: FAILED, with the groups before it restored |
| `GroupBegins`, `Resets`, `RestoreBegins` | 699-734; a reset may fail, its place among the others is left open |
| `FeatureRestored`, `FeatureFails`, `RollsBack`, `GroupEnds` | 732-768, 201-263 |
| `BreaksOff` | a reply to a reset or in the roll-back that cannot be decoded (720, 227, 251): FAILED, with a group half done |
| `RestoreAnswered` | 770-774, 790-796 |
| `DaemonEnds` | the end of the process, and of every thread in it |

`AllServed` (`AllSaved` in `SrrSave`) is the daemon at rest: with every request answered and every mailbox
empty it may stay so. Anything else that stops is reported as a deadlock.

### Abstractions and assumptions

* In `SrrRestore` and `SrrSave` a payload is a record: version, whether licence, parsing, pass phrase and
  integrity succeed, the force flag, and per item the features it carries.
  JSON, protobuf, encryption and SHA-256 are reduced to those outcomes; `SrrPayload`
  has what lies behind the outcome of the integrity check. Items have distinct ids.
* Agents are external: a mailbox is served in order, one message at a time; an
  agent that answers SUCCESS with the feature has done what was asked for exactly
  the feature named; it may also answer with no feature at all ("empty"), having
  done nothing, which `saveFeature`, `restoreFeature` and `resetFeature` all take for
  a success (`fty_srr_worker.cc:112`, 150, 189), and so does the model. The runs leave
  such replies out, `MCSaveEmpty.cfg` excepted, and the theorems that need to exclude
  them say so (`Reporting`, section 4). After any other answer the feature may be unchanged, changed or
  `Undefined`; a query without data for the feature changes nothing.
* In version 1.0 the entry of a restored feature is the overall status of the
  agent's reply, which nothing checks (`fty_srr_worker.cc:547-548`): it may be any of
  the four, whatever the status of the feature (`Said`).
* Groups with an unknown one among them are sorted by a comparator that is no
  strict weak ordering, and `std::sort` is undefined; the model takes every
  permutation without an inversion of neighbours, which is what an insertion
  sort (what the standard library does for so few elements) guarantees.
* When the daemon dies the agents and their mailboxes stay; a reboot empties the
  mailboxes. The queue of the UI outlives the daemon.
* Messages of the UI carry the metadata and the user data the code reads without
  looking (`at`, `front`).
* The reboot comes at any step after its decision, or never when the daemon ends
  in the five seconds before it; an agent starts with the configuration it held.
* SHA-256 tells any two texts apart. Data of features are JSON objects or text;
  arrays are left out (`dto/common.cc:44` sets their category to Object, and
  what cxxtools makes of that is not in this repository).
* In `SrrCommand` files have version 2.1, and a save is one step. A job leaves out what
  `SrrRestore` has in detail: calls, mailboxes and late service (a message is carried
  out when it is sent, or not at all), a failing backup (a roll-back may leave any
  feature as it is, which covers it), the order of the resets, empty replies, and the
  reboot.
* The six second pauses are time only. Passing a `std::string` to `log_error`'s
  varargs (674), undefined too, is not modelled.

## 3. Runs

Bounds: `MCRestore` has three features on two agents in two groups, `assets` with
two features of different priority on different agents (so that dependencies,
partial failure and late service all matter) and `network`, restored before it
but listed after it, whose one feature is optional before version 2.1. Resets
exist for two of the three features and so does the restart flag. Payloads
cover a full one, an absent optional feature, an absent required one, an unknown
group before a known one, a stray feature, a feature of another group, an empty
list, one of each refusal, and the force flag. In the restore and save modules
nothing else is bounded: the loops are finite, so are the state spaces.
`MaxInterrupts` and `MaxBusFailures` (2 each in `MCDaemon`) let the daemon be
interrupted, and its bus fail, in each of two lives. `MaxTurns` (3 in `MCCommand`) counts
runs of the tool, edits and configurations together: enough for a save, an edit or a
configuration, and a restore, or for a save, a restore that is given up and another
restore while the daemon is still at the first.

| Run | Question | States |
|---|---|---|
| `restore` | one request of any version, every reply and time-out; safety and liveness | 124 000 |
| `restore_pair` | two requests at once, agents that answer or fail in time, a death of the daemon or a reboot at any step; symmetric in the threads | 1 460 000 |
| `restore_sequel` | a request after one that timed out or was lost, late service and due reboots included | 1 920 000 |
| `promise` | does one restore, of any version, implement `SrrOutcome`, under every reply, time-out, death and reboot | 33 000 |
| `shipped_tables` | the real tables, every ordered pair of groups, agents that succeed | 3 500 |
| `save` | two save requests at once, every reply and time-out; safety and liveness | 96 000 |
| `save_after_restore` | a save that follows a restore, late service included | 28 000 |
| `daemon` | two messages, any subject; safety and liveness | 85 000 |
| `command` | three turns of the tool, an editor and a configurator, the daemon going on with what was given up | 283 000 |
| `missing_feature`, `unbacked_feature`, `lost_interrupt` | statements of comments, refuted | |

Two requests at once and time-outs together have too many states. What a time-out
brings about next to another request is there all the same: in `restore_pair` a
message that is carried out after nobody waits for it any more (a death of the
daemon), in `restore_sequel` the time-outs themselves, one request after the other.
`promise` has one request for the same reason. `shipped_tables` restricts replies to
"ok" because its question is about order.

What they show, property by property (in `SrrRestoreProperties` unless said):

* `SuccessMeansRestored`, `FailedMeansRolledBack` relate the reported status to
  the agents' state, for features no other request writes. Late service is why
  they are not obvious: a restore that timed out is carried out after the
  roll-back began. It does no harm because an agent's mailbox is FIFO and the
  roll-back of that feature goes through the same mailbox.
* `SuccessfulRestoresCompose`: two successes on the same features. Each thread
  resets before it restores, so the last write to a feature is a restore.
* `DependenciesFirst`, `GroupOrder`: order of features and groups, in the
  restore and in the roll-back.
* `StatusHonest`: SUCCESS means that no item was found failed and, in versions 2.x,
  that every entry shows so; PARTIAL_SUCCESS shows one FAILED; a 2.x request that was
  refused or broke off has fewer entries than items, that is, none for the item it was at.
  Version 1.0 is held to what the thread found, since its entries are the agents'
  unchecked words: a SUCCESS may list an entry that says FAILED (547-548).
* `RefusedTouchesNothing`, `RestoredImpliesReboot`, `CorrelatedReply`,
  `EveryRequestAnswered`: see the comments there. A blank answer of the licensing
  agent (463) is no refusal for the first of these: either may follow.
* Of a save (in `SrrSave`): `PayloadGroupsComplete`, a group in the payload has
  all its features, however often the request names it and whichever call
  failed (a restore would refuse the payload otherwise); `SaveStatusHonest`,
  the status says whether a group is missing; `EverySaveAnswered`.
* `SaveReflectsRestore` (in `SrrServer`) ties both together: what a user saves
  after a restore is what the response of the restore said. The save begins
  when the restore has been answered, which is when the UI can ask for it;
  what the restore gave up on may still be queued before it. Of a FAILED item it says
  something only once the thread is through with it (`Finished`): version 1.0
  reports FAILED before it rolls back, and an exception in the roll-back ends the
  request there, with the feature half done and nothing in the log.

* `ImplementsOutcome` (in `SrrRestoreOutcome`) says all of a restore at once, step by
  step rather than at the end: an item is decided once, as a whole, only the item at
  work may be open, what was decided stays true of the agents whatever is carried
  out late, whatever ends the request, and the reply agrees with it.
* `RetryRepairs`, `RetryRollsBackToFound` (in `SrrRetry`): a request sent again
  after one that was lost reports SUCCESS only of what it holds in full, and rolls
  back to what it found, half restored as that may be.
* Of the process (in `SrrDaemon`): `AnswerFitsSubject`, `ReturnsOnlyInterrupted`,
  `EveryQueryConcluded`, `InterruptEnds`; the last holds of a SIGINT that is
  repeated, and `lost_interrupt` shows that it does not hold of a single one.
* Of the tool (in `SrrCommand`): `RestoredAsSaved`, the data survive five conversions and
  any order in the file; `IntactAccepted`, so does the digest: a file nobody changed is
  never answered UNKNOWN, though licence, pass phrase, a missing feature or an undecodable
  reply may still make it FAILED; `EditedKeptOut`, one changed group keeps all out;
  `NoSilentLoss`, `IncompleteIsTold`. `RestoredAsSaved` and `EditedKeptOut` speak of runs that
  began `alone`. Without that the first fails within three turns (save, a restore
  given up, a restore: the first job resets or rolls back what the second has restored); the second
  needs four, more than the run has, and its theorem covers them.

`MCSave` has the tables of `MCRestore`; its requests name all groups, an unknown
one, one twice, none, and two are refused. `MCServer` restores one group of
them, or two features in version 1.0, and saves both.

Every property of a passing run has a mutant of the code that breaks it; the
mutants stand before the definition they replace, marked "Mutant:".

### Where code and comments differ

The first two and the sixth are the violation runs. The others are refuted by
configurations kept beside them (`MCRestoreUnknown.cfg`, `MCRestoreNoRebootV1.cfg`,
`MCSaveEmpty.cfg`, `MCCommandList.cfg`, `MCCommandStdout.cfg`,
`MCCommandUnopenable.cfg`), each with the one property that states it.

1. `fty_srr_worker.cc:683` says a group with a missing feature is skipped; the
   exception thrown at 676 passes that handler and ends the request.
2. `:743` and `:702` say the whole group is rolled back; a feature whose backup
   failed is reset and not rolled back (710-712).
3. `:588` says unknown groups are placed at the end; the comparator (591) leaves
   them where they are.
4. `server/fty-srr.cfg:17` promises a reboot after a restore; version 1.0 never
   reboots after a successful one (547).
5. `:370` says an incomplete group is deleted; a reply without any feature (112)
   leaves its group in the payload without it.
6. `fty-srr.cc:136` says "wait until interrupt"; a SIGINT between the test of the
   predicate and the wait is lost, because the handler does not take the mutex (41).
7. `fty-srr-cmd.cc:99` says a save defaults to all groups; after a failed list (147)
   it saves none and reports success.
8. `:100` of the same file says the standard output takes the place of the file;
   what a save leaves there has other lines before the JSON (282).
9. `:137` and 172 announce a file that cannot be opened; `open` throws nothing (135,
   170) and the standard streams are used.

### Fairness

`FairSpec` has weak fairness of each thread's step, `GiveUp` included: a thread
of the operating system runs, and `request()` returns with the reply or after
its time-out (`helpers/utils.cc:89`). Nothing is assumed of the agents. The
loops are finite, so every request is answered. `FairSaveSpec` is the same for the saves.
`DaemonFairness` is the same for main and for each thread, and for systemd, whose unit
has `Restart=always`; the bus may fail finitely often. `PersistentSpec` adds that
whoever sent a SIGINT sends another while the daemon stays. Nobody has to interrupt,
and no spurious wake-up has to come.

## 4. Proofs

Everything here holds for all tables that satisfy `TablesAssumption` (among others:
no group is empty, no feature is in two groups, priorities ascend in `m_fp`), all
payloads that satisfy `PayloadAssumption`, any set of threads, and agents that may
fail, be late, answer rubbish or never answer.

| Module | Theorems |
|---|---|
| `SrrRestoreProofs` | `TypeCorrect`, `Refusal`, `Honesty`, `Inductive` |
| `SrrLoopProofs` | `Correlation`, `RestartFollows`, `GroupsInOrder` |
| `SrrAgreementProofs` | `Agreement`, `RestoredHolds`, `RolledBack`, `DependenciesHold`, `RestoresCompose` |
| `SrrCrashProofs` | `CrashAgreement`, `CrashCorrelation`, `CrashRestoredHolds`, `CrashRolledBack`, `CrashDependenciesHold`, `CrashRestoresCompose`, `Refinement`, `RetryRestores`, `RetryRollsBack` |
| `SrrSaveProofs` | `SaveTypes`, `SaveInvariant`, `SavedCompletely`, `SaveToldHonestly`; `ServerAgreement`, `ServerKeepsPromises`, `SavedReflects` |
| `SrrDaemonProofs` | `DaemonTypeCorrect`, `AnswersFit`, `WaitsForInterrupt` |
| `SrrCommandProofs` | `CommandTypeCorrect`, `CommandInvariant`, `SavedComesBack`, `IntactComesIn`, `EditedStaysOut`, `LossIsTold`, `IncompletenessIsTold` |

`SrrAgentsProofs` has the lemmas about `Call`, `Consume`, `TimeOut` and `Serve` that
restores and saves share. Each module extends the one it builds on: `SrrCrashProofs`,
`SrrAgreementProofs`, `SrrLoopProofs` and `SrrRestoreProofs` in this order, and
`SrrSaveProofs` extends `SrrAgreementProofs` too.

### One thread by itself

* `TypeCorrect`: `Spec => []TypeOK`. Inductive with `ItemsFromRequest`: the items
  left are items of the request, and a loop over features runs only for a known
  item. It includes that no feature is ever overwritten with the absence of
  data: a query without data must have been recognised as such.
* `Refusal`: `Spec => []RefusedTouchesNothing`. The invariant `StaysOut` adds
  where a refused thread can be, that it waits for nobody, that no message in
  any mailbox is from it, and that its restart flag is down.
* `Honesty`: `Spec => []StatusHonest`. The invariant `Books` counts: entries
  plus items left are the items requested (one more while version 1.0 rolls
  back an item already reported), every requested item is reported or left, and
  `allRestored` is down exactly when an item was found failed, but between the failure
  of a restore and its entry; an entry shows what was found, but in version 1.0
  (`EntriesSaid`); a 2.x request that is refused or breaks off has an item without entry. The lemma `GroupOrdersPermute` shows that the sort
  neither loses nor invents a group, undefined or not. The three together are
  `IInv`, and `Inductive` is `Spec => []IInv`.
* `Correlation`: `Spec => []CorrelatedReply`. The invariant is `MailboxesInOrder`
  with `CallsPosted`: a message that is awaited is the last one of its thread in its
  mailbox and about the feature the thread waits for, and a thread waits only while
  there is such a message. A time-out clears the mark, so that a late reply finds
  nobody.
* `RestartFollows`: `RestartKept` carries the flag from the reply of the feature to
  the response.
* `GroupsInOrder`: `Spec => []GroupOrder`. The sort ensures that no two *neighbours*
  are inverted; that no two groups are, however far apart, is `KnownGroupsSorted`:
  from the smallest distance at which two were inverted one could step to a smaller
  one (`LeastNatural`).

### Threads, mailboxes and agents

`SuccessMeansRestored`, `FailedMeansRolledBack`, `DependenciesFirst` and
`SuccessfulRestoresCompose` compare what threads say with what agents hold, and agents
work on messages nobody waits for any more. `AInv` makes that comparable. A thread
*claims* a feature: `Done(r, f)`, its item is reported SUCCESS or is being restored
and f is behind; `AsFound(r, f)`, its item is not begun, still being saved, or rolled
back so far and the log does not call f lost. The heart is `NothingLate`: **of what a
thread claims, no message of that thread that would change it is in any mailbox.** It
holds because a thread claims f only on a reply to its last message about f, a mailbox
is served in order, and every message about f is in the mailbox of f's agent: whatever
timed out before has been carried out by then. What follows:

* `KeptAsFound`: a feature only one request writes, and which that request claims as
  found, holds what it held, and so does its backup;
* `Composed`: a feature that all its writers claim as done holds the configuration of
  one of them: the last message carried out was a restore;
* `CallOfLoop`, `LoopBounds`, `ItemsOnce` say which messages a loop can have sent, that
  a roll-back covers all of the item but what is in `unbacked`, and that no item
  is reported twice; they make the claims of a step follow from those before
  (`WorkerStepShrinks`: a thread's step adds no claim; only an agent's reply does,
  `ServedClaims`).

The theorems are of the form `Reporting => (Spec => ...)`. `Reporting` says that an
agent that answers SUCCESS reports on the feature it was asked for. It is the one
thing taken from agents, and it cannot be left out: a reply without any feature passes
`saveFeature`'s check of the statuses (`fty_srr_worker.cc:112`), a feature then counts
as saved without data, is reset, and is neither rolled back nor logged; and one passes
that of `restoreFeature` (150), so that a feature counts as restored that is not.

### Ends of processes

`SrrCrashProofs` proves all of it again for `CrashSpec`. Death of the daemon and reboot
are both `Ends`: threads stand still, calls are given up, messages stay as they are or
vanish, and a feature changes only by a message that was in a mailbox. No claim is
added, so none of the messages that are left concerns a claim (`EndKeepsInvariant`).
`CrashInv` adds that a lost thread waits for nothing, which keeps it from being served,
nor does a thread that serves no restore.
(`CrashCorrelation` has the hypothesis `Reporting` only because it is taken from this
invariant as a whole.)

### The refinement

`Refinement` is `Reporting => (CrashSpec => ImplementsOutcome)`, the property of the run
`promise` for any number of requests, contended features set aside. Three facts make it:

1. `ConfigByVerdict`: the agents hold what the verdicts say (`ConfigFollows`), from
   the claims above: a SUCCESS is `Done`, a pending item or a FAILED one, but for
   what was lost, is `AsFound`; in particular `disturbed` never comes up. So the abstract
   `config` is a function of the verdicts and the two sets of lost features, and steps
   of agents and ends of threads, which touch neither, stutter (`BackgroundRefines`).
2. A step of a thread leaves the verdict and the lost features of every item but
   the current one alone (`ItemStands`, `LostAtWork`): `BeginItem` is `Begin`,
   `RestoreDone` is `Succeed`, `BackupFailedSkip` and `UndoDone` are `GiveUpItem`,
   `SkipUnknownGroup` is `SkipItem`, and every other step but `Reply` stutters. That includes
   the entry version 1.0 writes before it rolls back: the item is still at work
   (`FailingV1SameOutcome`).
3. `Reply` is `Answer` (`StatusFollows`): from `Books` and from `EntriesKept` and
   `LeftOff`, which say whose entries are in the list and how far a thread had come when
   it went to answer. FAILED always leaves an item undecided.

### A request sent again

`RetryRestores` and `RetryRollsBack` are about `AskAgainSpec`: one request, `Last`, takes its
first step when all others, however many, are answered or lost. `Last` and they write the
same features, so that `AInv` says little of them: its claims are the business of one
thread each. `RetryInv` says that the claims of `Last` hold **of the agents although the
mailboxes may be full of what others sent**:

* `InLine`: in every mailbox, what the others sent is before all that `Last` sent. A thread
  that is answered or lost sends nothing, mailboxes are FIFO, and a death of the daemon
  leaves them in order.
* A reply that reaches `Last` answers the last message `Last` has in that mailbox
  (`MailboxesInOrder`), which by `InLine` is the only one there: the mailbox is empty
  after it (`ServedAlone`). So on every reply, to a backup, a restore or a roll-back, the
  feature is `Settled`: no message of anybody that would change it is in a mailbox.
* `LastHolds`: what `Last` claims as done is its own configuration, what it claims as found is
  its backup, what a reply has just brought is what the agent holds, and all of these are
  settled. A settled feature is changed by no agent, by no death and by no reboot, and stays
  settled until `Last` itself writes it, which ends the claim.

Together with `CrashInv` it is inductive: `StepKeepsRetry` has a case for a step of an earlier
request (then `Last` has not begun, `NotYet`), of `Last`, of an agent, of a death and of a reboot.

### Saves

`SaveInv` has the same mailboxes, and per thread `SaveCall` (it waits only for the
feature it is at), `SavedSoFar` (a group in the payload is complete but for what is
left of the one being saved) and `SaveBooks` (`allGroupsSaved` is up exactly when no
group that was asked for and is behind is missing; in one direction only when the
request names a group twice). `SaveTypes` needs no hypothesis, the others `Reporting`, for
the reason above: `MCSaveEmpty.cfg` shows that `PayloadGroupsComplete` fails without it.

### Saves next to restores

All of the above is about threads of one kind. `ServerAgreement` is
`Reporting => (ServerSpec => [](AInv /\ SaveInv))`: any number of restores and saves at
once. A step of an agent is a step of `Next` and of `SaveNext`; what is to be shown is that
a thread of one kind leaves the invariant of the other alone. A save puts nothing into
a mailbox that would change a feature (`SaveStepSends`), so no claim of a restore
becomes late by it, and no thread's step touches another's messages or reply. That is
why `NothingLate` says of the messages *that change something* only that they come from
a restore and are about its features. `ServerKeepsPromises` draws from it that the properties of
restores and of saves all hold in company.

`SavedReflects` is `Reporting => (SaveAfterRestoreSpec => []SaveReflectsRestore)`. `Reflects(f, d)`
says that d is what the responses of all restores say of f. It holds of every feature
and what its agent holds, at any time (`StoreReflects`: a SUCCESS is `Done`, a FAILED
one left is `AsFound`, and a feature nobody asked for is not written), and it depends on
nothing but the books of the restores. `ReflectInv` adds when a save may run: before the
first step of a save there is nothing in its payload, afterwards every restore is answered
and its books are closed (`AnsweredIsOver`). So what an agent replied stays what
the responses say, however long the save takes and whatever late message of a restore is
carried out between two of its calls.

### The daemon

`SrrDaemonProofs`: for any number of messages, any subjects that include the four known
ones, and any bounds. All from `DInv`: the daemon listens exactly in the phases after
`Listen`, the handlers are bound from `Bind` on, and a thread runs only while the daemon
listens. The lemma `Dispatch` says what `processRequest` returns with all handlers bound,
`EndKeepsD` that the end of the process, whichever way it comes, takes its threads along.

### The command line tool

`SrrCommandProofs`: for all tables, contents, command lines and configurations, and any
number of runs, edits, configurations and restores at work. `CommandInv` has these parts
beside the types and the properties themselves.

* `DocumentOK`, of the file and of the standard streams: the features of a group are
  its own, each at most once, and either ascend or descend in priority. That is what an
  edit can do to what a save wrote: changing a content or taking one out keeps the
  order, and reversing it turns one into the other. The digest next to them stays what
  `evalDataIntegrity` took of the device that was saved (`SavedAs`).
* `InProgress`: a run that has not ended has shown no status; what a save asks for is what
  it was to ask for, unless an error was printed; and from its start on a restore keeps
  an edited payload out (`KeptOut`).
* `JobsOK`: a job that was refused never gets to a group, and one at a group has a payload
  with all that group must have (`JobOK`); at most one job is of the present run and it is
  at what that run has read; a run that began alone has no other, and none once it was
  answered. As long as nothing has failed, that job's features behind it are on the
  device (`Held`), which is what SUCCESS then says.
* From the first, `SortArranges`: whatever the order in the file, `checkDataIntegrity`
  sorts the features to the ascending list, and two ascending lists of the same features
  are the same list (`AscendingAgree`). So `DigestTells`: **the digest fits exactly the
  groups that say what was saved**, no matter in what spelling and order. `IntactComesIn` is
  one direction of it, `EditedStaysOut` the other; `SavedComesBack` adds `Held` and that each
  feature of a group nobody has changed gets its own data (`DataForIs`).

The model leaves open which ascending arrangement a sort yields; that there is just one is
what needs priorities that differ within a group (`TablesAssumption`) and
`FeaturesListedOnce`: `initSrrGroups` adds no feature to a group twice.

TLC checks inductive invariants too: `IInv` and `AInv` in `restore`, `SaveInv` in `save`.
`CommandInv`, `RetryInv` and `ReflectInv` hold of the instances of `MCCommand.cfg`, `MCRetry.cfg` and
`MCSaveAfterRestore.cfg` as well; the runs list the properties that follow from them instead.

### Only model-checked

Liveness, out of the prover's reach: `EveryRequestAnswered`, `EverySaveAnswered`,
`EveryQueryConcluded`, `InterruptEnds`.

Every safety property of the passing runs is stated by a theorem.

## 5. Not modelled, and the plan

Not modelled: member names and layout of JSON and protobuf, names and descriptions
of groups and features, the regular expression of the pass phrase, the shell call
that checks a password, the command lines' `--help` and the daemon's configuration
file, files of version 1.0 and 2.0 in the command line tool, packaging, tests. Left
out for want of a statement in the code: what a save next to a restore may mix, and
what a failed restore next to another one of the same group rolls back to.

What could come next: a save next to a restore that is still under way, once somebody says
what its payload may mix; saves in a process that ends (`SrrCrash` has restores only).
