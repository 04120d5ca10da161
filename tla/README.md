# Verification of the Atlas / AssessHub toolkit

A TLA+ development kept beside the Cisco migration assessment toolkit. It
models the parts of the program whose correctness depends on the order of
events (interrupted file operations, concurrent requests, restarts, clocks),
checks them with TLC on small instances, and proves some of the results with
TLAPS for every value of the constants. Paths below are relative to the
repository.

## 1. The system

The repository holds a Python analysis engine, a local web application, a
portable Windows distribution with its updater, a viewer and a knowledge site.

| Component | State | Operations | What is hard about it |
|---|---|---|---|
| **Portable updater** `portable/update_transaction.ps1` | slots `Atlas`, `Atlas.incoming`, `Atlas.previous`, `Atlas.retired`, quarantine; detached data; journal; rollback-slot receipt | update, rollback (with or without database restore), recovery, reversal | a sudden end between any two file operations, also inside recovery; slots recognised by hash |
| **Execution war room** `webapp/backend/{app,execution,storage}.py` | run record (`state_json`), comparison receipts and trial sources, snapshots, process clock | start, step, check, close-out, event, finish, compare, delete; upload and delete snapshots | several processes on one SQLite file, a lock per process, comparisons computed without a lock, stamps from different clocks |
| **Maintenance handoff** `portable/maintenance.py` | pointer, request, result, helper copies, lock | request, worker, recover, receive, first install, retire helpers | which process is alive decides; a worker, a launcher or the machine ends between two files |
| **Saved plans** `webapp/backend/{storage,app}.py` | revisions, selection events, three markers per snapshot | load, save, select, export, delete guards | an optimistic selection, work outside the lock, limits 64 and 256 |
| **Engagement gate ledger** `cisco_toolkit/gate_state.py` | one JSON file and its sidecar lock | sign, withdraw, bind, enforce, override, show | decisions read without the lock; a lock that gives up after a timeout |
| **Snapshot store boot** `webapp/backend/storage.py` | the database file, its copies, schema, seals and carriage projections | check, copy, rotate, migrate, resume | a second process, clocks set back, an end between two transactions |
| **Ingestion and redaction** `webapp/backend/ingest.py` | output folder, stage, `.replaced`, receipt, marker, lock | render, verify, promote, roll back | errors in a rollback, a kill between two moves, the next run |
| **Embedded Scope privacy** `webapp/backend/{app,storage}.py` | status and watermark of each server, rows | insert, observe, recheck, serve, withdraw | inserts of other servers; a status read after its check |
| Campaign gates `webapp/backend/gates.py` | one row per wave and gate | sign, withdraw, list | last writer wins |
| Collector `COLLECT_PARSE_V3_23_0.py`, `cmdio.py` | capture files, result lists | collect, parse, bind, finalise | worker failures, completion order |
| Custody chain `manifest.py`, `input_custody.py`, `clock.py` | manifests linked by hash | write, verify | interrupted runs |
| Algorithms `fib.py`, `aclcheck.py`, `failover.py`, `cutover_sim.py`, `html.py` gate, `transition_*` | none | snapshot to verdict | corner cases of data, no interleaving |
| Interfaces and tooling: routes and documents, frontend, `atlas-scope/`, `master-reference/`, native IPC, release build, tests | none that others rely on | | |

The components in bold are modelled.

How they meet: the collector writes captures and a snapshot; the web
application ingests it into the store; planning and the cutover gate are
computed from stored snapshots; a war-room run is started from the plan of a
snapshot and is compared with later ones; the updater replaces the
application around the store's data directory, started by the maintenance
handoff. `PROJECT.json` lists every component with its status and every
hazard with its line.

## 2. Plan

Ordered by what an operator would lose if the code were wrong. Built, in this
order: the updater with its abstract specification `AtomicRelease`
(section 3), the war room with `ExecutionRecord` (4), the maintenance handoff
in front of the updater (5), saved plans (6), the gate ledger (7), the Scope's
privacy withdrawal (8), redaction (9), the store's boot: copies and carriage
upgrade (10).

What is left, in order of worth:

1. `CollectorRun`: the two thread pools and the binding of captures to
   results; then the custody chain of successive runs;
2. algorithms as operators, checked against reference definitions: longest
   prefix match, first-match ACLs, the failover verdict lattice.

## 3. The portable updater

### Modules

| Module | Models |
|---|---|
| `AtlasSlots` | the destination directory: what is in each slot, the journal, the receipts; moves, removals, journal writes |
| `AtlasUpdate` | one action per durable step of an update, and `Recover-Update` |
| `AtlasRollback` | the same for a rollback, `Recover-Rollback` and `Restore-PreRollbackActive` |
| `AtlasTransaction` | invocations, sudden ends, Atlas in use; the properties |
| `AtomicRelease` | the abstract specification: install, update and rollback as single steps |
| `AtlasCustody` | the inductive invariant: where trees and data are at each label |
| `MCAtlas` | TLC instances |
| `AtlasTransactionProofs` | TLAPS proofs of every property that a passing run checks but the liveness one |

**Correspondence.** A slot's content is what `App-TreeHash` tells of it: an
application of `Apps`, `Torn` (matches nothing) or `NoApp`. A data directory
is a record of what the script can tell about it: absent, empty, bytes a
candidate wrote, or the client's, with the content of its database, the
databases kept under `release-backups` and the copy selected for a restore.
`pc` names the next durable step; `WriteState` steps bear the phase they
write, and `Crash` may come between any two steps. Everything the script
computes between two durable effects belongs to the action of the second. A
move carries the data directory inside the tree along, as
`Directory.Move` does. `Remove-ExactTree` is not atomic, so it takes two
steps, the first of which leaves `Torn`. A `throw` is `Refuse`: the script
ends and the journal remains.

Package verification, hashing and the probes of a candidate are read as
outcomes (passes, fails, creates data, alters its tree). The lock
`.Atlas.update.lock` makes the script the only one of its kind, so there is
one `pc`.

`Hazards` names environment behaviour beyond the ordinary: installing the
active release again, an Atlas that was copied and never launched, a candidate
that alters its own tree during a rollback's verification, and a writer in the
detached data directory.

### Runs

| Run | Question | Bounds |
|---|---|---|
| `atlas_safety` | custody of the data, slots and receipts; the atomic switch | 3 releases (symmetric), 3 transactions, 2 database contents, 2 sudden ends, reinstalling admitted |
| `atlas_disturbed` | an update never ends with data other than it sealed | 3 releases, 2 transactions, 3 contents, 2 ends, the other three hazards |
| `atlas_recovers` | every journal is recovered | 3 releases, 2 transactions, 2 contents, 2 ends, no hazard; fair |
| `atlas_reinstall`, `atlas_unlaunched` | each hazard leaves a journal that no recovery ends | the smallest that show it; fair |

Three transactions are the fewest in which an update finds both an
`Atlas.previous` to retire and, after it, a rollback of what it installed;
two sudden ends allow one in the operation and another in its recovery. Three
releases tell the active, the retained and the incoming tree apart. Two
contents of the database tell a backup from what was written after it.

**Fairness.** `Script` is weakly fair: a running script goes on unless it is
ended. `InvokeRecovery` is weakly fair: as long as there is a journal the
operator runs the recovery it names (`portable/README.md:43`: recovery is
explicit, and a pending journal refuses any other request at the maintenance
handoff).
Sudden ends are bounded and not fair, so the property says that recovery
converges once they stop.

### Proved

From `AppsAssumption`, `BoundsAssumption` and `HazardsAssumption`, for any
number of releases, transactions and sudden ends, and under every hazard:
`TypeCorrect`, `OneClientDirectory`, `DataNeverLost`, `BackupsNeverLost`,
`RestAttached`, `CandidatesKeptApart`, `SealedDataCommitted` and
`ReceiptBinds`; and `DatabaseKept` and `ReleaseImplemented`, under every hazard
but the writer in the detached directory. Such a writer replaces the database
behind the script's back, which nothing in the script can keep a copy of, and
which is a step of no atomic operation; TLC shows both properties false with
it.

`TypeOK` is inductive as it stands: it is split into `DiskType` and
`ControlType` (`TypeParts`), file operations and control have a lemma each,
every action a lemma built from them, and `NextType` combines them. Its
content beyond typing is that every journal the script writes has a phase of
the closed list `Read-State` accepts: no journal is unreadable by its own
recovery.

The custody properties are not inductive: whether a move takes the client's
data along depends on which slots are filled, and that on every earlier step
and on where an earlier script was ended. The invariant is in `AtlasCustody`,
in layers:

* `ControlInv`: a label is reached only under its own kind of journal, before
  or after the commit, with or without an active release;
* `Sound`: no data directory without a tree around it, none with anything in
  it but the client's or a candidate's, at most one of the client's. Every file
  operation preserves it where the places it touches are what the code tested;
* `DiskInv`: what the disk looks like under each kind of journal, whether a
  script runs or not. It is what survives a sudden end, so it names every
  combination of the four slots a recovery can find (`SwitchTrees`,
  `RollbackDisk`), among them two that arise only when a release is installed
  again over itself (`PriorTaken`, `PriorLost`);
* `ForwardInv`, `RecoverInv`, `RollbackInv`, `ReverseInv`: what a running
  script has established besides, label by label;
* `KeptInv`: the database each receipt names is among the client's backups.

* `DbInv`: under the journal of an update the sealed database is the one the
  journal names (`SealedDb`); under that of a rollback the database is the one
  the rollback found or the one it selected, where these differ the first is
  among the backups and the second is the receipt's, and until the data is
  detached it is still the first (`DbRollback`); and an operation about to
  remove its journal has the trees and the receipt it promises (`LandedDb`).

Every action has a lemma for its next label and for each layer it can
disturb; `NextCustody` combines them and gives, of every step, that it loses
no client directory, nothing kept in it and, but at five labels or when Atlas
writes it, not its database (`Survive`). For `DbInv` and the refinement the
actions are sorted first: most are `Routine`, which leave alone everything
that these are about (`Frame`), and one lemma settles all of those; the others
have a lemma each. `ReplacedDatabaseIsKept` follows from `DbInv` and `KeptInv`
at the five labels. For `ReleaseImplemented`, a step that is a `Frame` or leaves
the disk alone is a stutter; `WriteSlotPrepared` is the atomic update; removing
the journal is the rollback, the install, or a stutter, by `LandedDb`.

The layers were found with TLC on 3 releases, 4 transactions, one sudden end,
and on 2 releases, 3 transactions, 2 ends and all four hazards (`DbInv` without
disturbance), before they were proved; `MCAtlas` extends `AtlasCustody`, so a
configuration can name them.

Only the liveness property stays with TLC.

## 4. The execution war room

### Modules

| Module | Models |
|---|---|
| `ExecutionRecord` | `execution.py`: the record, its requests as functions, the outcome; its `Spec` is the atomic promise |
| `WarRoom` | routes and storage: reads and compare-and-swap saves by several processes, comparisons, the receipt authority, snapshots, clocks, restarts; the properties |
| `MCWarRoom` | TLC instances |
| `WarRoomProofs` | TLAPS proofs of every property that a passing run checks |

**Correspondence.** `run` is the `executions` row, `run.rec` its
`state_json`. A mutation is two actions: `MutateRead` (under
`MUTATION_LOCK`, which is per process: get, check, apply) and `MutateSave`
(`save_execution_if_unchanged`). Two equal `state_json` texts are one state
here because every mutation but a check's reset logs an event and every
comparison writes a receipt id; a flight therefore carries `fresh`, lost when
anything else commits. The unlogged reset that changes nothing is treated as a
commit, which only makes more saves conflict. `CompareRead` and
`CompareAppend` hold no lock in between. `Authority` is
`_execution_receipt_authority_locked`, a fold over the receipts that rebuilds
the latest comparison and the trial anchor; every read and every save goes
through it. `UploadBegin` stamps a snapshot, `UploadCommit` gives it its id.
`Stamp` is `_now`: pushed past the last stamp of its own process only.

**Abstracted.** One campaign and one run at a time; one upload, one mutation
and one comparison in flight per process; "FAIL" stands for every verdict but
PASS; the verdict itself is drawn, since it depends on the two snapshots and
the intent supplied (a PASS with a failed or unverified trial is excluded, as
the gate excludes it). Only the stamps that somebody reads are drawn: a
step's, the start's, the end's and an upload's. Texts, names and the wording
of events are left out. The delete guard of a snapshot with saved plans
is part of `SavedPlans`.

### Runs

| Run | Question | Bounds |
|---|---|---|
| `warroom_shared` | two processes: does every history of the run equal one of atomic mutations; is a closed wave frozen | 2 processes (symmetric), 1 wave, step and check, 4 instants, 2 snapshots, 1 receipt, the requests that disturb each other |
| `warroom_evidence` | success stands on a passed comparison of the final steps | 1 process, 5 instants, 2 snapshots, every request, prompt or late collection stamps, both snapshots deletable, restarts |
| `warroom_trials` | a failed trial is cleared by a newer survival only; the authority agrees with the cached leaves; nothing a receipt names is deleted | 1 process, 9 instants, 7 snapshots, 2 receipts, trials that fail, survive too early, survive, or decide nothing |
| `warroom_clock` | a finished run can be read again (it cannot) | 1 process that restarts, 4 instants, a clock that may step back by 2 |

A lost update needs two flights on one record: one wave, step and check and
two processes suffice. Five instants order start, step, collection, upload and
end; a reset and a second implementation fit as well. A trial has three
snapshots of its own and a re-trial three more, whose first is the failing
one's recovery in the shortest refused case; with the snapshot before the run
that is seven.

No liveness is claimed here: every request ends by itself, and nothing in the
code promises that an operator finishes a run.

### Proved

From `PlanAssumption`, `LimitsAssumption`, `ClockAssumption` and
`OfferAssumption`, for any number of processes, waves, steps, checks,
snapshots and receipts:

* `SignedRecordKept == Spec => SignedRecordFrozen`. The invariant `SignedInv`
  is needed because a save writes what was read earlier: a fresh flight's
  record agrees with the stored one on every wave that is closed
  (`MutationsOK`), and the stored record has the fields of a record (`RunOK`).
  `ApplyKeepsSigned` shows that an allowed request preserves closed waves;
  `OutdatedOK` that a commit makes every other flight harmless.
* `SourcesKept == Spec => []ReceiptSourcesKept`. `KeptInv` adds that a
  comparison in flight and a receipt name snapshot ids of the store, and that
  a store without a run has no receipts. The two ways to break it are an append
  (`Admitted` asks for every source in the same transaction) and a deletion
  (`Receipted` is asked in the same transaction).

* `TypeCorrect`, `Reconciles`, `Evidenced`, `FailuresStand` and
  `RecordImplemented`, from one invariant, `RecordInv`. `Authority` is a fold
  over the receipts, and a proof about it an induction over their number.
  The library's induction theorems take an operator, which the provers cannot
  instantiate; `SetInduction` takes the set where the claim holds instead, and
  follows from the well-foundedness of `<` on `Nat`. With it `FoldExists` and
  `FoldUnique` turn the fold into a function of the receipts, and
  `AuthorityAppended` says what one more receipt does to it. Beyond that the
  invariant says what a flight read (`EditsOK`, `ComparedOK`, `UploadsOK`),
  that receipts name snapshots numbered after the run's start (`LateOK`,
  `NumberedOK`), that only a run the receipts clear is recorded as a success
  (`ClearedOK`), and that a failed trial without its re-trial holds the anchor,
  itself or through a newer trial of its scenario that did not survive either
  (`RatchetOK`). `RatchetOK` is what relates the two places that write the
  trial ratchet. The refinement needs that a fresh flight's record is a request
  applied to the stored one (`EditsOK`), so that its save is one atomic
  mutation.

Only model-checked: nothing that a passing run of this section checks.
`warroom_clock` shows a property that is false.

## 5. The maintenance handoff

`AtlasMaintenance` models `portable/maintenance.py`: Atlas copies itself into
a private helper, publishes a pointer to it and exits; the helper waits for
it, runs the updater's script under the lock and leaves one terminal result.

**Correspondence.** `step` is where a process of the handoff is, `pointer` is
`Atlas.maintenance.json`, `helper` the private copies with their
`request.json`, `result` the result file of each nonce, `handoffLock` the
handle on `.Atlas.maintenance.lock`. `Admit` is `_pending_handoff`: it decides
from the files and from which recorded process lives. `Prepare` retires
completed helpers first, `SpawnFails` is the error path with
`_restore_owned_pointer`, `NameWorker` publishes the worker's identity,
`CheckResult` and `WriteResult` are `_finish`. The script is section 3's, here
begun, behind a journal, completed or undone; a second one finds its lock
held. Process identity (pid and creation time) is the process itself.

**Faults** are chosen by `HandoffFaults`: a killed process or a loss of power,
a failing start of a child, a failing restore of the pointer, a script that
outlives the worker that waited for it, a result that cannot be written.

**Checked** in `file_locks` with two requests, one recovery, the first
installation and one kill: `RecoverableJournal`, `AnsweredNeverBegins`,
`WorkerAnswers`. Two requests are the fewest of which one finds the other's
pointer; one kill leaves any one of the files behind. The last two faults are
left out there: with an orphaned script `AnsweredNeverBegins` is false, and
without its result a worker has not answered (section 11).

**Proved** (`AtlasMaintenanceProofs`), for any number of requests, recoveries
and kills as long as no script outlives its caller: `TypeCorrect`,
`JournalsAreRecoverable` and `NeverReplayed`. `RecoverableJournal` alone is not inductive: a
pointer is replaced and helpers are retired by a launcher that has looked at
the journal steps before. The invariant adds who holds the lock at which step
(`LockOK`), that there is no journal while an admitted launcher holds it
(`NoJournal`), and that a running script is waited for by the process under
the lock and is that of the pointer's request, whose helper is there
(`ScriptOK`). `NeverReplayed`, that `AnsweredNeverBegins` holds, needs to know
who may answer a request and when, which is `AInv`: a launcher that refuses
the recorded request has the lock and its worker has ended (`Refusing`), a
worker that waits and can still be authorised is not answered
(`WaitingUnanswered`), the pointer a failed start puts back names nobody who
waits (`PreviousAnswered`), and the script of a request that has not begun is
of one without an answer (`ScriptUnanswered`). With `IInv` it is inductive.
Only `WorkerAnswers`, a liveness property, stays with TLC.

## 6. Saved plans

`SavedPlans` models the plan revisions of `storage.py` and their routes.
`events` are the rows of `plan_selection_events`, `markers` the three columns
of the snapshot row, `view` what a planner's tab last loaded, `job` a save or
export between its two transactions. Every writing action repeats the reads
and the check of the whole history (`Verifies`) its transaction makes. Plan
bodies and digests are values, so a revision is its number. `basis` is not
stored: it is what the caller had seen.

**Checked** in `stored_state` with two planners, two assessments of one
campaign, 2 revisions, 4 selections and 5 event ids: `HistoryVerifies`,
`SelectionsSeen`, `PlansKeepAssessment`, `ExportPinned`. Every limit (64
revisions, 256 selections, the last SQLite id) is reached, in each order.

**Proved** (`SavedPlansProofs`), for every number of planners and snapshots and
every limit: `TypeCorrect`, `HistoriesVerify`, `SelectionsAreSeen`,
`AssessmentsKept`. Save and select are shown to be one kind of publication;
the invariant needs only that the event table's high watermark is above every
snapshot's last event (`IdsBelow`). `DeliveredAsPinned`, that `ExportPinned`
holds, needs `PinInv`: an export remembers the last event when it was read,
ids grow along a history (`LastIsLatest`), and the remembered event still has
the remembered id (`ExportsMarked`); equal ids then mean that nothing came
between.

## 7. The engagement gate ledger

`GateLedger` models `gate_state.py`. A call reads the ledger without a lock,
decides, and goes through `_locked_update`: lock, read again, apply, replace,
release, each a step. `Refuses` and `Applied` are the change under the lock;
`_save` failing, a lock that times out or is not supported, a process killed
and a file moved away are the environment's (`Faults`). A row of the audit
array keeps its event, its subject, the engagement declared and whether its
author had found a ledger; wording, times and authors are left out.

**Checked**: `stored_state` has two writers, two engagements, three calls, a
kill, one removal of the file, and a lock that times out: `AnswersBacked`,
`GatesMatchAudit`, `EnrolledDeliberately`, `BindingKept`. Three calls are a
signature and two that race after it. `file_locks` has kills and failing
operations, and checks that nobody waits for ever (`Answered`).

**Proved** (`GateLedgerProofs`), for any number of writers and calls and under
every fault: `TypeCorrect`, `TrailIsTheRecord`, `NeverResurrected`; and as long
as nobody has gone on without the lock, `NothingLost` and `BindingsKept`. The
first three rest on what a process carries between its steps being a sound
ledger (`Sound`) and a well made row (`Pending`); the last two add that the
ledger a process holds under the lock is the file's.

## 8. The privacy of the embedded Scope

`ScopePrivacy` models `_current_scope_status` of `app.py` with the insert path
of `storage.py`: a server hears of its own inserts through an observer, before
the commit, and of others' through a watermark over row ids that every request
for the viewer advances. A snapshot is its id and whether the build embeds its
digest.

**Checked** in `scope_privacy` with two servers, two request threads each and
two ids: `NeverServedOverStored` (no request is answered with a build that
embeds a snapshot stored before the request began) and `WithdrawnForGood`. Two
ids let one row be inserted, rolled back or deleted while another is passed;
two threads race between the watermark and the withdrawal.

**Proved** (`ScopePrivacyProofs`) for any number of servers, threads and ids:
`TypeCorrect`, `NeverServed`, `WatermarkSafe`, `StaysWithdrawn`. The invariant says that ids are
given once (`IdsGiven`), that a thread between its read and its decision holds
the server's recheck lock (`LockHeld`), that it has passed every row stored
when it began (`Passed`), and that what has been passed is not embedded in a
served build, unless the thread under the lock is about to withdraw it
(`PassedIsClean`). The observer plays no part in the argument for requests
that begin after the commit: the recheck carries it.

## 9. Redaction into one folder

`Redaction` models `run_redaction_folder` of `ingest.py`: the lock, rendering
into a private stage, verification, moving the old set aside, moving the new
one in, checking it again, the receipt, and the way back when a step raises. A
file's content is the run that rendered it, or "other" once another program
has changed it; names are numbers, since the code visits them in order. What a
rollback swallows is counted in `slips`.

**Checked** in `file_locks` with two runs, two documents, at most two faults:
`NoStrangerUnderReceipt`, `FailureRestores`, `PriorSetKept`, `EveryRunEnds`.
Two faults let an operation fail and then its rollback; two documents let one
be moved and not the other.

**Proved** (`RedactionProofs`) for any number of runs, documents and faults:
`TypeCorrect`, `CertifiedSetKept`, `FailureLeavesPriorSet`,
`ReceiptCoversItsOwn`. The invariant (`Custody`) says, phase by phase, for each
name whether it is where the run found it, moved aside, or covered by a file
of the run; a later run can only lose a set it holds aside.

## 10. The snapshot store's boot

**`StoreBackups`** models `_boot_hardening`: the integrity check, the
comparison of modification times, the copy and the rotation, by processes that
may overlap, under clocks set back, a truncated or torn file, and kills. A
copy is named by its second. A commit always advances the clock; partial files
never match an owned name and are left out; the classification of the copies
only words a warning. Two processes in one second may overwrite each other's
copy, which the code accepts.

**`CarriageUpgrade`** models `Store.__init__`'s migration and
`_resume_pending_carriage_upgrades`: one transaction seals every row and marks
it pending, then each is staged outside every lock and published in a
transaction of its own. A source is an edit number, a seal the edit it was
taken from. The scripts of a fresh store, the column details of the first
version, and the backfill of receipt and trial authority are left out; that an
upgrade completes is not claimed, since a refused boot stays refused.

**Checked** in `stored_state`: `NothingUnbacked`, `EvidenceKept`, `NewestKept`
(two processes, 2 copies kept, 4 instants, one clock set back, one damaged
file) and `PartsAreOfTheSeal`, `NeverResealed` (two processes, 4 snapshots of
which one is malformed and one too large, one more id, 2 kills, 2 deletions, 2
changes behind the program's back). Two kept copies are the fewest of which a
rotation can take the wrong one.

**Proved** (`SnapshotStoreProofs`), for any number of processes:
`TypeCorrect`, `ProjectionsAreOfTheSeal`, `SealedOnce` of the upgrade, from
`Unmarked` and `OpenedIsMigrated` (what a process saw of the schema before the
transaction stays true enough); `BackupsTypeCorrect` and `RotationKeepsNewest`
of the copies, from `Condemned`: every name a boot is still to unlink has
`Keep` newer names above it. Unlinking the oldest of them first keeps that true
of the others, also when two processes rotate from different lists.
`CampaignCopiesStay` and `BootsLeaveACopy` need `BackedInv`. While processes
come one after another, what a boot read is still what is there, and every copy
holds a campaign (`Alone`). With a clock that only goes forward, names follow
dates, a copy dated no earlier than the store is of no earlier edit, and the
copy a boot relies on has the newest name and is not condemned (`Timely`). Both
conditions are those of the properties themselves: without the first the code
displaces evidence, without the second it rotates away the copy it made
(section 11).

### The two combined runs

`MCStoredState` puts saved plans, copies, carriage upgrade and ledger side by
side, `MCFileLocks` the handoff, redaction and ledger. Within each, the
components share no variable; `part` says which one moves, so each is explored
by itself and nothing is claimed of them together. Two restrictions keep
`stored_state` small: two processes have the store open at once only where no
clock was set back and no file damaged; and of a kill, a vanished ledger and a
writer that goes on without the lock only the first two are combined, the kill
first. The proofs have neither.

**Fairness** in `MCFileLocks` is weak fairness of each started process: the
script, a launcher that has begun, a worker; a redaction run; a ledger call.
Each polls or waits with a timeout and does nothing else, so a scheduled
process goes on. Kills and faults are bounded and never fair. The remaining
runs claim safety only.

## 11. Findings

| Run | Finding |
|---|---|
| `atlas_reinstall` | with one release in both slots recovery takes the wrong branch and refuses for ever (`update_transaction.ps1:746`, `:909`) |
| `atlas_unlaunched` | an update of a never launched copy, ended before the data directory is created, cannot be recovered (`:919`) |
| `warroom_clock` | after a restart with a clock set back, a run can be saved with an end before its start, and then no longer be read (`storage.py:651`) |

Each run checks one property and TLC finds the shortest behaviour that
violates it; `PROJECT.json` quotes the text of the repository it contradicts.

Met while modelling, visible in the modules, and without a run of their own:

* `update_transaction.ps1:784`: a rollback candidate that alters its own tree
  during the last verification matches no recorded hash and cannot be moved
  away: the reversal refuses for ever.
* `maintenance.py:201`: a dead handoff without a result is recorded as refused
  with "no request was replayed" although its update may have been applied.
* `maintenance.py:159`: liveness is asked of the worker, not of the script it
  started; a script that outlives a killed worker begins an update already
  recorded as refused.
* `maintenance.py:729`: when the pointer cannot be restored, the helper it
  names is removed all the same, and every later request is refused.
* `gate_state.py:485`: a writer that timed out on the lock may save a ledger
  without an override that was acknowledged meanwhile.
* `gate_state.py:931`: ownership is asked before the lock only; a refusal's row
  can be appended to another engagement's ledger.
* `ingest.py:1569` and `:2070`: the promotion moves an earlier run's
  DO-NOT-SEND marker away, of which the code says that nothing removes it.
* `ingest.py:1551` and `:1919`: a failure inside the promotion leaves no
  marker, of which the code says that every failing exit leaves one.
* `storage.py:1867`: with the clock set back, the copy just made sorts first
  and is rotated away by the same boot, against `portable/README-FIELD.txt:138`.
* `storage.py:1854` and `:1797`: a second process may delete the last campaign
  between the count and the copy; the empty copy then displaces evidence.
* `storage.py:1713`: three statements without a transaction; a publication by
  another process in between refuses the boot with "pending carriage upgrade
  has uncommitted parts".

## 12. What is not modelled

The plan of section 2 lists the components still to come. Left out for good:
parsers, report and document writers, the transition verifier and the
redaction scan (functions of immutable input, tested by their outputs; they
are most of the repository's lines, so the mapped share of the whole stays
small); campaign gates (one upsert that compares nothing, about which a model
could only restate the statement); release building and signing (one pass over
files); the native window and IPC (operating-system handles); the frontend,
the viewer and the knowledge site (no authority of their own). Of ingestion,
parsing, archive checks and the copy-back of raw captures are left out. Damage
to the journal, the war room's records or the receipts by the disk itself is
outside every model.

Liveness (`EveryJournalRecovers`, `WorkerAnswers`, `EveryRunEnds`,
`Answered`) is model-checked only, in every module: it rests on fairness and
`ENABLED`, which the provers do not reach. Where a proof needs induction, as
over the war room's receipts, it is done with a set (section 4); no module
declares a recursive operator.

## 13. Running

    tlc -workers 2 -config MCAtlas.cfg MCAtlas.tla
    tlc -workers 2 -config MCWarRoom.cfg MCWarRoom.tla
    tlc -workers 2 -config MCScopePrivacy.cfg MCScopePrivacy.tla
    tlc -workers 2 -config MCStoredState.cfg MCStoredState.tla
    tlc -workers 2 -config MCFileLocks.cfg MCFileLocks.tla
    tlapm AtlasTransactionProofs.tla

and `tlapm` likewise for `WarRoomProofs`, `AtlasMaintenanceProofs`,
`SavedPlansProofs`, `GateLedgerProofs`, `ScopePrivacyProofs`,
`RedactionProofs` and `SnapshotStoreProofs`. A configuration's name begins with
its module's. Each property of a passing run has a mutant among the
definitions marked "mutant": the change of the code that the property would
catch. The type invariants of the modules of sections 5 to 10 are proved and
therefore not among the runs' properties.
