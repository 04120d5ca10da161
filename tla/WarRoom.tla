------------------------------- MODULE WarRoom ------------------------------
(***************************************************************************)
(* One cutover-execution run over the snapshots of its campaign, as the    *)
(* AssessHub server processes serve it: webapp/backend/app.py (the         *)
(* execution routes), execution.py and storage.py.  Several processes      *)
(* share one SQLite file; each has a mutation lock and a clock of its own. *)
(*                                                                         *)
(* A route reads the run, works on its copy and saves it only if the       *)
(* persisted state_json is still the one it read.  Two equal state_json    *)
(* texts are one state: every mutation but a check's reset logs an event,  *)
(* and a comparison writes a new receipt id.  A flight therefore carries   *)
(* "fresh", lost when anything else is committed.                          *)
(***************************************************************************)
EXTENDS Integers, Sequences

CONSTANTS
    Waves, Steps, Checks, WaveOf, Blockers, Clear, Scenarios,   \* ExecutionRecord
    MaxTime, MaxSnaps,      \* bounds, ExecutionRecord
    MaxReceipts,            \* bound: comparison receipts
    Offered,                \* bound: the requests made, each <<op, to>>
    Comparisons,            \* bound: the comparisons asked for
    Discarded,              \* bound: the snapshots somebody tries to delete
    Procs,                  \* server processes
    Restarting,             \* bound: those that restart
    Ticks,                  \* what the wall clock may move between two stamps
    Skews                   \* how long before its upload a snapshot says it was collected

VARIABLES
    snaps,      \* snapshots: the row with each id
    nextId,     \* the ids of snapshots given so far
    run,        \* the executions row and its state_json
    receipts,   \* execution_comparisons with their trial sources, in id order
    wall,       \* the machine's clock
    last,       \* _LAST_NOW of each process
    upload,     \* process: the snapshot being prepared, stamped
    mut,        \* process: the mutation holding MUTATION_LOCK
    cmp         \* process: the comparison being computed
vars == <<snaps, nextId, run, receipts, wall, last, upload, mut, cmp>>
files == <<snaps, nextId, run, receipts>>
clock == <<wall, last>>

(* The record in the run's state_json; every mutation one atomic step. *)
Atomic == INSTANCE ExecutionRecord WITH record <- run.rec
ASSUME PlanAssumption ==
    WaveOf \in [Steps \cup Checks -> Waves] /\ Blockers \subseteq Checks /\ Clear \in BOOLEAN
ASSUME LimitsAssumption == MaxTime \in Nat /\ MaxSnaps \in Nat \ {0}
ASSUME ClockAssumption == Ticks \subseteq Int /\ Skews \subseteq Int

SnapIds == Atomic!SnapIds
Absent == [state |-> "absent", collected |-> 0, uploaded |-> 0]
Rows == [state : {"absent", "kept", "deleted"}, collected : Int, uploaded : 0..MaxTime]
NoTrial == [status |-> "none"]
Trials == [status : {"observed_survival", "observed_failure", "not_verified"},
           scenario : Scenarios, pre : SnapIds, post : SnapIds]
Receipts == [after : SnapIds, verdict : {"PASS", "FAIL"}, binding : Atomic!Bindings,
             trial : {NoTrial} \cup Trials]
(* The gate never passes a trial that failed or was not verified; "FAIL"    *)
(* stands for every verdict but PASS.                                       *)
Failing(trial) == trial.status \in {"observed_failure", "not_verified"}
ASSUME OfferAssumption ==
    /\ Comparisons \subseteq
          [after : SnapIds, verdict : {"PASS", "FAIL"}, trial : {NoTrial} \cup Trials]
    /\ \A c \in Comparisons : Failing(c.trial) => c.verdict = "FAIL"
    /\ Discarded \subseteq SnapIds /\ Restarting \subseteq Procs /\ MaxReceipts \in Nat
NoRun == [rec |-> Atomic!NoRun, before |-> 0, started |-> 0, ended |-> 0, watermark |-> 0]
Idle == [fresh |-> FALSE]

Kept(i) == snaps[i].state = "kept"
Running == run # NoRun
Live == Running /\ Atomic!Live(run.rec)

-----------------------------------------------------------------------------
(* storage._now: the wall clock, pushed past this process's last stamp.     *)
(* A process that has just restarted has no last stamp.                     *)
Stamp(p, t) == \E d \in Ticks :
    /\ wall + d \in 0..MaxTime
    /\ wall' = wall + d
    /\ t = IF wall + d > last[p] THEN wall + d ELSE last[p] + 1
    /\ t <= MaxTime
    /\ last' = [last EXCEPT ![p] = t]

(* A commit outdates every copy of the run read before it. *)
Outdated(flights) == [q \in Procs |->
    IF flights[q] = Idle THEN Idle ELSE [flights[q] EXCEPT !.fresh = FALSE]]

-----------------------------------------------------------------------------
(* _execution_receipt_authority_locked: the receipts, in order, rebuild the *)
(* latest comparison and the trial anchor, or refuse the whole history.     *)
CompletedBefore(binding, t) == \A s \in Steps : binding[s].at < t
PostChange(i, binding) ==
    /\ snaps[i].state = "kept"
    /\ snaps[i].uploaded > run.started /\ snaps[run.before].uploaded <= run.started
    /\ snaps[i].collected > run.started
    /\ CompletedBefore(binding, snaps[i].collected)
    /\ snaps[i].collected <= snaps[i].uploaded
Newer(i, j) ==
    /\ i > j
    /\ snaps[i].collected > snaps[j].collected
    /\ snaps[i].uploaded > snaps[j].uploaded
TrialInOrder(trial, after, binding) ==
    /\ trial.pre < trial.post /\ trial.post < after
    /\ CompletedBefore(binding, snaps[trial.pre].collected)
    /\ snaps[trial.pre].collected < snaps[trial.post].collected
    /\ snaps[trial.post].collected < snaps[after].collected
    /\ CompletedBefore(binding, snaps[trial.pre].uploaded)
    /\ snaps[trial.pre].uploaded < snaps[trial.post].uploaded
    /\ snaps[trial.post].uploaded < snaps[after].uploaded
    /\ \A i \in {trial.pre, trial.post, after} :
          Kept(i) /\ snaps[i].collected <= snaps[i].uploaded

(* Mutant: an older survival clears the anchor. *)
RetrialOfAnyAge(anchor, trial) == trial # NoTrial /\ trial.scenario = anchor.scenario
Retrial(anchor, trial) ==
    /\ trial # NoTrial /\ trial.scenario = anchor.scenario
    /\ Newer(trial.pre, anchor.recovery)
(* The anchor after a receipt whose trial may move it. *)
AnchorAfter(anchor, trial, after) ==
    IF Failing(trial)
    THEN [status |-> IF anchor.status = "observed_failure" THEN anchor.status ELSE trial.status,
          scenario |-> trial.scenario, recovery |-> after]
    ELSE Atomic!NoAnchor

LatestOf(r) == [after |-> r.after, verdict |-> r.verdict, binding |-> r.binding]
Folded(a, r) ==
    [valid |-> /\ a.valid
               /\ PostChange(r.after, r.binding)
               /\ a.latest.after # 0 /\ a.latest.binding = r.binding => Newer(r.after, a.latest.after)
               /\ r.trial # NoTrial =>
                     TrialInOrder(r.trial, r.after, r.binding) /\ run.before < r.trial.pre,
     latest |-> LatestOf(r),
     anchor |-> IF \/ a.anchor = Atomic!NoAnchor /\ r.trial # NoTrial
                   \/ a.anchor # Atomic!NoAnchor /\ Retrial(a.anchor, r.trial)
                THEN AnchorAfter(a.anchor, r.trial, r.after) ELSE a.anchor]
Authority ==
    LET fold[n \in 0..Len(receipts)] ==
          IF n = 0 THEN [valid |-> TRUE, latest |-> Atomic!NoLatest, anchor |-> Atomic!NoAnchor]
          ELSE Folded(fold[n - 1], receipts[n])
    IN  fold[Len(receipts)]
(* get_execution returns the record with its derived leaves, or raises. *)
Readable == Authority.valid /\ (run.rec.status # "in_progress" => run.ended >= run.started)
Projected == [run.rec EXCEPT !.latest = Authority.latest, !.anchor = Authority.anchor]

-----------------------------------------------------------------------------
(* Snapshots: the upload is stamped before its row is inserted. *)
UploadBegin(p) ==
    /\ upload[p] = Idle /\ nextId < MaxSnaps
    /\ \E t \in 1..MaxTime, k \in Skews :
          /\ Stamp(p, t)
          /\ upload' = [upload EXCEPT ![p] =
                [fresh |-> TRUE, uploaded |-> t, collected |-> t - k]]
    /\ UNCHANGED <<files, mut, cmp>>
UploadCommit(p) ==
    /\ upload[p] # Idle /\ nextId < MaxSnaps
    /\ nextId' = nextId + 1
    /\ snaps' = [snaps EXCEPT ![nextId + 1] =
          [state |-> "kept", collected |-> upload[p].collected, uploaded |-> upload[p].uploaded]]
    /\ upload' = [upload EXCEPT ![p] = Idle]
    /\ UNCHANGED <<run, receipts, clock, mut, cmp>>

Sources(r) ==
    {run.before, r.after} \cup IF r.trial = NoTrial THEN {} ELSE {r.trial.pre, r.trial.post}
Receipted == UNION {Sources(receipts[n]) : n \in 1..Len(receipts)}
(* Mutant: only the snapshots of a receipt's comparison are protected. *)
DeleteSnapshotTrialUnguarded(i) ==
    /\ Kept(i)
    /\ \A n \in 1..Len(receipts) : i \notin {run.before, receipts[n].after}
    /\ snaps' = [snaps EXCEPT ![i].state = "deleted"]
    /\ IF Running /\ run.before = i
       THEN run' = NoRun /\ mut' = Outdated(mut) /\ cmp' = Outdated(cmp)
       ELSE UNCHANGED <<run, mut, cmp>>
    /\ UNCHANGED <<nextId, receipts, clock, upload>>
(* delete_snapshot_if_unreceipted; the rows of its runs go with it. *)
DeleteSnapshot(i) ==
    /\ Kept(i) /\ i \notin Receipted
    /\ snaps' = [snaps EXCEPT ![i].state = "deleted"]
    /\ IF Running /\ run.before = i
       THEN run' = NoRun /\ mut' = Outdated(mut) /\ cmp' = Outdated(cmp)
       ELSE UNCHANGED <<run, mut, cmp>>
    /\ UNCHANGED <<nextId, receipts, clock, upload>>

-----------------------------------------------------------------------------
(* Mutant: the high watermark of snapshot ids is not frozen. *)
StartRunUnmarked(p, b) ==
    /\ ~Running /\ Waves # {} /\ mut[p] = Idle /\ Kept(b)
    /\ \E t \in 1..MaxTime :
          /\ Stamp(p, t)
          /\ run' = [rec |-> Atomic!Started, before |-> b, started |-> t, ended |-> 0,
                     watermark |-> 0]
    /\ UNCHANGED <<snaps, nextId, receipts, upload, mut, cmp>>
(* create_execution: the start and the high watermark in one transaction,   *)
(* for a snapshot that still exists.                                        *)
StartRun(p, b) ==
    /\ ~Running /\ Waves # {} /\ mut[p] = Idle /\ Kept(b)
    /\ \E t \in 1..MaxTime :
          /\ Stamp(p, t)
          /\ run' = [rec |-> Atomic!Started, before |-> b, started |-> t, ended |-> 0,
                     watermark |-> CHOOSE m \in SnapIds :
                                      Kept(m) /\ \A i \in SnapIds : Kept(i) => i <= m]
    /\ UNCHANGED <<snaps, nextId, receipts, upload, mut, cmp>>

(* _mutate_execution_locked, under the process's lock: read and apply ...   *)
(* Only the stamps somebody reads are drawn, a step's and the end's.        *)
MutateRead(p) ==
    /\ mut[p] = Idle /\ Live /\ Readable
    /\ \E q \in Atomic!Requests, t \in 1..MaxTime :
          /\ <<q.op, q.to>> \in Offered /\ Atomic!Allowed(Projected, q)
          /\ IF q.op \in {"step", "finish"} THEN Stamp(p, t) ELSE UNCHANGED clock /\ t = 1
          /\ mut' = [mut EXCEPT ![p] = [fresh |-> TRUE, rec |-> Atomic!Apply(Projected, q, t),
                                        ended |-> IF q.op = "finish" THEN t ELSE 0]]
    /\ UNCHANGED <<files, upload, cmp>>
(* save_execution_if_unchanged gives the derived leaves the authority's value *)
(* and a finished run the outcome they allow.                                *)
Authorised(rec) ==
    LET r == [rec EXCEPT !.latest = Authority.latest, !.anchor = Authority.anchor]
    IN  IF Atomic!Live(r) THEN r ELSE [r EXCEPT !.outcome = Atomic!DeriveOutcome(r, r.status)]
(* Mutant: the save does not compare what was read with what is stored. *)
MutateSaveBlind(p) ==
    /\ mut[p] # Idle
    /\ IF Live
       THEN /\ run' = [run EXCEPT !.rec = Authorised(mut[p].rec), !.ended = mut[p].ended]
            /\ mut' = [Outdated(mut) EXCEPT ![p] = Idle] /\ cmp' = Outdated(cmp)
       ELSE mut' = [mut EXCEPT ![p] = Idle] /\ UNCHANGED <<run, cmp>>
    /\ UNCHANGED <<snaps, nextId, receipts, clock, upload>>
(* ... then save, or answer "missing", "conflict", "closed" or "authority_invalid". *)
MutateSave(p) ==
    /\ mut[p] # Idle
    /\ IF mut[p].fresh /\ Live /\ Authority.valid
       THEN /\ run' = [run EXCEPT !.rec = Authorised(mut[p].rec), !.ended = mut[p].ended]
            /\ mut' = [Outdated(mut) EXCEPT ![p] = Idle] /\ cmp' = Outdated(cmp)
       ELSE mut' = [mut EXCEPT ![p] = Idle] /\ UNCHANGED <<run, cmp>>
    /\ UNCHANGED <<snaps, nextId, receipts, clock, upload>>

(* compare_execution, which holds no lock while it computes: the gate's     *)
(* verdict depends on the intent supplied and the snapshots compared.       *)
CompareRead(p) ==
    /\ cmp[p] = Idle /\ Live /\ Readable /\ Atomic!Implemented(Projected.step)
    /\ \E c \in Comparisons :
          /\ Kept(c.after) /\ c.after # run.before
          /\ c.trial # NoTrial => /\ Kept(c.trial.pre) /\ Kept(c.trial.post)
                                  /\ c.trial.pre # c.trial.post
                                  /\ {c.trial.pre, c.trial.post} \cap {run.before, c.after} = {}
          /\ cmp' = [cmp EXCEPT ![p] = [fresh |-> TRUE, after |-> c.after, verdict |-> c.verdict,
                                        binding |-> Projected.step, trial |-> c.trial]]
    /\ UNCHANGED <<files, clock, upload, mut>>

(* Mutant: a comparison without a trial may follow an unresolved failure. *)
AdmittedUnratcheted(r) ==
    /\ \A i \in Sources(r) : Kept(i)
    /\ r.binding = Projected.step
    /\ Projected.latest.after # 0 /\ Projected.latest.binding = r.binding
          => Newer(r.after, Projected.latest.after)
    /\ r.after > run.watermark /\ PostChange(r.after, r.binding)
    /\ r.trial # NoTrial => run.watermark < r.trial.pre /\ TrialInOrder(r.trial, r.after, r.binding)
(* What append_execution_comparison_if_unchanged asks of a fresh comparison. *)
Admitted(r) ==
    /\ \A i \in Sources(r) : Kept(i)
    /\ r.binding = Projected.step
    /\ Projected.latest.after # 0 /\ Projected.latest.binding = r.binding
          => Newer(r.after, Projected.latest.after)
    /\ r.after > run.watermark /\ PostChange(r.after, r.binding)
    /\ r.trial # NoTrial => run.watermark < r.trial.pre /\ TrialInOrder(r.trial, r.after, r.binding)
    /\ Projected.anchor # Atomic!NoAnchor => Retrial(Projected.anchor, r.trial)
(* The receipt, its trial sources and the run's two leaves, in one          *)
(* transaction, or nothing.                                                 *)
CompareAppend(p) ==
    /\ cmp[p] # Idle
    /\ LET r == [after |-> cmp[p].after, verdict |-> cmp[p].verdict,
                 binding |-> cmp[p].binding, trial |-> cmp[p].trial]
       IN  IF /\ cmp[p].fresh /\ Live /\ Authority.valid /\ Admitted(r)
              /\ Len(receipts) < MaxReceipts
           THEN /\ receipts' = Append(receipts, r)
                /\ run' = [run EXCEPT !.rec = [Projected EXCEPT !.latest = LatestOf(r),
                              !.anchor = IF r.trial = NoTrial THEN @ ELSE AnchorAfter(@, r.trial, r.after)]]
                /\ mut' = Outdated(mut) /\ cmp' = [Outdated(cmp) EXCEPT ![p] = Idle]
           ELSE cmp' = [cmp EXCEPT ![p] = Idle] /\ UNCHANGED <<run, receipts, mut>>
    /\ UNCHANGED <<snaps, nextId, clock, upload>>

(* delete_execution, under the lock; a run with receipts is kept for good. *)
DeleteExecution(p) ==
    /\ mut[p] = Idle /\ Running /\ receipts = <<>>
    /\ run' = NoRun
    /\ mut' = Outdated(mut) /\ cmp' = Outdated(cmp)
    /\ UNCHANGED <<snaps, nextId, receipts, clock, upload>>

(* A server process ends and starts again: its flights and its last stamp   *)
(* are gone.  That takes longer than the clock's resolution.                *)
Restart(p) ==
    /\ wall >= last[p]
    /\ last' = [last EXCEPT ![p] = 0]
    /\ upload' = [upload EXCEPT ![p] = Idle]
    /\ mut' = [mut EXCEPT ![p] = Idle] /\ cmp' = [cmp EXCEPT ![p] = Idle]
    /\ UNCHANGED <<files, wall>>

(* One snapshot has been uploaded. *)
Init ==
    /\ snaps = [i \in SnapIds |-> IF i = 1 THEN [Absent EXCEPT !.state = "kept"] ELSE Absent]
    /\ nextId = 1 /\ run = NoRun /\ receipts = <<>>
    /\ wall = 0 /\ last = [p \in Procs |-> 0]
    /\ upload = [p \in Procs |-> Idle] /\ mut = upload /\ cmp = upload
Next ==
    \/ \E p \in Procs :
          \/ UploadBegin(p) \/ UploadCommit(p)
          \/ \E b \in SnapIds : StartRun(p, b)
          \/ MutateRead(p) \/ MutateSave(p) \/ CompareRead(p) \/ CompareAppend(p)
          \/ DeleteExecution(p)
    \/ \E p \in Restarting : Restart(p)
    \/ \E i \in Discarded : DeleteSnapshot(i)
Spec == Init /\ [][Next]_vars

-----------------------------------------------------------------------------
(* Type correctness of the database, the clocks and the flights. *)
TypeOK ==
    /\ snaps \in [SnapIds -> Rows] /\ nextId \in 1..MaxSnaps
    /\ run = NoRun \/ run \in [rec : Atomic!Record, before : SnapIds, started : 1..MaxTime,
                               ended : 0..MaxTime, watermark : SnapIds]
    /\ receipts \in Seq(Receipts) /\ Len(receipts) <= MaxReceipts
    /\ wall \in 0..MaxTime /\ last \in [Procs -> 0..MaxTime]
    /\ \A p \in Procs : mut[p] # Idle => mut[p].rec \in Atomic!Record

(* Whatever two server processes and their threads do, the run changes as   *)
(* if every mutation were applied to the latest record: nobody's check-off  *)
(* is overwritten, nothing joins a finished run.                            *)
ImplementsRecord == Atomic!Spec

(* A closed-out wave is part of the signed record: no late check-off, save  *)
(* or comparison changes its steps, its checks or its decision.             *)
SignedRecordFrozen == [][
    Running /\ run'.started = run.started =>
    \A w \in Waves : ~Atomic!OpenWave(run.rec, w) =>
       /\ run'.rec.close[w] = run.rec.close[w]
       /\ \A s \in Steps : WaveOf[s] = w => run'.rec.step[s] = run.rec.step[s]
       /\ \A c \in Checks : WaveOf[c] = w => run'.rec.check[c] = run.rec.check[c]]_vars

(* A successful outcome stands on a passed comparison with a snapshot that  *)
(* entered the database after the run started and says it was collected     *)
(* after every step of the run as it finished.                              *)
SuccessIsEvidenced == run.rec.status = "completed" /\ run.rec.outcome \in Atomic!Successes =>
    \E n \in 1..Len(receipts) :
       LET i == receipts[n].after IN
       /\ receipts[n].verdict = "PASS" /\ receipts[n].binding = run.rec.step
       /\ Kept(i) /\ i > run.watermark /\ snaps[i].uploaded > run.started
       /\ \A s \in Steps : /\ run.rec.step[s].status # "pending"
                           /\ snaps[i].collected > run.rec.step[s].at

(* A trial that failed or could not be verified stays in the way of success, *)
(* the outcome recorded or the one a finish would be given now, until a     *)
(* later trial of the same scenario, all of it newer, survives.             *)
FailureNeedsRetrial ==
    Running /\ (run.rec.outcome \in Atomic!Successes \/ Atomic!ComparedClean(run.rec)) =>
    \A n \in 1..Len(receipts) : Failing(receipts[n].trial) =>
       \E m \in n + 1..Len(receipts) :
          /\ receipts[m].trial.status = "observed_survival"
          /\ receipts[m].trial.scenario = receipts[n].trial.scenario
          /\ Newer(receipts[m].trial.pre, receipts[n].after)

(* Every snapshot a receipt compares, or its trial observed, is kept. *)
ReceiptSourcesKept == \A i \in Receipted : Kept(i)

(* The stored receipts always re-validate, and the cached leaves in         *)
(* state_json are the ones they rebuild.                                    *)
AuthorityReconciles == Running =>
    /\ Authority.valid
    /\ run.rec.latest = Authority.latest /\ run.rec.anchor = Authority.anchor

(* A run that was saved as finished can be read again: its end is not       *)
(* before its start.                                                        *)
FinishedRunReadable == Running => Readable
=============================================================================
