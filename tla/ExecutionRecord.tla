--------------------------- MODULE ExecutionRecord --------------------------
(***************************************************************************)
(* A cutover-execution run as webapp/backend/execution.py sees it: a       *)
(* frozen list of waves with their steps and validation checks, and the    *)
(* war-room mutations, each a function from one record to the next.  Spec  *)
(* is the record with every mutation in one atomic step: what operators at *)
(* several keyboards are promised.                                         *)
(*                                                                         *)
(* Texts, operators' names and the events' wording are left out; of the    *)
(* event log the record keeps whether it holds a deviation.                *)
(***************************************************************************)
EXTENDS Naturals

CONSTANTS
    Waves, Steps, Checks,   \* the frozen plan
    WaveOf,                 \* the wave of each step and check
    Blockers,               \* checks that were current-baseline blockers at the start
    Clear,                  \* the frozen plan's current baseline is CLEAR
    MaxTime,                \* bound: instants the persistence clock stamps
    MaxSnaps,               \* bound: snapshots uploaded
    Scenarios               \* local failures a trial can induce

Times == 0..MaxTime     \* 0: no timestamp
SnapIds == 1..MaxSnaps

Closed == {"COMPLETE", "ROLLED BACK", "DEFERRED"}
Outcomes == {"SUCCESSFUL", "SUCCESSFUL WITH DEVIATIONS", "PARTIALLY IMPLEMENTED",
             "ROLLED BACK", "ABORTED"}
Successes == {"SUCCESSFUL", "SUCCESSFUL WITH DEVIATIONS"}
Bindings == [Steps -> [status : {"pending", "done", "skipped"}, at : Times]]
Unactioned == [s \in Steps |-> [status |-> "pending", at |-> 0]]
NoLatest == [after |-> 0, verdict |-> "FAIL", binding |-> Unactioned]
Latest == [after : 0..MaxSnaps, verdict : {"PASS", "FAIL"}, binding : Bindings]
(* l2_failure_trial_requirement: the failure scenario of an observed local  *)
(* failure, or of a trial that could not be verified, and the snapshot of   *)
(* its recovery phase.                                                      *)
NoAnchor == [status |-> "none"]
Anchors == {NoAnchor} \cup
    [status : {"observed_failure", "not_verified"}, scenario : Scenarios, recovery : SnapIds]

Record == [status : {"in_progress", "completed", "aborted"}, outcome : {"none"} \cup Outcomes,
           step : Bindings, check : [Checks -> {"pending", "pass", "fail", "na"}],
           close : [Waves -> {"open"} \cup Closed], deviated : BOOLEAN,
           latest : Latest, anchor : Anchors]
Started == [status |-> "in_progress", outcome |-> "none", step |-> Unactioned,
            check |-> [c \in Checks |-> "pending"], close |-> [w \in Waves |-> "open"],
            deviated |-> FALSE, latest |-> NoLatest, anchor |-> NoAnchor]
NoRun == [status |-> "no run"]

-----------------------------------------------------------------------------
(* The requests of the war room. *)
Requests ==
    [op : {"step"}, item : Steps, to : {"pending", "done", "skipped"}] \cup
    [op : {"check"}, item : Checks, to : {"pending", "pass", "fail", "na"}] \cup
    [op : {"closeout"}, item : Waves, to : Closed] \cup
    [op : {"event"}, item : {"run"}, to : {"note", "deviation"}] \cup
    [op : {"finish"}, item : {"run"}, to : {"completed", "aborted"}]

Live(r) == r.status = "in_progress"
OpenWave(r, w) == r.close[w] = "open"

(* Mutant: a late check-off reaches a closed wave. *)
AllowedLate(r, q) ==
    /\ Live(r)
    /\ q.op = "closeout" => OpenWave(r, q.item)
    /\ q.op = "check" /\ q.to = "pass" => q.item \notin Blockers
(* _require_live, _live_wave and the baseline-blocker refusal. *)
Allowed(r, q) ==
    /\ Live(r)
    /\ q.op \in {"step", "check"} => OpenWave(r, WaveOf[q.item])
    /\ q.op = "closeout" => OpenWave(r, q.item)
    /\ q.op = "check" /\ q.to = "pass" => q.item \notin Blockers

(* implementation_evidence_binding(state)["valid"] *)
Implemented(b) ==
    /\ \A w \in Waves : \E s \in Steps : WaveOf[s] = w
    /\ \A s \in Steps : b[s].status # "pending"

(* What _derive_outcome asks before it may call a run successful, for a run *)
(* with a canonical comparison policy.                                      *)
AllComplete(r) == Waves # {} /\ \A w \in Waves : r.close[w] = "COMPLETE"
AllActioned(r) ==
    /\ \A w \in Waves : \E s \in Steps, c \in Checks : WaveOf[s] = w /\ WaveOf[c] = w
    /\ \A s \in Steps : r.step[s].status # "pending"
    /\ \A c \in Checks : r.check[c] # "pending"
(* Mutant: the receipt's binding is not compared with the final steps. *)
ComparedCleanUnbound(r) ==
    r.anchor = NoAnchor /\ r.latest.verdict = "PASS" /\ Implemented(r.step)
ComparedClean(r) ==
    /\ r.anchor = NoAnchor
    /\ r.latest.verdict = "PASS"
    /\ Implemented(r.step) /\ r.latest.binding = r.step
Deviated(r) ==
    \/ r.deviated
    \/ \E c \in Checks : r.check[c] # "pass"
    \/ \E s \in Steps : r.step[s].status # "done"
DeriveOutcome(r, status) ==
    IF status = "aborted" THEN "ABORTED"
    ELSE IF \E w \in Waves : r.close[w] = "ROLLED BACK" THEN "ROLLED BACK"
    ELSE IF ~(AllComplete(r) /\ Clear /\ AllActioned(r) /\ ComparedClean(r))
         THEN "PARTIALLY IMPLEMENTED"
    ELSE IF Deviated(r) THEN "SUCCESSFUL WITH DEVIATIONS"
    ELSE "SUCCESSFUL"

(* Requests the log records as a deviation. *)
Deviates(q) == \/ q.op = "event" /\ q.to = "deviation"
               \/ q.op = "check" /\ q.to = "fail"
               \/ q.op = "closeout" /\ q.to = "ROLLED BACK"
(* apply_step, apply_check, apply_closeout, add_event and finish at time t. *)
Apply(r, q, t) ==
    LET l == [r EXCEPT !.deviated = @ \/ Deviates(q)] IN
    CASE q.op = "step" ->
            [l EXCEPT !.step[q.item] = [status |-> q.to, at |-> IF q.to = "pending" THEN 0 ELSE t]]
      [] q.op = "check" -> [l EXCEPT !.check[q.item] = q.to]
      [] q.op = "closeout" -> [l EXCEPT !.close[q.item] = q.to]
      [] q.op = "event" -> l
      [] q.op = "finish" -> [l EXCEPT !.status = q.to, !.outcome = DeriveOutcome(r, q.to)]

-----------------------------------------------------------------------------
VARIABLE record

Init == record = NoRun
Start == record = NoRun /\ record' = Started
Mutate == \E q \in Requests, t \in Times :
    record # NoRun /\ Allowed(record, q) /\ record' = Apply(record, q, t)
(* A comparison joins a live run whose steps are all actioned, and only     *)
(* moves the two leaves derived from the receipts.                          *)
Compare ==
    /\ record # NoRun /\ Live(record) /\ Implemented(record.step)
    /\ record' # NoRun
    /\ record' = [record EXCEPT !.latest = record'.latest, !.anchor = record'.anchor]
    /\ record'.latest.binding = record.step
Delete == record # NoRun /\ record.latest = NoLatest /\ record' = NoRun
Next == Start \/ Mutate \/ Compare \/ Delete
Spec == Init /\ [][Next]_record
=============================================================================
