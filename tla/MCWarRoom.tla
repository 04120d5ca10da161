------------------------------ MODULE MCWarRoom -----------------------------
(* Instances of WarRoom for TLC. *)
EXTENDS WarRoom, TLC
OneWave == [i \in Steps \cup Checks |-> CHOOSE w \in Waves : TRUE]
ProcSymmetry == Permutations(Procs)
Prompt == {0}
PromptOrLate == {0, 2}
Forward == {1}
SteppingBack == {1, -2}
(* every request, and those of a night without incident *)
AnyRequest == {<<q.op, q.to>> : q \in Atomic!Requests}
Smooth == {<<"step", "done">>, <<"check", "pass">>, <<"closeout", "COMPLETE">>,
           <<"finish", "completed">>}
(* requests that disturb each other *)
Contested == Smooth \cup {<<"step", "pending">>, <<"event", "deviation">>}
Implement == {<<"step", "done">>, <<"step", "pending">>}
(* comparisons without a trial *)
Plain == [after : SnapIds \ {1}, verdict : {"PASS", "FAIL"}, trial : {NoTrial}]
Passed == [after : SnapIds \ {1}, verdict : {"PASS"}, trial : {NoTrial}]
(* a trial that fails; then a comparison without one, a survival whose first *)
(* phase is not newer, or a newer trial that survives or decides nothing     *)
Tried(pre, ends) ==
    {c \in [after : {pre + 2}, verdict : {"PASS", "FAIL"},
            trial : [status : ends, scenario : Scenarios, pre : {pre}, post : {pre + 1}]] :
        (c.verdict = "FAIL") = Failing(c.trial)}
TrialThenMore ==
    Tried(2, {"observed_failure"}) \cup Tried(4, {"observed_survival"})
    \cup Tried(5, {"observed_survival", "not_verified"})
    \cup [after : {7}, verdict : {"PASS"}, trial : {NoTrial}]
=============================================================================
