----------------------------- MODULE MCFileLocks ----------------------------
(***************************************************************************)
(* Three components whose processes share files behind an advisory lock    *)
(* and may be killed at any step: the maintenance handoff, the promotion   *)
(* of a redaction run, and the gate ledger.  No action of one reads or     *)
(* changes a variable of another, so each is explored by itself, while the *)
(* others stay as they begin: part says which.  Fairness is that of each   *)
(* module, for the steps the part allows.                                  *)
(***************************************************************************)
EXTENDS AtlasMaintenance, Redaction, GateLedger, TLC

CONSTANTS r1, r2     \* two requests, two runs, two writers
DesignGate == {"assessment_approved"}
Design == {"design"}

VARIABLE part
allVars == <<part, handoffVars, redactionVars, ledgerVars>>

Init ==
    /\ part \in {"handoff", "redaction", "ledger"}
    /\ HandoffInit /\ RedactionInit /\ LedgerInit
    /\ part # "handoff" => installed
    /\ part # "redaction" => \A r \in Runs : ~reuse[r]

InHandoff(A) == part = "handoff" /\ A /\ UNCHANGED <<part, redactionVars, ledgerVars>>
InRedaction(A) == part = "redaction" /\ A /\ UNCHANGED <<part, handoffVars, ledgerVars>>
InLedger(A) == part = "ledger" /\ A /\ UNCHANGED <<part, handoffVars, redactionVars>>

Next == InHandoff(HandoffNext) \/ InRedaction(RedactionNext) \/ InLedger(LedgerNext)

Fairness ==
    /\ WF_allVars(InHandoff(ScriptStep))
    /\ \A r \in Requests : /\ WF_allVars(InHandoff(step[Launcher(r)] # "off" /\ LauncherStep(r)))
                           /\ WF_allVars(InHandoff(WorkerStep(r)))
    /\ \A r \in Runs : WF_allVars(InRedaction(Step(r)))
    /\ \A w \in Writers : WF_allVars(InLedger(Work(w)))

Spec == Init /\ [][Next]_allVars /\ Fairness
=============================================================================
