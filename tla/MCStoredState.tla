---------------------------- MODULE MCStoredState ---------------------------
(***************************************************************************)
(* Four components that keep state which several processes share: the      *)
(* saved plans, the copies and the carriage upgrade of the snapshot store, *)
(* and the gate ledger.  No action of one reads or changes a variable of   *)
(* another, so each is explored by itself, while the others stay as they   *)
(* begin: part says which.  The same two processes play every role.        *)
(***************************************************************************)
EXTENDS SavedPlans, StoreBackups, CarriageUpgrade, GateLedger, TLC

CONSTANTS p1, p2,    \* processes
          s1, s2, c1 \* two assessments of one campaign
OneCampaign == (s1 :> c1) @@ (s2 :> c1)
DesignGate == {"assessment_approved"}
Design == {"design"}
Interchange == Permutations({p1, p2}) \cup Permutations(Engagements)

VARIABLE part
allVars == <<part, plansVars, backupsVars, carriageVars, ledgerVars>>

Init ==
    /\ part \in {"plans", "backups", "carriage", "ledger"}
    /\ PlansInit /\ BackupsInit /\ CarriageInit /\ LedgerInit
    /\ part # "backups" => DOMAIN files = {}

Plans ==
    /\ part = "plans" /\ PlansNext
    /\ UNCHANGED <<part, backupsVars, carriageVars, ledgerVars>>
(* Two processes open the store at once only where nothing else goes wrong. *)
Backups ==
    /\ part = "backups" /\ BackupsNext
    /\ faults'.beside => faults'.back = 0 /\ faults'.file = 0
    /\ UNCHANGED <<part, plansVars, carriageVars, ledgerVars>>
Carriage ==
    /\ part = "carriage" /\ CarriageNext
    /\ UNCHANGED <<part, plansVars, backupsVars, ledgerVars>>
(* Of a kill, a file moved away and a writer that goes on without the lock, *)
(* only the first two are combined, the kill first.                         *)
Gates ==
    /\ part = "ledger" /\ LedgerNext
    /\ unserialised' => epoch' = 0
    /\ \A w \in Writers : Kill(w) => ~unserialised /\ epoch = 0
    /\ UNCHANGED <<part, plansVars, backupsVars, carriageVars>>

Next == Plans \/ Backups \/ Carriage \/ Gates
Spec == Init /\ [][Next]_allVars
=============================================================================
