----------------------------- MODULE AtlasSlots -----------------------------
(***************************************************************************)
(* The destination directory that portable/update_transaction.ps1 owns:    *)
(* the application slots Atlas, Atlas.incoming, Atlas.previous,            *)
(* Atlas.retired and the quarantine of the current run, the detached data  *)
(* directory Atlas.data-handoff, the journal and the rollback-slot         *)
(* receipt, with the file operations the script performs on them.          *)
(*                                                                         *)
(* An application tree is identified by what App-TreeHash returns for it,  *)
(* a data directory by what the script can tell about its content.  A      *)
(* directory move carries the data directory inside the moved tree along.  *)
(***************************************************************************)
EXTENDS Naturals, FiniteSets

CONSTANTS
    Apps,       \* application trees a release or a built bundle can contain
    NoApp,      \* the slot does not exist
    Torn,       \* a tree that matches no release: half copied, half removed, altered
    MaxRuns,    \* bound: transactions started
    MaxDb,      \* bound: contents the client database goes through
    MaxCrashes, \* bound: sudden ends of the script (power loss, exit 70, throw)
    Hazards     \* environment behaviours admitted beyond the ordinary ones

ASSUME AppsAssumption == NoApp \notin Apps /\ Torn \notin Apps /\ NoApp # Torn
ASSUME BoundsAssumption == MaxRuns \in Nat /\ MaxDb \in Nat /\ MaxCrashes \in Nat
ASSUME HazardsAssumption ==
    Hazards \subseteq {"reinstall", "unlaunched", "mutating rollback", "disturbance"}

VARIABLES
    tree,     \* slot -> application tree in it
    data,     \* place -> data directory in it
    journal,  \* Atlas.update-state.json
    prepared, \* Atlas.rollback-slot.<run>.json, written but not yet published
    receipt,  \* Atlas.rollback-slot.json
    pc,       \* next step of the running script, "idle" when none runs
    req,      \* the command line of the running script
    forced,   \* Recover-Update was called with -ForceRollback
    run,      \* run_id of the latest transaction
    crashes,  \* sudden ends so far
    edits     \* latest content written to the client database by Atlas

disk == <<tree, data, journal, prepared, receipt>>
vars == <<tree, data, journal, prepared, receipt, pc, req, forced, run, crashes, edits>>

Slots == {"target", "incoming", "previous", "retired", "failed"}
Places == Slots \cup {"handoff", "parked"}
Trees == Apps \cup {NoApp, Torn}
Dbs == 0..MaxDb     \* 0: no assesshub.db
Runs == 0..MaxRuns

(***************************************************************************)
(* A data directory: absent, empty, holding bytes a candidate wrote, or    *)
(* the client's, with its database, the databases kept under               *)
(* release-backups by run, and the copy selected for a database restore.   *)
(***************************************************************************)
Data == [kind : {"none", "empty", "foreign", "client"},
         db : Dbs, kept : SUBSET (Runs \X Dbs), pick : Dbs]
Plain(k) == [kind |-> k, db |-> 0, kept |-> {}, pick |-> 0]
NoData == Plain("none")
Empty == Plain("empty")
Foreign == Plain("foreign")

IsClient(d) == d.kind = "client"
HasData(p) == data[p].kind # "none"
Held == {p \in Places : IsClient(data[p])}

(* One record for both operations; "" fields of the code are NoApp, 0 or NoData. *)
Phases == {"none",
    "staging", "staged", "prepared", "previous_retired", "data_moved", "active_moved",
    "activated", "data_attach_pending", "data_attached", "rollback_slot_prepared",
    "rollback_slot_receipted",
    "rollback_prepared", "rollback_data_moved", "rollback_database_restored",
    "rollback_active_moved", "rollback_activated", "rollback_data_attached",
    "rollback_reversing", "rollback_reversing_candidate_data_quarantined",
    "rollback_reversing_data_moved", "rollback_reversing_target_moved", "rollback_reversed"}
Journal == [op : {"none", "update", "rollback"}, phase : Phases, run : Runs,
            active : Trees, cand : Trees, prior : Trees,
            sealed : Data, restore : BOOLEAN, orig : Dbs, sel : Dbs]
NoJournal == [op |-> "none", phase |-> "none", run |-> 0, active |-> NoApp, cand |-> NoApp,
              prior |-> NoApp, sealed |-> NoData, restore |-> FALSE, orig |-> 0, sel |-> 0]
Pending == journal.op # "none"
HadActive == journal.active # NoApp
Committed == journal.phase \in {"rollback_slot_prepared", "rollback_slot_receipted"}

Receipts == [run : Runs, active : Trees, previous : Trees, backup : Dbs]
NoReceipt == [run |-> 0, active |-> NoApp, previous |-> NoApp, backup |-> 0]

Requests == [op : {"none", "update", "rollback"}, cand : Trees,
             restore : BOOLEAN, recoverOnly : BOOLEAN]
NoRequest == [op |-> "none", cand |-> NoApp, restore |-> FALSE, recoverOnly |-> FALSE]

-----------------------------------------------------------------------------
(* File operations.  Each is one durable step; CanMove is what              *)
(* Move-DirectoryExact insists on before Directory.Move.                    *)
CanMove(s, d) == tree[s] # NoApp /\ tree[d] = NoApp
MoveTree(s, d) ==
    /\ tree' = [tree EXCEPT ![d] = tree[s], ![s] = NoApp]
    /\ data' = [data EXCEPT ![d] = data[s], ![s] = NoData]

CanMoveData(p, q) == HasData(p) /\ ~HasData(q) /\ (q \in Slots => tree[q] # NoApp)
(* Mutant: a copy where the code renames. *)
CopyData(p, q) ==
    /\ data' = [data EXCEPT ![q] = data[p]]
    /\ UNCHANGED tree
MoveData(p, q) ==
    /\ data' = [data EXCEPT ![q] = data[p], ![p] = NoData]
    /\ UNCHANGED tree

PutData(p, d) == data' = [data EXCEPT ![p] = d] /\ UNCHANGED tree

(* Remove-ExactTree refuses a tree with a data directory and is not atomic. *)
Shred(s) ==
    /\ tree' = [tree EXCEPT ![s] = IF @ = Torn THEN NoApp ELSE Torn]
    /\ UNCHANGED data

SameSlots == UNCHANGED <<tree, data>>
SameFiles == UNCHANGED <<journal, prepared, receipt>>
SameBounds == UNCHANGED <<run, crashes, edits>>

WriteState(phase) ==
    /\ journal' = [journal EXCEPT !.phase = phase]
    /\ UNCHANGED <<tree, data, prepared, receipt>>
RemoveJournal == journal' = NoJournal /\ UNCHANGED <<tree, data, prepared, receipt>>

-----------------------------------------------------------------------------
(* Control of the single script that holds .Atlas.update.lock.              *)
Goto(l) == pc' = l /\ UNCHANGED <<req, forced>> /\ SameBounds

(* The end of the script, at its exit or in the outermost catch: the lock   *)
(* is freed.  Refuse is an end that touches nothing more on the disk.       *)
Stop == pc' = "idle" /\ req' = NoRequest /\ forced' = FALSE /\ SameBounds
Refuse == Stop /\ UNCHANGED disk

(* Move-DirectoryExact as a step of the script: a throw leaves the disk as it is. *)
MoveTreeExact(s, d, next) ==
    IF CanMove(s, d) THEN MoveTree(s, d) /\ SameFiles /\ Goto(next) ELSE Refuse
MoveDataExact(p, q, next) ==
    IF CanMoveData(p, q) THEN MoveData(p, q) /\ SameFiles /\ Goto(next) ELSE Refuse

(* What a candidate process can do to its own slot while it is executed.    *)
Passes(s) == SameSlots
Fails(s) == SameSlots
CreatesData(s) == ~HasData(s) /\ \E d \in {Empty, Foreign} : PutData(s, d)
Mutates(s) == tree' = [tree EXCEPT ![s] = Torn] /\ UNCHANGED data
=============================================================================
