-------------------------- MODULE AtlasTransaction --------------------------
(***************************************************************************)
(* The portable updater as an operator meets it: invocations of            *)
(* update_transaction.ps1 with the requests it accepts, Atlas itself       *)
(* writing the client database between transactions, and sudden ends of    *)
(* the script between any two durable steps, during recovery too.          *)
(***************************************************************************)
EXTENDS AtlasRollback

(* An empty destination, or Atlas already there: launched, so that it has   *)
(* created data, or copied and not launched yet ("unlaunched").             *)
Init ==
    /\ tree \in {[s \in Slots |-> IF s = "target" THEN a ELSE NoApp] : a \in Apps \cup {NoApp}}
    /\ data = [p \in Places |->
                 IF p = "target" /\ tree["target"] # NoApp /\ "unlaunched" \notin Hazards
                 THEN Empty ELSE NoData]
    /\ journal = NoJournal /\ prepared = NoReceipt /\ receipt = NoReceipt
    /\ pc = "idle" /\ req = NoRequest /\ forced = FALSE
    /\ run = 0 /\ crashes = 0 /\ edits = 0

(* The script first recovers whatever journal it finds, then starts the     *)
(* requested operation; with -RecoverOnly it stops after the recovery.      *)
Invoke(r) ==
    /\ pc = "idle"
    /\ req' = r
    /\ pc' = IF Pending THEN "recover" ELSE "main"
    /\ UNCHANGED <<tree, data, journal, prepared, receipt, forced, run, crashes, edits>>

(* Installing the application that is already active, by request or as the  *)
(* retry of an update that recovery turns out to have completed, is the     *)
(* hazard "reinstall".                                                      *)
MayBeActive ==
    IF ~Pending THEN {tree["target"]}
    ELSE IF journal.op = "rollback" THEN {journal.active, journal.cand}
    ELSE IF HadActive /\ ~Committed THEN {journal.active} ELSE {journal.cand}
InvokeUpdate ==
    /\ run < MaxRuns
    /\ \E c \in Apps :
          /\ c \notin MayBeActive \/ "reinstall" \in Hazards
          /\ Invoke([NoRequest EXCEPT !.op = "update", !.cand = c])
InvokeRollback ==
    /\ run < MaxRuns
    /\ \E r \in BOOLEAN : Invoke([NoRequest EXCEPT !.op = "rollback", !.restore = r])
InvokeRecovery ==
    /\ Pending
    /\ Invoke([NoRequest EXCEPT !.op = journal.op, !.recoverOnly = TRUE])

(* A running script ends without a word: power loss, exit 70, or a throw    *)
(* caused by a file in use, a full disk or a verification failure.          *)
Crash ==
    /\ pc # "idle" /\ crashes < MaxCrashes
    /\ crashes' = crashes + 1
    /\ pc' = "idle" /\ req' = NoRequest /\ forced' = FALSE
    /\ UNCHANGED <<tree, data, journal, prepared, receipt, run, edits>>

(* Atlas runs from its active slot and commits to its database.             *)
UseAtlas ==
    /\ pc = "idle" /\ ~Pending /\ tree["target"] # NoApp /\ edits < MaxDb
    /\ edits' = edits + 1
    /\ PutData("target", [data["target"] EXCEPT !.kind = "client", !.db = edits + 1])
    /\ UNCHANGED <<journal, prepared, receipt, pc, req, forced, run, crashes>>

(* Something outside the transaction writes into the detached directory.    *)
Disturb ==
    /\ "disturbance" \in Hazards /\ edits < MaxDb
    /\ IsClient(data["handoff"])
    /\ edits' = edits + 1
    /\ PutData("handoff", [data["handoff"] EXCEPT !.db = edits + 1])
    /\ UNCHANGED <<journal, prepared, receipt, pc, req, forced, run, crashes>>

Script == UpdateStep \/ RecoverUpdateStep \/ RollbackStep \/ RecoverRollbackStep \/ ReverseStep
Next == InvokeUpdate \/ InvokeRollback \/ InvokeRecovery \/ Crash \/ UseAtlas \/ Disturb \/ Script
Spec == Init /\ [][Next]_vars

(* A running script goes on, and the operator runs the recorded recovery    *)
(* as long as a journal is there.                                           *)
Fairness == WF_vars(Script) /\ WF_vars(InvokeRecovery)
FairSpec == Spec /\ Fairness

-----------------------------------------------------------------------------
(* The steps of the script, by the durable effect that comes next. *)
Labels ==
    {"idle", "main", "recover",
     "stage", "staged", "ensure_data", "probe", "backup", "prepared", "retire",
     "previous_retired", "seal", "detach", "data_moved", "deactivate", "active_moved",
     "activate", "activated", "verify", "data_attach_pending", "attach", "data_attached",
     "slot", "rollback_slot_prepared", "receipt", "rollback_slot_receipted", "finish",
     "drop_retired",
     "r_receipt", "r_retired", "r_first", "r_first_data", "r_quarantine", "r_abandon",
     "r_abandoned", "r_target", "r_previous", "r_swap", "r_incoming", "r_prior", "r_finish",
     "rb_probe", "rb_probe_data", "rb_preserve", "rb_pick", "rollback_prepared", "rb_detach",
     "rollback_data_moved", "rb_select", "rollback_database_restored", "rb_deactivate",
     "rollback_active_moved", "rb_activate", "rollback_activated", "rb_verify",
     "rollback_reversing", "rb_attach", "rollback_data_attached", "rb_finish",
     "q_completed", "q_aborted", "q_select", "q_swap", "q_database", "q_seal", "q_probe",
     "q_attach", "q_finish",
     "v_start", "v_target", "v_data", "v_quarantine", "v_detach", "v_previous", "v_attach",
     "v_original", "v_finish",
     "rollback_reversing_candidate_data_quarantined", "rollback_reversing_data_moved",
     "rollback_reversing_target_moved", "rollback_reversed"}

(* Every variable keeps its type: the journal's phase is one of the closed  *)
(* contract Read-State insists on, or the script could not read it back.    *)
TypeOK ==
    /\ tree \in [Slots -> Trees]
    /\ data \in [Places -> Data]
    /\ journal \in Journal
    /\ prepared \in Receipts /\ receipt \in Receipts
    /\ pc \in Labels
    /\ req \in Requests /\ forced \in BOOLEAN
    /\ run \in Runs /\ crashes \in 0..MaxCrashes /\ edits \in Dbs

(* The client's data directory is one directory that is moved: at no step,  *)
(* of an operation, a recovery or a reversal, are there two of it.          *)
ClientDataInOnePlace == \A p, q \in Held : p = q

(* A directory that holds client data is never removed, overwritten or left *)
(* behind in a quarantine of an earlier run.                                *)
ClientDataNeverLost == [][Held # {} => Held' # {}]_vars

(* Whenever no journal is left and no script is running, the client's data  *)
(* is inside the active Atlas tree, and that tree is a complete release:    *)
(* nothing is half switched.                                                *)
AtRest == pc = "idle" /\ ~Pending
AtRestDataAttached ==
    AtRest => /\ Held \subseteq {"target"}
              /\ tree["target"] # Torn
              /\ ~HasData("handoff") /\ tree["incoming"] = NoApp

(* No journal, and a retained Atlas.previous: the published receipt binds   *)
(* exactly that pair, so that a later -Rollback is not refused.             *)
ReceiptBindsSlots ==
    (AtRest /\ tree["previous"] # NoApp) =>
        /\ receipt.active = tree["target"] /\ receipt.previous = tree["previous"]
        /\ receipt.backup # 0 => <<receipt.run, receipt.backup>> \in data["target"].kept

(* portable/README.md:165: no candidate process is given client data inside *)
(* application directory.  The states are those in which one is executed.   *)
CandidateNeverBesideClientData ==
    /\ pc = "probe" => ~IsClient(data["incoming"])
    /\ pc = "rb_probe" => ~IsClient(data["previous"])
    /\ pc \in {"verify", "rb_verify", "q_probe"} => ~IsClient(data["target"])
    /\ (pc = "r_first" /\ ~HasData("target")) => Held = {}

(* An update that ends its journal, forward or back, leaves in the active   *)
(* tree exactly the data identity it sealed before detaching it, even when  *)
(* something wrote into the detached directory meanwhile.                   *)
UpdateCommitsSealedData ==
    [][journal.op = "update" /\ ~Pending' /\ journal.sealed # NoData =>
          data'["target"] = journal.sealed]_vars

(* The database is replaced only by Atlas itself or by a rollback that has  *)
(* kept a copy of the bytes it replaces among the client's backups.         *)
ClientDb == IF Held = {} THEN 0 ELSE data[CHOOSE p \in Held : TRUE].db
ReplacedDatabaseIsKept ==
    [][ClientDb' # ClientDb /\ edits' = edits =>
          \E p \in Held' : \E k \in data'[p].kept : k[2] = ClientDb]_vars

(* The transaction implements the atomic one.  An update takes effect when  *)
(* the journal records the prepared rollback-slot receipt; a first install  *)
(* and a rollback when their journal is removed.                            *)
Release == INSTANCE AtomicRelease WITH
    active <- IF ~Pending THEN tree["target"]
              ELSE IF Committed THEN journal.cand ELSE journal.active,
    fallback <- IF ~Pending THEN tree["previous"]
                ELSE IF Committed THEN journal.active
                ELSE IF journal.op = "update" THEN journal.prior ELSE journal.cand,
    db <- IF journal.op = "rollback" THEN journal.orig ELSE ClientDb,
    saved <- IF Committed THEN journal.orig ELSE receipt.backup
ImplementsAtomicRelease == Release!Spec

(* Every journal is eventually gone: whatever the interruption, running the *)
(* recorded recovery converges to the old or the new release, as            *)
(* tests/test_make_stick.py:297 states for every checkpoint.                *)
EveryJournalRecovers == Pending ~> ~Pending
=============================================================================
