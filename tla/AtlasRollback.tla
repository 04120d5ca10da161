---------------------------- MODULE AtlasRollback ---------------------------
(***************************************************************************)
(* The explicit rollback of portable/update_transaction.ps1 to             *)
(* Atlas.previous, with or without the database kept before the update,    *)
(* Recover-Rollback, and the reversal Restore-PreRollbackActive that a     *)
(* failing rollback candidate leads to.  In the journal, cand is           *)
(* rollback_tree_sha256.                                                   *)
(***************************************************************************)
EXTENDS AtlasUpdate

(* Get-VerifiedPreUpdateBackup: the backup the rollback-slot receipt binds. *)
BoundBackup == receipt.backup # 0 /\ <<receipt.run, receipt.backup>> \in data["target"].kept

(* The quarantine names and the selected copy carry run_id: the new run     *)
(* starts with none of its own, whatever an earlier run left behind.        *)
BeginRollback ==
    /\ pc = "main" /\ req.op = "rollback" /\ (Unowned \/ tree["retired"] = NoApp)
    /\ IF \/ Unowned \/ run >= MaxRuns
          \/ tree["target"] = NoApp \/ tree["previous"] = NoApp \/ HasData("previous")
          (* Get-RollbackSlotReceipt *)
          \/ receipt.active # tree["target"] \/ receipt.previous # tree["previous"]
          \/ ~HasData("target")
       THEN Refuse
       ELSE /\ run' = run + 1
            /\ tree' = [tree EXCEPT !["failed"] = NoApp]
            /\ data' = [data EXCEPT !["failed"] = NoData, !["parked"] = NoData,
                                    !["target"] = [@ EXCEPT !.pick = 0]]
            /\ pc' = "rb_probe"
            /\ SameFiles /\ UNCHANGED <<req, forced, crashes, edits>>
(* Mutant: a database restore that does not preserve the newer database. *)
RollbackProbePassesUnpreserved ==
    /\ pc = "rb_probe"
    /\ UNCHANGED disk
    /\ IF ~req.restore THEN Goto("rollback_prepared")
       ELSE IF data["target"].db = 0 \/ ~BoundBackup THEN Stop
       ELSE Goto("rb_pick")
(* Selftest and database preflight of the retained tree; data it creates is *)
(* moved out of Atlas.previous before the refusal.                          *)
RollbackProbePasses ==
    /\ pc = "rb_probe"
    /\ UNCHANGED disk
    /\ IF ~req.restore THEN Goto("rollback_prepared")
       ELSE IF data["target"].db = 0 \/ ~BoundBackup THEN Stop
       ELSE Goto("rb_preserve")
RollbackProbeFails ==
    /\ pc = "rb_probe"
    /\ \/ Fails("previous") /\ SameFiles /\ Stop
       \/ CreatesData("previous") /\ SameFiles /\ Goto("rb_probe_data")
MoveProbeData ==
    /\ pc = "rb_probe_data"
    /\ IF CanMoveData("previous", "parked")
       THEN MoveData("previous", "parked") /\ SameFiles /\ Stop
       ELSE Refuse

(* New-RollbackPreservedBackup, then the copy of the verified backup.       *)
PreserveDatabase ==
    /\ pc = "rb_preserve"
    /\ PutData("target", [data["target"] EXCEPT !.kept = @ \cup {<<run, data["target"].db>>}])
    /\ SameFiles /\ Goto("rb_pick")
PickDatabase ==
    /\ pc = "rb_pick"
    /\ PutData("target", [data["target"] EXCEPT !.pick = receipt.backup])
    /\ SameFiles /\ Goto("rollback_prepared")
WriteRollbackPrepared ==
    /\ pc = "rollback_prepared"
    /\ journal' = [NoJournal EXCEPT !.op = "rollback", !.phase = "rollback_prepared", !.run = run,
                      !.active = tree["target"], !.cand = tree["previous"],
                      !.restore = req.restore, !.orig = data["target"].db,
                      !.sel = IF req.restore THEN receipt.backup ELSE data["target"].db]
    /\ UNCHANGED <<tree, data, prepared, receipt>>
    /\ Goto("rb_detach")

DetachRollbackData ==
    /\ pc = "rb_detach"
    /\ MoveDataExact("target", "handoff", "rollback_data_moved")
WriteRollbackDataMoved ==
    pc = "rollback_data_moved" /\ WriteState("rollback_data_moved") /\ Goto("rb_select")

(* Ensure-SelectedRollbackDatabase in the data directory at place p.        *)
EnsureSelected(p, next) ==
    IF journal.sel \in {0, data[p].db} THEN UNCHANGED disk /\ Goto(next)
    ELSE IF ~journal.restore \/ data[p].pick # journal.sel THEN Refuse
    ELSE PutData(p, [data[p] EXCEPT !.db = journal.sel, !.pick = 0]) /\ SameFiles /\ Goto(next)
SelectDatabase == pc = "rb_select" /\ EnsureSelected("handoff", "rollback_database_restored")

SealSelected(p) ==
    /\ journal' = [journal EXCEPT !.phase = "rollback_database_restored", !.sealed = data[p]]
    /\ UNCHANGED <<tree, data, prepared, receipt>>
WriteDatabaseRestored ==
    pc = "rollback_database_restored" /\ SealSelected("handoff") /\ Goto("rb_deactivate")

DeactivateNewer ==
    /\ pc = "rb_deactivate"
    /\ MoveTreeExact("target", "failed", "rollback_active_moved")
WriteRollbackActiveMoved ==
    pc = "rollback_active_moved" /\ WriteState("rollback_active_moved") /\ Goto("rb_activate")
ActivatePrevious ==
    /\ pc = "rb_activate"
    /\ MoveTreeExact("previous", "target", "rollback_activated")
WriteRollbackActivated ==
    pc = "rollback_activated" /\ WriteState("rollback_activated") /\ Goto("rb_verify")

(* Final verification.  A failing candidate is journaled as reversing; a    *)
(* changed data identity is reversed without a journal write.               *)
RollbackVerifyPasses ==
    /\ pc \in {"rb_verify", "q_probe"}
    /\ tree["target"] = journal.cand /\ ~HasData("target")
    /\ UNCHANGED disk
    /\ IF pc = "q_probe" THEN Goto("q_attach")
       ELSE Goto(IF data["handoff"] = journal.sealed THEN "rb_attach" ELSE "v_start")
RollbackVerifyFails ==
    /\ pc \in {"rb_verify", "q_probe"}
    /\ \/ Fails("target") \/ CreatesData("target")
       \/ "mutating rollback" \in Hazards /\ Mutates("target")
    /\ SameFiles /\ Goto("rollback_reversing")
WriteReversing ==
    pc = "rollback_reversing" /\ WriteState("rollback_reversing") /\ Goto("v_start")

AttachRollbackData ==
    /\ pc = "rb_attach"
    /\ MoveDataExact("handoff", "target", "rollback_data_attached")
WriteRollbackDataAttached ==
    /\ pc = "rollback_data_attached"
    /\ WriteState("rollback_data_attached") /\ Goto("rb_finish")
FinishRollback == pc = "rb_finish" /\ RemoveJournal /\ Stop

-----------------------------------------------------------------------------
(* Recover-Rollback.                                                        *)
Reversing == journal.phase \in {"rollback_reversing",
    "rollback_reversing_candidate_data_quarantined", "rollback_reversing_data_moved",
    "rollback_reversing_target_moved", "rollback_reversed"}

RollbackCompleted ==
    /\ tree["target"] = journal.cand /\ HasData("target") /\ ~HasData("handoff")
    /\ tree["previous"] = NoApp /\ tree["failed"] = journal.active
(* Mutant: the aborted branch does not ask where the data directory is. *)
RollbackNotActivatedAnyData ==
    tree["target"] = journal.active /\ tree["previous"] = journal.cand
RollbackNotActivated ==
    /\ tree["target"] = journal.active /\ tree["previous"] = journal.cand
    /\ HasData("target") /\ ~HasData("previous")
RollbackBranch ==
    IF Reversing THEN "v_start"
    ELSE IF RollbackCompleted THEN "q_completed"
    ELSE IF RollbackNotActivated THEN "q_aborted"
    ELSE IF tree["previous"] = journal.cand /\ HasData("handoff") THEN "q_select"
    ELSE IF tree["target"] = journal.cand THEN "q_database"
    ELSE "refuse"

RecoverRollback ==
    /\ pc = "recover" /\ journal.op = "rollback"
    /\ UNCHANGED disk
    /\ IF RollbackBranch = "refuse" THEN Stop ELSE Goto(RollbackBranch)

RecoverCompleted ==
    /\ pc = "q_completed"
    /\ IF journal.sealed # NoData /\ data["target"] # journal.sealed THEN Refuse
       ELSE RemoveJournal /\ AfterRecovery("rollback_completed")

(* before activation: drop the selected copy, keep the active tree *)
RecoverAborted ==
    /\ pc = "q_aborted"
    /\ IF data["target"].pick # 0 /\ journal.restore
       THEN PutData("target", [data["target"] EXCEPT !.pick = 0]) /\ SameFiles /\ Goto("q_aborted")
       ELSE RemoveJournal /\ AfterRecovery("rollback_aborted")

(* the switch is finished forward *)
RecoverSelect == pc = "q_select" /\ EnsureSelected("handoff", "q_swap")
RecoverRollbackSwap ==
    /\ pc = "q_swap"
    /\ IF tree["target"] # NoApp
       THEN IF tree["target"] = journal.active
            THEN MoveTreeExact("target", "failed", "q_swap") ELSE Refuse
       ELSE MoveTreeExact("previous", "target", "q_database")
VerificationData == IF HasData("handoff") THEN "handoff" ELSE "target"
RecoverDatabase ==
    /\ pc = "q_database"
    /\ IF ~HasData(VerificationData) THEN Refuse ELSE EnsureSelected(VerificationData, "q_seal")
(* Mutant: recovery attaches the data before it verifies the candidate. *)
RecoverSealAttached ==
    /\ pc = "q_seal"
    /\ MoveDataExact("handoff", "target", "q_probe")
RecoverSeal ==
    /\ pc = "q_seal"
    /\ IF journal.sealed = NoData THEN SealSelected(VerificationData) ELSE UNCHANGED disk
    /\ Goto("q_probe")
RecoverAttach ==
    /\ pc = "q_attach"
    /\ IF ~HasData("handoff") THEN UNCHANGED disk /\ Goto("q_finish")
       ELSE MoveDataExact("handoff", "target", "q_finish")
FinishRecoveredRollback ==
    /\ pc = "q_finish"
    /\ IF data["target"] # journal.sealed THEN Refuse
       ELSE RemoveJournal /\ AfterRecovery("rollback_completed")

-----------------------------------------------------------------------------
(* Restore-PreRollbackActive, and Restore-OriginalRollbackDatabase in it.   *)
CanRestoreOriginal(p) ==
    \/ journal.orig \in {0, data[p].db}
    \/ journal.restore /\ <<journal.run, journal.orig>> \in data[p].kept
OriginalData(p) == IF journal.orig = 0 THEN data[p] ELSE [data[p] EXCEPT !.db = journal.orig]
RestoreOriginal(p, next) ==
    IF CanRestoreOriginal(p)
    THEN PutData(p, OriginalData(p)) /\ SameFiles /\ Goto(next)
    ELSE Refuse

ReverseStart ==
    /\ pc = "v_start"
    /\ UNCHANGED disk
    /\ IF tree["target"] # journal.cand THEN Goto("v_target")
       ELSE IF tree["failed"] # journal.active THEN Stop
       ELSE IF ~HasData("target") \/ ~HasData("handoff") THEN Goto("v_data")
       ELSE Goto(IF HasData("parked") THEN "v_data" ELSE "v_quarantine")

(* Data in the candidate's tree is quarantined when the client's is still   *)
(* detached, and is the client's otherwise.                                 *)
DetachCandidateData ==
    /\ pc \in {"v_quarantine", "v_detach"}
    /\ IF pc = "v_quarantine"
       THEN MoveDataExact("target", "parked", "rollback_reversing_candidate_data_quarantined")
       ELSE IF HasData("failed") THEN Refuse
       ELSE MoveDataExact("target", "handoff", "rollback_reversing_data_moved")
ReverseData ==
    /\ pc = "v_data"
    /\ IF HasData("handoff") THEN RestoreOriginal("handoff", "v_previous")
       ELSE IF HasData("target") THEN RestoreOriginal("target", "v_detach")
       ELSE IF HasData("failed") THEN RestoreOriginal("failed", "v_previous")
       ELSE Refuse
ReverseTarget ==
    /\ pc = "v_previous"
    /\ IF tree["previous"] = NoApp
       THEN MoveTreeExact("target", "previous", "rollback_reversing_target_moved")
       ELSE UNCHANGED disk /\ Goto("v_target")
ReactivateNewer ==
    /\ pc = "v_target"
    /\ IF tree["target"] # NoApp THEN UNCHANGED disk /\ Goto("v_attach")
       ELSE IF tree["failed"] # journal.active THEN Refuse
       ELSE MoveTreeExact("failed", "target", "rollback_reversed")
ReverseAttach ==
    /\ pc = "v_attach"
    /\ IF tree["target"] # journal.active \/ tree["previous"] # journal.cand THEN Refuse
       ELSE IF ~HasData("handoff") THEN UNCHANGED disk /\ Goto("v_original")
       ELSE MoveDataExact("handoff", "target", "v_original")
ReverseOriginal ==
    /\ pc = "v_original"
    /\ IF HasData("target") THEN RestoreOriginal("target", "v_finish") ELSE Refuse
AfterReversalWrite ==
    [rollback_reversing_candidate_data_quarantined |-> "v_data",
     rollback_reversing_data_moved |-> "v_previous",
     rollback_reversing_target_moved |-> "v_target",
     rollback_reversed |-> "v_attach"]
WriteReversal ==
    /\ pc \in DOMAIN AfterReversalWrite
    /\ WriteState(pc) /\ Goto(AfterReversalWrite[pc])
(* both callers throw after a reversal *)
FinishReversal == pc = "v_finish" /\ RemoveJournal /\ Stop

-----------------------------------------------------------------------------
RollbackStep ==
    \/ BeginRollback \/ RollbackProbePasses \/ RollbackProbeFails \/ MoveProbeData
    \/ PreserveDatabase \/ PickDatabase \/ WriteRollbackPrepared \/ DetachRollbackData
    \/ WriteRollbackDataMoved \/ SelectDatabase \/ WriteDatabaseRestored \/ DeactivateNewer
    \/ WriteRollbackActiveMoved \/ ActivatePrevious \/ WriteRollbackActivated
    \/ RollbackVerifyPasses \/ RollbackVerifyFails \/ WriteReversing \/ AttachRollbackData
    \/ WriteRollbackDataAttached \/ FinishRollback
RecoverRollbackStep ==
    \/ RecoverRollback \/ RecoverCompleted \/ RecoverAborted \/ RecoverSelect
    \/ RecoverRollbackSwap \/ RecoverDatabase \/ RecoverSeal \/ RecoverAttach
    \/ FinishRecoveredRollback
ReverseStep ==
    \/ ReverseStart \/ DetachCandidateData \/ ReverseData \/ ReverseTarget \/ ReactivateNewer
    \/ WriteReversal \/ ReverseAttach \/ ReverseOriginal \/ FinishReversal
=============================================================================
