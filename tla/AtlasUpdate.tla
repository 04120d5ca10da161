----------------------------- MODULE AtlasUpdate ----------------------------
(***************************************************************************)
(* The update operation of portable/update_transaction.ps1: staging, the   *)
(* journaled switch of whole directories, the rollback-slot receipt, and   *)
(* Recover-Update.  pc names the next durable step, so that the script can *)
(* end between any two of them.                                            *)
(***************************************************************************)
EXTENDS AtlasSlots

(* Outcome of a recovery in the same invocation: -RecoverOnly and a         *)
(* rollback that recovery completed end here, a reversed one throws, any    *)
(* other continues with the requested operation.                            *)
AfterRecovery(outcome) ==
    IF \/ req.recoverOnly
       \/ outcome = "rollback_reversed"
       \/ outcome = "rollback_completed" /\ req.op = "rollback"
    THEN Stop
    ELSE Goto("main")

-----------------------------------------------------------------------------
(* Opening checks shared by both operations.                                *)
Unowned == HasData("handoff")

RemoveRetired ==
    /\ pc = "main" /\ ~Unowned
    /\ tree["retired"] # NoApp
    /\ IF HasData("retired") THEN Refuse
       ELSE Shred("retired") /\ SameFiles /\ Goto("main")

BeginUpdate ==
    /\ pc = "main" /\ req.op = "update" /\ (Unowned \/ tree["retired"] = NoApp)
    /\ IF Unowned \/ tree["incoming"] # NoApp \/ HasData("previous") \/ run >= MaxRuns
       THEN Refuse
       ELSE /\ run' = run + 1
            /\ journal' = [NoJournal EXCEPT !.op = "update", !.phase = "staging", !.run = run + 1,
                              !.active = tree["target"], !.prior = tree["previous"],
                              !.cand = req.cand]
            (* the quarantine names carry run_id: the new run starts with none *)
            /\ tree' = [tree EXCEPT !["failed"] = NoApp]
            /\ data' = [data EXCEPT !["failed"] = NoData, !["parked"] = NoData]
            /\ pc' = "stage"
            /\ UNCHANGED <<prepared, receipt, req, forced, crashes, edits>>

(* robocopy fills Atlas.incoming file by file; a package tree is moved in.  *)
StageCopy ==
    /\ pc = "stage" /\ tree["incoming"] = NoApp
    /\ tree' = [tree EXCEPT !["incoming"] = Torn]
    /\ UNCHANGED data /\ SameFiles /\ Goto("stage")
StageDone ==
    /\ pc = "stage"
    /\ tree' = [tree EXCEPT !["incoming"] = journal.cand]
    /\ UNCHANGED data /\ SameFiles /\ Goto("staged")
WriteStaged == pc = "staged" /\ WriteState("staged") /\ Goto("ensure_data")
(* Mutant: the data directory is created whether or not there is one. *)
EnsureActiveDataAlways ==
    /\ pc = "ensure_data"
    /\ IF HadActive THEN PutData("target", Empty) ELSE SameSlots
    /\ SameFiles /\ Goto("probe")
EnsureActiveData ==
    /\ pc = "ensure_data"
    /\ IF HadActive /\ ~HasData("target") THEN PutData("target", Empty) ELSE SameSlots
    /\ SameFiles /\ Goto("probe")

(* Selftest and database preflight of the staged candidate, then the        *)
(* hash-bound pre-update backup when there is a database.                   *)
ProbePasses ==
    /\ pc = "probe"
    /\ Passes("incoming") /\ SameFiles /\ Goto("backup")
ProbeFails ==
    /\ pc = "probe"
    /\ Fails("incoming") \/ Mutates("incoming")
    /\ SameFiles /\ Stop
ProbeCreatesData ==
    /\ pc = "probe"
    /\ CreatesData("incoming")
    /\ SameFiles
    /\ Goto("backup") \/ Stop
BackupDatabase ==
    /\ pc = "backup"
    /\ IF HadActive /\ IsClient(data["target"])
       THEN PutData("target", [data["target"] EXCEPT !.kept = @ \cup {<<journal.run, data["target"].db>>}])
       ELSE SameSlots
    /\ SameFiles /\ Goto("prepared")
WritePrepared ==
    /\ pc = "prepared"
    /\ journal' = [journal EXCEPT !.phase = "prepared",
                      !.orig = IF HadActive THEN data["target"].db ELSE 0]
    /\ UNCHANGED <<tree, data, prepared, receipt>>
    /\ Goto(IF journal.prior # NoApp THEN "retire" ELSE "seal")

RetirePrevious ==
    /\ pc = "retire"
    /\ MoveTreeExact("previous", "retired", "previous_retired")
WritePreviousRetired ==
    pc = "previous_retired" /\ WriteState("previous_retired") /\ Goto("seal")

(* data_tree_sha256 is journaled before the data directory is detached.     *)
SealData ==
    /\ pc = "seal"
    /\ IF HasData("incoming") \/ (HadActive /\ data["target"].db # journal.orig) THEN Refuse
       ELSE IF HadActive
       THEN /\ journal' = [journal EXCEPT !.phase = "prepared", !.sealed = data["target"]]
            /\ UNCHANGED <<tree, data, prepared, receipt>>
            /\ Goto("detach")
       ELSE UNCHANGED disk /\ Goto("data_moved")
DetachData ==
    /\ pc = "detach"
    /\ MoveDataExact("target", "handoff", "data_moved")
WriteDataMoved ==
    /\ pc = "data_moved"
    /\ IF HadActive /\ data["handoff"] # journal.sealed THEN Refuse
       ELSE WriteState("data_moved") /\ Goto(IF HadActive THEN "deactivate" ELSE "active_moved")

DeactivateOld ==
    /\ pc = "deactivate"
    /\ MoveTreeExact("target", "previous", "active_moved")
WriteActiveMoved == pc = "active_moved" /\ WriteState("active_moved") /\ Goto("activate")
ActivateCandidate ==
    /\ pc = "activate"
    /\ MoveTreeExact("incoming", "target", "activated")
WriteActivated == pc = "activated" /\ WriteState("activated") /\ Goto("verify")

(* Final verification of the activated candidate with the data detached; a  *)
(* failure calls Recover-Update -ForceRollback.                             *)
ForceRecovery == pc' = "recover" /\ forced' = TRUE /\ UNCHANGED req /\ SameBounds
VerifyPasses ==
    /\ pc = "verify" /\ tree["target"] = journal.cand /\ ~HasData("target")
    /\ HadActive => data["handoff"] = journal.sealed
    /\ UNCHANGED disk /\ Goto("data_attach_pending")
VerifyFails ==
    /\ pc = "verify"
    /\ Fails("target") \/ CreatesData("target") \/ Mutates("target")
    /\ SameFiles /\ ForceRecovery
(* Mutant: a phase name outside the closed update contract. *)
WriteAttachPendingUnlisted ==
    pc = "data_attach_pending" /\ WriteState("data_attaching") /\ Goto("attach")
WriteAttachPending ==
    pc = "data_attach_pending" /\ WriteState("data_attach_pending") /\ Goto("attach")

AttachData ==
    /\ pc = "attach"
    /\ IF HasData("target") THEN Refuse
       ELSE IF ~HadActive THEN PutData("target", Empty) /\ SameFiles /\ Goto("data_attached")
       ELSE MoveDataExact("handoff", "target", "data_attached")
(* Mutant: the attached directory is not compared with the sealed identity. *)
WriteDataAttachedUnchecked ==
    /\ pc = "data_attached"
    /\ WriteState("data_attached") /\ Goto(IF HadActive THEN "slot" ELSE "finish")
WriteDataAttached ==
    /\ pc = "data_attached"
    /\ IF HadActive /\ data["target"] # journal.sealed THEN Refuse
       ELSE WriteState("data_attached") /\ Goto(IF HadActive THEN "slot" ELSE "finish")

PrepareSlotReceipt ==
    /\ pc = "slot"
    /\ prepared' = [run |-> journal.run, active |-> tree["target"],
                    previous |-> tree["previous"], backup |-> journal.orig]
    /\ UNCHANGED <<journal, receipt>> /\ SameSlots /\ Goto("rollback_slot_prepared")
(* Mutant: the prepared receipt is journaled and never published. *)
WriteSlotPreparedOnly ==
    /\ pc = "rollback_slot_prepared"
    /\ WriteState("rollback_slot_prepared") /\ Goto("finish")
WriteSlotPrepared ==
    /\ pc = "rollback_slot_prepared"
    /\ WriteState("rollback_slot_prepared") /\ Goto("receipt")

(* Complete-RollbackSlotReceipt: an earlier attempt may have published it.  *)
CompleteSlotReceipt(next) ==
    IF prepared.run = journal.run
    THEN receipt' = prepared /\ prepared' = NoReceipt /\ UNCHANGED journal /\ SameSlots /\ Goto(next)
    ELSE IF receipt.run = journal.run THEN UNCHANGED disk /\ Goto(next)
    ELSE Refuse
PublishReceipt == pc = "receipt" /\ CompleteSlotReceipt("rollback_slot_receipted")
WriteSlotReceipted ==
    /\ pc = "rollback_slot_receipted"
    /\ WriteState("rollback_slot_receipted") /\ Goto("finish")
FinishUpdate == pc = "finish" /\ RemoveJournal /\ Goto("drop_retired")
DropRetired ==
    /\ pc = "drop_retired"
    /\ IF tree["retired"] = NoApp \/ HasData("retired") THEN Refuse
       ELSE Shred("retired") /\ SameFiles /\ Goto("drop_retired")

-----------------------------------------------------------------------------
(* Recover-Update.                                                          *)
PreferPriorActive ==
    /\ tree["previous"] = journal.active
    /\ forced \/ tree["incoming"] = NoApp

(* The branch Recover-Update takes, from the hashes it reads at its start;  *)
(* "refuse" is its final throw, which preserves every slot.                 *)
RecoveryBranch ==
    IF Committed
    THEN IF tree["target"] = journal.cand /\ tree["previous"] = journal.active
         THEN "r_receipt" ELSE "refuse"
    ELSE IF ~HadActive
    THEN IF tree["previous"] # NoApp \/ tree["retired"] # NoApp THEN "refuse"
         ELSE IF tree["target"] = NoApp THEN "r_incoming"
         ELSE IF forced THEN "r_quarantine" ELSE "r_first"
    ELSE IF tree["target"] = journal.active /\ ~PreferPriorActive THEN "r_target"
    ELSE IF tree["previous"] = journal.active THEN "r_previous"
    ELSE "refuse"

RecoverUpdate ==
    /\ pc = "recover" /\ journal.op = "update"
    /\ UNCHANGED disk
    /\ IF RecoveryBranch = "refuse" THEN Stop ELSE Goto(RecoveryBranch)

(* a committed update is finished forward *)
RecoverReceipt == pc = "r_receipt" /\ CompleteSlotReceipt("r_retired")
RecoverRetired ==
    /\ pc = "r_retired"
    /\ IF data["target"] # journal.sealed \/ HasData("retired") THEN Refuse
       ELSE IF tree["retired"] = NoApp THEN UNCHANGED disk /\ Goto("r_finish")
       ELSE Shred("retired") /\ SameFiles /\ Goto("r_retired")

(* a first install is finished forward after a new selftest, or quarantined *)
RecoverFirst ==
    /\ pc = "r_first"
    /\ IF tree["target"] # journal.cand \/ data["target"].kind \in {"foreign", "client"}
       THEN UNCHANGED disk /\ Goto("r_abandon")
       ELSE IF HasData("target") THEN PutData("target", NoData) /\ SameFiles /\ Goto("r_first")
       ELSE \/ SameFiles /\ (Passes("target") \/ PutData("target", Empty)) /\ Goto("r_first_data")
            \/ SameFiles /\ (PutData("target", Foreign) \/ Fails("target") \/ Mutates("target"))
               /\ Goto("r_abandon")
RecoverFirstData ==
    pc = "r_first_data" /\ PutData("target", Empty) /\ SameFiles /\ Goto("r_finish")
QuarantineTarget ==
    /\ pc \in {"r_quarantine", "r_abandon"}
    /\ MoveTreeExact("target", "failed", IF pc = "r_abandon" THEN "r_abandoned" ELSE "r_finish")
AbandonFirst == pc = "r_abandoned" /\ RemoveJournal /\ Stop

(* the prior tree is still active: give it its data back *)
RecoverTargetData ==
    /\ pc = "r_target"
    /\ IF HasData("target") THEN UNCHANGED disk /\ Goto("r_incoming")
       ELSE MoveDataExact(IF HasData("handoff") THEN "handoff" ELSE "incoming", "target", "r_incoming")

(* the prior tree is in Atlas.previous: give it its data, then switch back *)
RecoverPreviousData ==
    /\ pc = "r_previous"
    /\ IF HasData("previous") THEN UNCHANGED disk /\ Goto("r_swap")
       ELSE IF HasData("handoff") /\ HasData("target")
       THEN MoveDataExact("target", "parked", "r_previous")
       ELSE MoveDataExact(IF HasData("handoff") THEN "handoff"
                          ELSE IF HasData("target") THEN "target" ELSE "incoming",
                          "previous", "r_swap")
RecoverSwap ==
    /\ pc = "r_swap"
    /\ IF tree["target"] # NoApp
       THEN MoveTreeExact("target", "failed", "r_swap")
       ELSE MoveTreeExact("previous", "target", "r_incoming")
(* Mutant: an incoming tree that holds data is refused, not quarantined. *)
RecoverIncomingRefusing ==
    /\ pc = "r_incoming"
    /\ IF tree["incoming"] = NoApp THEN UNCHANGED disk /\ Goto("r_prior")
       ELSE IF HasData("incoming") THEN Refuse
       ELSE Shred("incoming") /\ SameFiles /\ Goto("r_incoming")
(* Remove-OrQuarantineIncoming *)
RecoverIncoming ==
    /\ pc = "r_incoming"
    /\ IF tree["incoming"] = NoApp THEN UNCHANGED disk /\ Goto("r_prior")
       ELSE IF data["incoming"].kind \in {"foreign", "client"}
       THEN MoveTreeExact("incoming", "failed", "r_prior")
       ELSE IF HasData("incoming") THEN PutData("incoming", NoData) /\ SameFiles /\ Goto("r_incoming")
       ELSE Shred("incoming") /\ SameFiles /\ Goto("r_incoming")
(* Mutant: recovery forgets the retired rollback slot. *)
RecoverPriorForgotten == pc = "r_prior" /\ UNCHANGED disk /\ Goto("r_finish")
(* Restore-PriorPrevious, after the sealed data identity was compared *)
RecoverPrior ==
    /\ pc = "r_prior"
    /\ IF HadActive /\ journal.sealed # NoData /\ data["target"] # journal.sealed THEN Refuse
       ELSE IF journal.prior = NoApp
       THEN IF tree["retired"] = NoApp THEN UNCHANGED disk /\ Goto("r_finish") ELSE Refuse
       ELSE IF tree["retired"] = NoApp
       THEN IF tree["previous"] = journal.prior THEN UNCHANGED disk /\ Goto("r_finish") ELSE Refuse
       ELSE IF tree["retired"] = journal.prior
       THEN MoveTreeExact("retired", "previous", "r_finish") ELSE Refuse

RecoverFinish ==
    /\ pc = "r_finish" /\ RemoveJournal
    /\ IF forced THEN Stop ELSE AfterRecovery("update_recovered")

-----------------------------------------------------------------------------
UpdateStep ==
    \/ RemoveRetired \/ BeginUpdate \/ StageCopy \/ StageDone \/ WriteStaged
    \/ EnsureActiveData \/ ProbePasses \/ ProbeFails \/ ProbeCreatesData \/ BackupDatabase
    \/ WritePrepared \/ RetirePrevious \/ WritePreviousRetired \/ SealData \/ DetachData
    \/ WriteDataMoved \/ DeactivateOld \/ WriteActiveMoved \/ ActivateCandidate
    \/ WriteActivated \/ VerifyPasses \/ VerifyFails \/ WriteAttachPending \/ AttachData
    \/ WriteDataAttached \/ PrepareSlotReceipt \/ WriteSlotPrepared \/ PublishReceipt
    \/ WriteSlotReceipted \/ FinishUpdate \/ DropRetired
RecoverUpdateStep ==
    \/ RecoverUpdate \/ RecoverReceipt \/ RecoverRetired \/ RecoverFirst \/ RecoverFirstData
    \/ QuarantineTarget \/ AbandonFirst \/ RecoverTargetData \/ RecoverPreviousData
    \/ RecoverSwap \/ RecoverIncoming \/ RecoverPrior \/ RecoverFinish
=============================================================================
