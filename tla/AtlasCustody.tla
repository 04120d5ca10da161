---------------------------- MODULE AtlasCustody ----------------------------
(***************************************************************************)
(* The inductive invariant of AtlasTransaction: where the trees and the    *)
(* data directories are between any two durable steps of                   *)
(* portable/update_transaction.ps1.  The first parts hold whether or not a *)
(* script runs, so that they survive its sudden end; the last four say     *)
(* what a running script has established by the time it reaches a label.   *)
(***************************************************************************)
EXTENDS AtlasTransaction

Releases == Apps \cup {NoApp}

-----------------------------------------------------------------------------
(* The labels, by the journal under which they run. *)
FreeLabels == {"main", "drop_retired", "rb_probe", "rb_probe_data", "rb_preserve", "rb_pick",
    "rollback_prepared"}
StagingLabels == {"staged", "ensure_data", "probe", "backup", "prepared", "retire"}
DetachedLabels == {"data_moved", "deactivate", "active_moved", "activate"}
ActivatedLabels == {"activated", "verify", "data_attach_pending", "attach"}
AttachedLabels == {"data_attached", "slot", "rollback_slot_prepared"}
ForwardLabels == {"stage"} \cup StagingLabels \cup {"previous_retired", "seal", "detach"}
    \cup DetachedLabels \cup ActivatedLabels \cup AttachedLabels
CommitLabels == {"receipt", "rollback_slot_receipted", "r_receipt", "r_retired"}
FirstLabels == {"r_first", "r_first_data", "r_quarantine", "r_abandon", "r_abandoned"}
BackLabels == {"r_target", "r_previous", "r_swap"}
CleanLabels == {"r_incoming", "r_prior"}
UpdateLabels == ForwardLabels \cup CommitLabels \cup FirstLabels \cup BackLabels
    \cup CleanLabels \cup {"finish", "r_finish"}
RollbackLabels == Labels \ (FreeLabels \cup UpdateLabels \cup {"idle", "recover"})

(* Control: a label is reached only under its journal, and the forced       *)
(* recovery and the request are what the branches assume.                   *)
ControlInv ==
    /\ ~Pending => journal = NoJournal
    /\ pc \in FreeLabels => ~Pending
    /\ pc = "recover" => Pending
    /\ pc \in UpdateLabels => journal.op = "update"
    /\ pc \in RollbackLabels => journal.op = "rollback"
    /\ pc \in ForwardLabels \cup FirstLabels \cup BackLabels \cup CleanLabels => ~Committed
    /\ pc \in CommitLabels => Committed
    /\ pc \in {"detach", "deactivate", "slot", "rollback_slot_prepared"} \cup BackLabels => HadActive
    /\ pc \in FirstLabels => ~HadActive
    /\ forced =>
          /\ pc \in {"recover", "r_finish"} \cup FirstLabels \cup BackLabels \cup CleanLabels
          /\ journal.op = "update" /\ ~Committed
    /\ (req.op = "update" /\ ~req.recoverOnly) => req.cand \in Apps
    /\ pc = "main" => ~req.recoverOnly
    /\ journal.op = "update" =>
          /\ journal.run > 0 /\ journal.cand \in Apps
          /\ ~HadActive => journal.sealed = NoData /\ journal.orig = 0
          /\ Committed => HadActive
    /\ journal.op = "rollback" => ~Committed

-----------------------------------------------------------------------------
(* The data directories: none without a tree around it, no other than the   *)
(* client's with anything in it, at most one of those.                      *)
EmptySlots == \A s \in Slots : tree[s] = NoApp => ~HasData(s)
KnownData == \A p \in Places : IsClient(data[p]) \/ data[p] \in {NoData, Empty, Foreign}
Sound == EmptySlots /\ KnownData /\ ClientDataInOnePlace
ClientIn(S) == \A p \in Places : IsClient(data[p]) => p \in S

(* No journal: the client's data is attached, the trees are releases, and   *)
(* the receipt binds a retained one.                                        *)
Binds(r, a, b) == r.active = a /\ r.previous = b
RestDisk ==
    /\ ClientIn({"target"}) /\ ~HasData("handoff")
    /\ tree["target"] \in Releases /\ tree["previous"] \in Releases
    /\ tree["incoming"] = NoApp
    /\ tree["previous"] # NoApp =>
          tree["target"] # NoApp /\ Binds(receipt, tree["target"], tree["previous"])

(* A first install: there is no client data, and no older release.          *)
FirstDisk ==
    /\ ClientIn({}) /\ ~HasData("handoff")
    /\ journal.prior = NoApp /\ tree["previous"] = NoApp /\ tree["retired"] = NoApp
    /\ tree["target"] = NoApp \/ tree["incoming"] = NoApp

(* An update that has not committed: the four places the older releases can *)
(* be in.  PriorLost and PriorTaken arise when the release being replaced   *)
(* and the retained one are the same and recovery takes one for the other.  *)
NotRetired == tree["previous"] = journal.prior /\ tree["retired"] = NoApp
Retired == tree["previous"] = NoApp /\ tree["retired"] = journal.prior
Deactivated == tree["previous"] = journal.active /\ tree["retired"] = journal.prior
PriorTaken == NotRetired /\ journal.prior = journal.active
PriorLost ==
    /\ tree["previous"] = NoApp /\ tree["retired"] = NoApp
    /\ journal.prior = journal.active
Unswitched == tree["target"] = journal.active /\ (NotRetired \/ Retired \/ PriorLost)
Replaceable == tree["target"] # journal.active \/ tree["incoming"] = NoApp
SwitchTrees ==
    \/ Unswitched
    \/ Deactivated /\ (tree["target"] = NoApp \/ tree["incoming"] = NoApp)
    \/ PriorTaken /\ tree["target"] = NoApp
(* Before it is sealed the client's data is in the tree it was found in,    *)
(* wherever recovery has moved it; afterwards the journal knows whether     *)
(* there is any, which is what the comparison with it relies on.            *)
SwitchData ==
    /\ ~HasData("retired")
    /\ HasData("target") /\ HasData("handoff") =>
          tree["previous"] = journal.active /\ tree["incoming"] = NoApp
    /\ HasData("previous") =>
          ~HasData("handoff") /\ tree["previous"] = journal.active /\ Replaceable
    /\ IF journal.sealed = NoData
       THEN ~HasData("handoff") /\ ClientIn({IF HasData("previous") THEN "previous" ELSE "target"})
       ELSE ClientIn({}) \/ IsClient(journal.sealed)
SwitchDisk == SwitchTrees /\ SwitchData

(* An update that has committed: it can only be finished.                   *)
SlotReceipt == [run |-> journal.run, active |-> journal.cand, previous |-> journal.active,
                backup |-> journal.orig]
CommittedDisk ==
    /\ tree["target"] = journal.cand /\ tree["previous"] = journal.active
    /\ tree["incoming"] = NoApp
    /\ data["target"] = journal.sealed /\ journal.sealed # NoData
    /\ ~HasData("handoff") /\ ClientIn({"target"})
    /\ prepared = SlotReceipt \/ (receipt = SlotReceipt /\ prepared = NoReceipt)

UpdateDisk ==
    /\ journal.active \in Releases /\ journal.prior \in Releases
    /\ ~Committed /\ journal.prior # NoApp => Binds(receipt, journal.active, journal.prior)
    /\ IF ~HadActive THEN FirstDisk ELSE IF Committed THEN CommittedDisk ELSE SwitchDisk

(* A rollback: before, between and after its two moves of a tree, in the    *)
(* reversal too; the client's data is detached or in the active tree.       *)
Before ==
    /\ tree["target"] = journal.active /\ tree["previous"] = journal.cand
    /\ tree["failed"] = NoApp
Between ==
    /\ tree["target"] = NoApp /\ tree["previous"] = journal.cand
    /\ tree["failed"] = journal.active
After ==
    /\ tree["target"] \in {journal.cand, Torn} /\ tree["previous"] = NoApp
    /\ tree["failed"] = journal.active
Switched == After /\ tree["target"] = journal.cand
RollbackDisk ==
    /\ journal.active \in Apps /\ journal.cand \in Apps /\ tree["incoming"] = NoApp
    /\ Binds(receipt, journal.active, journal.cand)
    /\ Before \/ Between \/ After
    /\ ClientIn({VerificationData})
    /\ (Before /\ ~Reversing) =>
          ~HasData("previous") /\ ~(HasData("target") /\ HasData("handoff"))

DiskInv ==
    /\ ~Pending => RestDisk
    /\ journal.op = "update" => UpdateDisk
    /\ journal.op = "rollback" => RollbackDisk

-----------------------------------------------------------------------------
(* What an update has established at each label. *)
ForwardInv ==
    /\ pc = "stage" => tree["incoming"] \in {NoApp, Torn} /\ ~HasData("incoming")
    /\ pc \in {"stage"} \cup StagingLabels =>
          NotRetired /\ ~HasData("previous") /\ journal.sealed = NoData
    /\ pc = "retire" => journal.prior # NoApp
    /\ pc \in {"previous_retired", "seal"} => Retired /\ journal.sealed = NoData
    /\ pc \in {"detach", "data_moved", "deactivate"} => Retired
    /\ pc \in {"stage", "previous_retired", "seal", "detach", "data_moved", "deactivate"}
          \cup StagingLabels => tree["target"] = journal.active
    /\ pc \in {"previous_retired", "seal", "detach"} \cup StagingLabels \cup DetachedLabels =>
          tree["incoming"] = journal.cand
    /\ pc = "detach" => journal.sealed = data["target"]
    /\ pc \in {"detach"} \cup DetachedLabels => ~HasData("incoming")
    /\ pc \in {"data_moved", "deactivate"} \cup ActivatedLabels => ~HasData("target")
    /\ pc \in {"active_moved", "activate"} => tree["target"] = NoApp
    /\ pc \in {"active_moved", "activate"} \cup ActivatedLabels \cup AttachedLabels => Deactivated
    /\ pc \in ActivatedLabels \cup AttachedLabels =>
          tree["target"] = journal.cand /\ tree["incoming"] = NoApp
    /\ pc \in AttachedLabels => HasData("target") /\ ~HasData("handoff")
    /\ pc \in {"slot", "rollback_slot_prepared"} => data["target"] = journal.sealed
    /\ pc = "rollback_slot_prepared" => prepared = SlotReceipt
    /\ pc \in {"rollback_slot_receipted", "r_retired"} => receipt = SlotReceipt

(* ... and its recovery. *)
RecoverInv ==
    /\ forced => tree["incoming"] = NoApp
    /\ pc \in {"r_first", "r_quarantine", "r_abandon"} => tree["target"] # NoApp
    /\ pc = "r_first_data" => tree["target"] = journal.cand
    /\ pc = "r_abandoned" => tree["target"] = NoApp /\ tree["incoming"] = NoApp
    /\ pc = "r_target" =>
          Unswitched /\ ~HasData("previous") /\ (HasData("target") => ~HasData("handoff"))
    /\ pc \in {"r_previous", "r_swap"} => tree["previous"] = journal.active /\ Replaceable
    /\ pc = "r_swap" => HasData("previous")
    /\ pc \in CleanLabels =>
          IF ~HadActive THEN tree["target"] = NoApp
          ELSE Unswitched /\ ~HasData("previous") /\ ~HasData("handoff")
    /\ pc = "r_prior" => tree["incoming"] = NoApp
    /\ pc \in {"finish", "r_finish"} =>
          RestDisk /\ (journal.sealed # NoData => data["target"] = journal.sealed)

(* What a rollback has established, and its completion by a recovery. *)
RollbackInv ==
    /\ pc \in {"rb_probe", "rb_probe_data", "rb_preserve", "rb_pick", "rollback_prepared"} =>
          /\ tree["target"] # NoApp /\ tree["previous"] # NoApp /\ tree["failed"] = NoApp
    /\ pc \in {"rb_probe", "rb_preserve", "rb_pick", "rollback_prepared"} => ~HasData("previous")
    /\ pc \in {"rb_preserve", "rb_pick"} => IsClient(data["target"])
    /\ pc \in {"rb_detach", "rollback_data_moved", "rb_select", "rollback_database_restored",
               "rb_deactivate"} => Before
    /\ pc = "rb_detach" => ~HasData("handoff")
    /\ pc \in {"rollback_active_moved", "rb_activate"} => Between
    /\ pc \in {"rollback_activated", "rb_verify", "rb_attach", "rollback_data_attached",
               "q_seal", "q_probe", "q_attach"} => Switched
    /\ pc \in {"rollback_data_moved", "rb_select", "rollback_database_restored",
               "rb_deactivate", "rollback_active_moved", "rb_activate", "rollback_activated",
               "rb_verify", "rb_attach", "q_select", "q_swap", "q_seal", "q_probe", "q_attach"} =>
          HasData("handoff")
    /\ pc = "rollback_data_attached" => ~HasData("handoff")
    /\ pc \in {"q_select", "q_swap"} => Before \/ Between
    /\ pc = "q_database" =>
          /\ tree["target"] = journal.cand
          /\ HasData("handoff") => After
          /\ HasData("target") => HasData("handoff")
    /\ pc \in {"q_completed", "q_aborted", "q_finish", "rb_finish", "v_original", "v_finish"} =>
          RestDisk
    /\ pc \in {"rb_detach", "rollback_data_moved", "rb_select", "rollback_database_restored",
               "rb_deactivate", "rollback_active_moved", "rb_activate", "rollback_activated",
               "rb_verify", "rb_attach", "rollback_data_attached", "rb_finish", "q_select",
               "q_swap", "q_database", "q_seal", "q_probe", "q_attach"} => ~Reversing

(* ... and its reversal. *)
ReverseInv ==
    /\ pc = "rollback_reversing" => After
    /\ pc = "v_start" => Reversing \/ Switched
    /\ pc \in {"v_data", "v_quarantine", "v_detach", "v_previous",
               "rollback_reversing_candidate_data_quarantined", "rollback_reversing_data_moved"} =>
          Switched
    /\ pc = "v_quarantine" => HasData("handoff")
    /\ pc = "v_detach" => ~HasData("handoff")
    /\ pc \in {"v_previous", "rollback_reversing_data_moved"} => ~IsClient(data["target"])
    /\ pc = "rollback_reversing_target_moved" => Between
    /\ pc \in {"v_target", "v_attach", "rollback_reversed"} => Reversing
    /\ pc = "rollback_reversed" => Before

Custody == Sound /\ DiskInv /\ ForwardInv /\ RecoverInv /\ RollbackInv /\ ReverseInv

(* Copies of the database that the receipts rely on are among the client's  *)
(* backups.                                                                 *)
KeptBackup(r, b) == b # 0 => \E p \in Places : IsClient(data[p]) /\ <<r, b>> \in data[p].kept
KeptInv ==
    /\ KeptBackup(receipt.run, receipt.backup) /\ KeptBackup(prepared.run, prepared.backup)
    /\ journal.op = "update" => KeptBackup(journal.run, journal.orig)
    /\ (pc = "prepared" /\ HadActive) => KeptBackup(journal.run, data["target"].db)

(* A step that loses no directory with the client's data and none of the    *)
(* databases kept in it; the database itself it leaves as it is, unless     *)
(* Atlas writes it or a rollback selects or restores it there.              *)
ReplacesDb == edits' # edits \/ pc \in {"rb_select", "q_select", "q_database", "v_data", "v_original"}
Survive ==
    /\ \A p \in Places : IsClient(data[p]) =>
          \E q \in Places :
             /\ IsClient(data'[q]) /\ data[p].kept \subseteq data'[q].kept
             /\ data'[q].db = data[p].db \/ ReplacesDb
    /\ \A q \in Places : IsClient(data'[q]) => ReplacesDb \/ \E p \in Places : IsClient(data[p])

-----------------------------------------------------------------------------
(* The database, without disturbance.  A rollback finds the database its    *)
(* journal names or has selected the other; where both differ, the first is *)
(* among the client's backups and the other is the one the receipt binds.   *)
NotYet == Before /\ ~Reversing /\ HasData("target")
DbRollback ==
    /\ ClientDb \in {journal.orig, journal.sel}
    /\ journal.sel # journal.orig =>
          /\ journal.orig # 0 /\ journal.sel # 0 /\ journal.sel = receipt.backup
          /\ KeptBackup(journal.run, journal.orig)
    /\ NotYet => ClientDb = journal.orig
SealedDb == (journal.op = "update" /\ journal.sealed # NoData) => journal.sealed.db = journal.orig
(* ... and what an operation has established when it removes its journal,   *)
(* or begins a rollback.                                                    *)
LandedDb ==
    /\ (pc \in {"finish", "r_finish"} /\ HadActive) =>
          IF Committed THEN receipt = SlotReceipt
          ELSE tree["target"] = journal.active /\ tree["previous"] = journal.prior
    /\ (pc \in {"rb_preserve", "rb_pick", "rollback_prepared"} /\ req.restore) =>
          data["target"].db # 0 /\ receipt.backup # 0
    /\ (pc \in {"rb_pick", "rollback_prepared"} /\ req.restore) =>
          KeptBackup(run, data["target"].db)
    /\ pc \in {"rb_finish", "q_completed", "q_finish"} => Switched
    /\ pc \in {"q_aborted", "v_original", "v_finish"} => Before
    /\ pc \in {"q_aborted", "v_finish"} => ClientDb = journal.orig
DbInv == SealedDb /\ (journal.op = "rollback" => DbRollback) /\ LandedDb
=============================================================================
