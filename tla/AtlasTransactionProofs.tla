----------------------- MODULE AtlasTransactionProofs -----------------------
(***************************************************************************)
(* Theorems about AtlasTransaction, for every set of releases and every    *)
(* bound.                                                                  *)
(***************************************************************************)
EXTENDS AtlasCustody, TLAPS

USE AppsAssumption, BoundsAssumption

(* What the file operations do to the types of the disk.                    *)
LEMMA PlainType ==
  ASSUME NEW k \in {"none", "empty", "foreign", "client"} PROVE Plain(k) \in Data
  BY DEF Plain, Data, Dbs, Runs

LEMMA SlotsArePlaces == Slots \subseteq Places
  BY DEF Places

LEMMA MoveTreeType ==
  ASSUME TypeOK, NEW s \in Slots, NEW d \in Slots, MoveTree(s, d)
  PROVE  tree' \in [Slots -> Trees] /\ data' \in [Places -> Data]
  BY PlainType, SlotsArePlaces DEF TypeOK, MoveTree, Trees, NoData

LEMMA MoveDataType ==
  ASSUME TypeOK, NEW p \in Places, NEW q \in Places, MoveData(p, q)
  PROVE  tree' \in [Slots -> Trees] /\ data' \in [Places -> Data]
  BY PlainType DEF TypeOK, MoveData, NoData

LEMMA PutDataType ==
  ASSUME TypeOK, NEW p \in Places, NEW d \in Data, PutData(p, d)
  PROVE  tree' \in [Slots -> Trees] /\ data' \in [Places -> Data]
  BY DEF TypeOK, PutData

LEMMA ShredType ==
  ASSUME TypeOK, NEW s \in Slots, Shred(s)
  PROVE  tree' \in [Slots -> Trees] /\ data' \in [Places -> Data]
  BY DEF TypeOK, Shred, Trees

LEMMA InitType == Init => TypeOK
  <1> SUFFICES ASSUME Init PROVE TypeOK
    OBVIOUS
  <1>1. tree \in [Slots -> Trees]
    BY DEF Init, Trees
  <1>2. data \in [Places -> Data]
    BY PlainType DEF Init, NoData, Empty
  <1>3. journal \in Journal
    BY PlainType DEF Init, NoJournal, Journal, Phases, Runs, Trees, Dbs, NoData
  <1>4. prepared \in Receipts /\ receipt \in Receipts
    BY DEF Init, NoReceipt, Receipts, Runs, Trees, Dbs
  <1>5. req \in Requests /\ forced \in BOOLEAN /\ pc \in Labels
    BY DEF Init, NoRequest, Requests, Trees, Labels
  <1>6. run \in Runs /\ crashes \in 0..MaxCrashes /\ edits \in Dbs
    BY DEF Init, Runs, Dbs
  <1> QED BY <1>1, <1>2, <1>3, <1>4, <1>5, <1>6 DEF TypeOK

(* The disk and the control keep their types separately.                    *)
DiskType ==
    /\ tree \in [Slots -> Trees]
    /\ data \in [Places -> Data]
    /\ journal \in Journal
    /\ prepared \in Receipts /\ receipt \in Receipts
ControlType ==
    /\ pc \in Labels
    /\ req \in Requests /\ forced \in BOOLEAN
    /\ run \in Runs /\ crashes \in 0..MaxCrashes /\ edits \in Dbs

LEMMA TypeParts == TypeOK <=> DiskType /\ ControlType
  BY DEF TypeOK, DiskType, ControlType

LEMMA GotoType == ASSUME ControlType, NEW l \in Labels, Goto(l) PROVE ControlType'
  BY DEF ControlType, Goto, SameBounds

LEMMA StopType == ASSUME ControlType, Stop PROVE ControlType'
  BY DEF ControlType, Stop, SameBounds, NoRequest, Requests, Labels, Trees

LEMMA RefuseType == ASSUME DiskType, ControlType, Refuse PROVE DiskType' /\ ControlType'
  BY StopType DEF Refuse, disk, DiskType

LEMMA SameDiskType == ASSUME DiskType, UNCHANGED disk PROVE DiskType'
  BY DEF DiskType, disk

LEMMA WriteStateType == ASSUME DiskType, NEW p \in Phases, WriteState(p) PROVE DiskType'
  BY DEF DiskType, WriteState, Journal

LEMMA NoJournalType == NoJournal \in Journal
  BY PlainType DEF NoJournal, Journal, Phases, Runs, Trees, Dbs, NoData

LEMMA RemoveJournalType == ASSUME DiskType, RemoveJournal PROVE DiskType'
  BY NoJournalType DEF DiskType, RemoveJournal

LEMMA MoveTreeExactType ==
  ASSUME DiskType, ControlType, NEW s \in Slots, NEW d \in Slots, NEW l \in Labels,
         MoveTreeExact(s, d, l)
  PROVE  DiskType' /\ ControlType'
  BY MoveTreeType, TypeParts, GotoType, RefuseType DEF MoveTreeExact, SameFiles, DiskType

LEMMA MoveDataExactType ==
  ASSUME DiskType, ControlType, NEW p \in Places, NEW q \in Places, NEW l \in Labels,
         MoveDataExact(p, q, l)
  PROVE  DiskType' /\ ControlType'
  BY MoveDataType, TypeParts, GotoType, RefuseType DEF MoveDataExact, SameFiles, DiskType

(* The same, of the disk alone, wherever control goes next.                 *)
LEMMA MoveTreeExactDisk ==
  ASSUME DiskType, ControlType, NEW s \in Slots, NEW d \in Slots, NEW l, MoveTreeExact(s, d, l)
  PROVE  DiskType'
  BY MoveTreeType, TypeParts, RefuseType DEF MoveTreeExact, SameFiles, DiskType

LEMMA MoveDataExactDisk ==
  ASSUME DiskType, ControlType, NEW p \in Places, NEW q \in Places, NEW l, MoveDataExact(p, q,
         l)
  PROVE  DiskType'
  BY MoveDataType, TypeParts, RefuseType DEF MoveDataExact, SameFiles, DiskType

LEMMA CompleteSlotReceiptType ==
  ASSUME TypeOK, NEW l \in Labels, CompleteSlotReceipt(l) PROVE DiskType' /\ ControlType'
  <1>1. ControlType'
    BY TypeParts, GotoType, RefuseType DEF CompleteSlotReceipt
  <1>2. DiskType'
    BY TypeParts, RefuseType, SameDiskType
      DEF CompleteSlotReceipt, DiskType, SameSlots, NoReceipt, Receipts, Runs, Trees, Dbs
  <1> QED BY <1>1, <1>2

LEMMA EnsureSelectedType ==
  ASSUME TypeOK, NEW p \in Places, NEW l \in Labels, EnsureSelected(p, l)
  PROVE  DiskType' /\ ControlType'
  <1>1. ControlType'
    BY TypeParts, GotoType, RefuseType DEF EnsureSelected
  <1>2. [data[p] EXCEPT !.db = journal.sel, !.pick = 0] \in Data
    <2>1. 0 \in Dbs /\ journal.sel \in Dbs /\ data[p] \in Data
      BY TypeParts DEF DiskType, Journal, Dbs
    <2> QED BY <2>1 DEF Data
  <1>3. DiskType'
    BY <1>2, TypeParts, RefuseType, SameDiskType, PutDataType
      DEF EnsureSelected, DiskType, SameFiles
  <1> QED BY <1>1, <1>3

LEMMA SealSelectedType ==
  ASSUME TypeOK, NEW p \in Places, SealSelected(p) PROVE DiskType'
  <1>1. journal' \in Journal
    BY TypeParts DEF SealSelected, DiskType, Journal, Phases
  <1> QED BY <1>1, TypeParts DEF SealSelected, DiskType

LEMMA RestoreOriginalType ==
  ASSUME TypeOK, NEW p \in Places, NEW l \in Labels, RestoreOriginal(p, l)
  PROVE  DiskType' /\ ControlType'
  <1>1. ControlType'
    BY TypeParts, GotoType, RefuseType DEF RestoreOriginal
  <1>2. OriginalData(p) \in Data
    BY TypeParts DEF OriginalData, DiskType, Data, Journal
  <1>3. DiskType'
    BY <1>2, TypeParts, RefuseType, PutDataType DEF RestoreOriginal, DiskType, SameFiles
  <1> QED BY <1>1, <1>3

LEMMA KeptType ==
  ASSUME TypeOK, NEW p \in Places, NEW r \in Runs
  PROVE  [data[p] EXCEPT !.kept = @ \cup {<<r, data[p].db>>}] \in Data
  BY TypeParts DEF DiskType, Data

LEMMA PickType ==
  ASSUME TypeOK, NEW p \in Places, NEW b \in Dbs PROVE [data[p] EXCEPT !.pick = b] \in Data
  BY TypeParts DEF DiskType, Data

-----------------------------------------------------------------------------
(* The steps of an update.                                                  *)
LEMMA RemoveRetiredType == ASSUME TypeOK, RemoveRetired PROVE DiskType' /\ ControlType'
  <1>1. ControlType'
    BY TypeParts, GotoType, RefuseType DEF RemoveRetired, Labels, Slots, Places
  <1>2. DiskType'
    BY TypeParts, RefuseType, ShredType DEF RemoveRetired, SameFiles, Slots, Places, DiskType
  <1> QED BY <1>1, <1>2

LEMMA BeginUpdateType == ASSUME TypeOK, BeginUpdate PROVE DiskType' /\ ControlType'
  <1>1. CASE Refuse
    BY <1>1, TypeParts, RefuseType
  <1>2. CASE ~Refuse
    <2>1. run < MaxRuns /\ run' = run + 1
      BY <1>2, TypeParts DEF BeginUpdate, ControlType, Runs
    <2>2. run' \in Runs
      BY <2>1, TypeParts DEF ControlType, Runs
    <2>3. ControlType'
      BY <1>2, <2>2, TypeParts DEF BeginUpdate, ControlType, Labels
    <2>4. req.cand \in Trees /\ tree["target"] \in Trees /\ tree["previous"] \in Trees
      BY TypeParts DEF DiskType, ControlType, Slots, Requests
    <2>5. journal' \in Journal
      BY ZenonT(40), <1>2, <2>1, <2>2, <2>4, NoJournalType
        DEF BeginUpdate, NoJournal, Journal, Phases
    <2>6. DiskType'
      BY <1>2, <2>5, TypeParts, PlainType
        DEF BeginUpdate, DiskType, Slots, Places, Trees, NoData
    <2> QED BY <2>3, <2>6
  <1> QED BY <1>1, <1>2

LEMMA StageCopyType == ASSUME TypeOK, StageCopy PROVE DiskType' /\ ControlType'
  <1>1. ControlType'
    BY TypeParts, GotoType DEF StageCopy, Labels
  <1>2. DiskType'
    BY TypeParts DEF StageCopy, DiskType, SameFiles, Slots, Trees
  <1> QED BY <1>1, <1>2

LEMMA StageDoneType == ASSUME TypeOK, StageDone PROVE DiskType' /\ ControlType'
  <1>1. ControlType'
    BY TypeParts, GotoType DEF StageDone, Labels
  <1>2. DiskType'
    BY TypeParts DEF StageDone, DiskType, SameFiles, Slots, Trees, Journal
  <1> QED BY <1>1, <1>2

LEMMA WriteStagedType == ASSUME TypeOK, WriteStaged PROVE DiskType' /\ ControlType'
  <1>1. ControlType'
    BY TypeParts, GotoType DEF WriteStaged, Labels
  <1>2. DiskType'
    BY TypeParts, WriteStateType DEF WriteStaged, Phases, DiskType
  <1> QED BY <1>1, <1>2

LEMMA EnsureActiveDataType == ASSUME TypeOK, EnsureActiveData PROVE DiskType' /\ ControlType'
  <1>1. ControlType'
    BY TypeParts, GotoType DEF EnsureActiveData, HadActive, Labels, Slots, Places
  <1>2. DiskType'
    BY TypeParts, PutDataType, PlainType
      DEF EnsureActiveData, HadActive, Empty, SameSlots, SameFiles, Slots, Places, DiskType
  <1> QED BY <1>1, <1>2

LEMMA ProbePassesType == ASSUME TypeOK, ProbePasses PROVE DiskType' /\ ControlType'
  <1>1. ControlType'
    BY TypeParts, GotoType DEF ProbePasses, Passes, Labels, Slots, Places
  <1>2. DiskType'
    BY TypeParts DEF ProbePasses, Passes, SameFiles, SameSlots, DiskType
  <1> QED BY <1>1, <1>2

LEMMA ProbeFailsType == ASSUME TypeOK, ProbeFails PROVE DiskType' /\ ControlType'
  <1>1. ControlType'
    BY TypeParts, StopType DEF ProbeFails, Labels
  <1>2. DiskType'
    BY TypeParts DEF ProbeFails, DiskType, SameFiles, SameSlots, Fails, Mutates, Slots, Trees
  <1> QED BY <1>1, <1>2

LEMMA ProbeCreatesDataType == ASSUME TypeOK, ProbeCreatesData PROVE DiskType' /\ ControlType'
  <1>1. ControlType'
    BY TypeParts, GotoType, StopType DEF ProbeCreatesData, CreatesData, Labels, Slots, Places
  <1>2. DiskType'
    BY TypeParts, PutDataType, PlainType
      DEF ProbeCreatesData, CreatesData, SameFiles, Empty, Foreign, Slots, Places, DiskType
  <1> QED BY <1>1, <1>2

LEMMA BackupDatabaseType == ASSUME TypeOK, BackupDatabase PROVE DiskType' /\ ControlType'
  <1>1. ControlType'
    BY TypeParts, GotoType DEF BackupDatabase, Labels
  <1>2. DiskType'
    BY TypeParts, PutDataType
      DEF BackupDatabase, DiskType, SameFiles, SameSlots, Slots, Places, Data, Journal
  <1> QED BY <1>1, <1>2

LEMMA WritePreparedType == ASSUME TypeOK, WritePrepared PROVE DiskType' /\ ControlType'
  <1>1. ControlType'
    BY TypeParts, GotoType DEF WritePrepared, Labels
  <1>2. (IF HadActive THEN data["target"].db ELSE 0) \in Dbs
    BY TypeParts DEF DiskType, Slots, Places, Data, Dbs
  <1>3. journal' \in Journal
    BY <1>2, TypeParts DEF WritePrepared, DiskType, Journal, Phases
  <1>4. DiskType'
    BY <1>3, TypeParts DEF WritePrepared, DiskType
  <1> QED BY <1>1, <1>4

LEMMA RetirePreviousType == ASSUME TypeOK, RetirePrevious PROVE DiskType' /\ ControlType'
  BY TypeParts, MoveTreeExactType DEF RetirePrevious, Labels, Slots, Places

LEMMA WritePreviousRetiredType == ASSUME TypeOK, WritePreviousRetired PROVE DiskType' /\
    ControlType'
  <1>1. ControlType'
    BY TypeParts, GotoType DEF WritePreviousRetired, Labels
  <1>2. DiskType'
    BY TypeParts, WriteStateType DEF WritePreviousRetired, Phases, DiskType
  <1> QED BY <1>1, <1>2

LEMMA SealDataType == ASSUME TypeOK, SealData PROVE DiskType' /\ ControlType'
  <1>1. ControlType'
    BY TypeParts, GotoType, RefuseType DEF SealData, Labels
  <1>2. [journal EXCEPT !.phase = "prepared", !.sealed = data["target"]] \in Journal
    BY TypeParts DEF DiskType, Slots, Places, Journal, Phases
  <1>3. DiskType'
    BY <1>2, TypeParts, SameDiskType, RefuseType DEF SealData, DiskType
  <1> QED BY <1>1, <1>3

LEMMA DetachDataType == ASSUME TypeOK, DetachData PROVE DiskType' /\ ControlType'
  <1>1. ControlType'
    BY TypeParts, MoveDataExactType DEF DetachData, Labels, Slots, Places
  <1>2. DiskType'
    BY TypeParts, MoveDataExactDisk DEF DetachData, Slots, Places
  <1> QED BY <1>1, <1>2

LEMMA WriteDataMovedType == ASSUME TypeOK, WriteDataMoved PROVE DiskType' /\ ControlType'
  <1>1. ControlType'
    BY TypeParts, GotoType, RefuseType DEF WriteDataMoved, HadActive, Labels, Slots, Places
  <1>2. DiskType'
    BY TypeParts, RefuseType, WriteStateType DEF WriteDataMoved, HadActive, Phases, DiskType
  <1> QED BY <1>1, <1>2

LEMMA DeactivateOldType == ASSUME TypeOK, DeactivateOld PROVE DiskType' /\ ControlType'
  BY TypeParts, MoveTreeExactType DEF DeactivateOld, Labels, Slots, Places

LEMMA WriteActiveMovedType == ASSUME TypeOK, WriteActiveMoved PROVE DiskType' /\ ControlType'
  <1>1. ControlType'
    BY TypeParts, GotoType DEF WriteActiveMoved, Labels
  <1>2. DiskType'
    BY TypeParts, WriteStateType DEF WriteActiveMoved, Phases, DiskType
  <1> QED BY <1>1, <1>2

LEMMA ActivateCandidateType == ASSUME TypeOK, ActivateCandidate PROVE DiskType' /\ ControlType'
  BY TypeParts, MoveTreeExactType DEF ActivateCandidate, Labels, Slots, Places

LEMMA WriteActivatedType == ASSUME TypeOK, WriteActivated PROVE DiskType' /\ ControlType'
  <1>1. ControlType'
    BY TypeParts, GotoType DEF WriteActivated, Labels
  <1>2. DiskType'
    BY TypeParts, WriteStateType DEF WriteActivated, Phases, DiskType
  <1> QED BY <1>1, <1>2

LEMMA VerifyPassesType == ASSUME TypeOK, VerifyPasses PROVE DiskType' /\ ControlType'
  <1>1. ControlType'
    BY TypeParts, GotoType DEF VerifyPasses, HadActive, Labels, Slots, Places
  <1>2. DiskType'
    BY TypeParts, SameDiskType DEF VerifyPasses, HadActive, DiskType
  <1> QED BY <1>1, <1>2

LEMMA VerifyFailsType == ASSUME TypeOK, VerifyFails PROVE DiskType' /\ ControlType'
  <1>1. ControlType'
    BY TypeParts DEF VerifyFails, Labels, ControlType, ForceRecovery, SameBounds
  <1>2. DiskType'
    BY TypeParts, PlainType, PutDataType
      DEF VerifyFails, DiskType, SameFiles, SameSlots, Fails, Mutates, CreatesData, Slots,
          Places, Trees, Empty, Foreign
  <1> QED BY <1>1, <1>2

LEMMA WriteAttachPendingType ==
  ASSUME TypeOK, WriteAttachPending PROVE DiskType' /\ ControlType'
  <1>1. ControlType'
    BY TypeParts, GotoType DEF WriteAttachPending, Labels
  <1>2. DiskType'
    BY TypeParts, WriteStateType DEF WriteAttachPending, Phases, DiskType
  <1> QED BY <1>1, <1>2

LEMMA AttachDataType == ASSUME TypeOK, AttachData PROVE DiskType' /\ ControlType'
  <1>1. ControlType'
    BY TypeParts, GotoType, RefuseType, MoveDataExactType DEF AttachData, Labels, Slots, Places
  <1>2. DiskType'
    <2>1. CASE Refuse
      BY <2>1, TypeParts, RefuseType
    <2>2. CASE PutData("target", Empty) /\ SameFiles
      <3>1. Empty \in Data
        BY PlainType DEF Empty
      <3> QED BY <2>2, <3>1, TypeParts, PutDataType DEF DiskType, SameFiles, Slots, Places
    <2>3. CASE MoveDataExact("handoff", "target", "data_attached")
      BY <2>3, TypeParts, MoveDataExactDisk DEF Slots, Places
    <2> QED BY <2>1, <2>2, <2>3 DEF AttachData
  <1> QED BY <1>1, <1>2

LEMMA WriteDataAttachedType == ASSUME TypeOK, WriteDataAttached PROVE DiskType' /\ ControlType'
  <1>1. ControlType'
    BY TypeParts, GotoType, RefuseType DEF WriteDataAttached, HadActive, Labels, Slots, Places
  <1>2. DiskType'
    BY TypeParts, RefuseType, WriteStateType DEF WriteDataAttached, HadActive, Phases, DiskType
  <1> QED BY <1>1, <1>2

LEMMA PrepareSlotReceiptType ==
  ASSUME TypeOK, PrepareSlotReceipt PROVE DiskType' /\ ControlType'
  <1>1. ControlType'
    BY TypeParts, GotoType DEF PrepareSlotReceipt, Labels
  <1>2. DiskType'
    BY TypeParts DEF PrepareSlotReceipt, DiskType, SameSlots, Receipts, Slots, Places, Journal
  <1> QED BY <1>1, <1>2

LEMMA WriteSlotPreparedType == ASSUME TypeOK, WriteSlotPrepared PROVE DiskType' /\ ControlType'
  <1>1. ControlType'
    BY TypeParts, GotoType DEF WriteSlotPrepared, Labels
  <1>2. DiskType'
    BY TypeParts, WriteStateType DEF WriteSlotPrepared, Phases, DiskType
  <1> QED BY <1>1, <1>2

LEMMA PublishReceiptType == ASSUME TypeOK, PublishReceipt PROVE DiskType' /\ ControlType'
  <1>1. ControlType'
    BY TypeParts, GotoType, RefuseType DEF PublishReceipt, Labels, CompleteSlotReceipt
  <1>2. DiskType'
    BY TypeParts, RefuseType, SameDiskType
      DEF PublishReceipt, DiskType, CompleteSlotReceipt, SameSlots, NoReceipt, Receipts, Runs,
          Trees, Dbs
  <1> QED BY <1>1, <1>2

LEMMA WriteSlotReceiptedType ==
  ASSUME TypeOK, WriteSlotReceipted PROVE DiskType' /\ ControlType'
  <1>1. ControlType'
    BY TypeParts, GotoType DEF WriteSlotReceipted, Labels
  <1>2. DiskType'
    BY TypeParts, WriteStateType DEF WriteSlotReceipted, Phases, DiskType
  <1> QED BY <1>1, <1>2

LEMMA FinishUpdateType == ASSUME TypeOK, FinishUpdate PROVE DiskType' /\ ControlType'
  <1>1. ControlType'
    BY TypeParts, GotoType DEF FinishUpdate, Labels
  <1>2. DiskType'
    BY TypeParts, RemoveJournalType DEF FinishUpdate, DiskType
  <1> QED BY <1>1, <1>2

LEMMA DropRetiredType == ASSUME TypeOK, DropRetired PROVE DiskType' /\ ControlType'
  <1>1. ControlType'
    BY TypeParts, GotoType, RefuseType DEF DropRetired, Labels, Slots, Places
  <1>2. DiskType'
    BY TypeParts, RefuseType, ShredType DEF DropRetired, SameFiles, Slots, Places, DiskType
  <1> QED BY <1>1, <1>2

LEMMA UpdateStepType == ASSUME TypeOK, UpdateStep PROVE TypeOK'
  <1>1. DiskType' /\ ControlType'
    BY RemoveRetiredType, BeginUpdateType, StageCopyType, StageDoneType, WriteStagedType,
       EnsureActiveDataType, ProbePassesType, ProbeFailsType, ProbeCreatesDataType,
       BackupDatabaseType, WritePreparedType, RetirePreviousType, WritePreviousRetiredType,
       SealDataType, DetachDataType, WriteDataMovedType, DeactivateOldType,
       WriteActiveMovedType, ActivateCandidateType, WriteActivatedType, VerifyPassesType,
       VerifyFailsType, WriteAttachPendingType, AttachDataType, WriteDataAttachedType,
       PrepareSlotReceiptType, WriteSlotPreparedType, PublishReceiptType,
       WriteSlotReceiptedType, FinishUpdateType, DropRetiredType
      DEF UpdateStep
  <1> QED BY <1>1 DEF TypeOK, DiskType, ControlType

-----------------------------------------------------------------------------
(* The steps of Recover-Update.                                             *)
LEMMA RecoverUpdateType == ASSUME TypeOK, RecoverUpdate PROVE DiskType' /\ ControlType'
  <1>1. ControlType'
    BY TypeParts, GotoType, StopType
      DEF RecoverUpdate, RecoveryBranch, Committed, HadActive, Labels, Slots, Places
  <1>2. DiskType'
    BY TypeParts, SameDiskType DEF RecoverUpdate, RecoveryBranch, Committed, HadActive, DiskType
  <1> QED BY <1>1, <1>2

LEMMA RecoverReceiptType == ASSUME TypeOK, RecoverReceipt PROVE DiskType' /\ ControlType'
  BY TypeParts, CompleteSlotReceiptType DEF RecoverReceipt, Labels

LEMMA RecoverRetiredType == ASSUME TypeOK, RecoverRetired PROVE DiskType' /\ ControlType'
  <1>1. ControlType'
    BY TypeParts, GotoType, RefuseType DEF RecoverRetired, Labels, Slots, Places
  <1>2. DiskType'
    BY TypeParts, RefuseType, SameDiskType, ShredType
      DEF RecoverRetired, SameFiles, Slots, Places, DiskType
  <1> QED BY <1>1, <1>2

LEMMA RecoverFirstType == ASSUME TypeOK, RecoverFirst PROVE DiskType' /\ ControlType'
  <1>1. ControlType'
    BY TypeParts, GotoType DEF RecoverFirst, Labels
  <1>2. DiskType'
    BY TypeParts, SameDiskType, PlainType, PutDataType
      DEF RecoverFirst, DiskType, SameFiles, SameSlots, Passes, Fails, Mutates, Slots, Places,
          Trees, Empty, Foreign, NoData
  <1> QED BY <1>1, <1>2

LEMMA RecoverFirstDataType == ASSUME TypeOK, RecoverFirstData PROVE DiskType' /\ ControlType'
  <1>1. ControlType'
    BY TypeParts, GotoType DEF RecoverFirstData, Labels, Slots, Places
  <1>2. DiskType'
    BY TypeParts, PutDataType, PlainType
      DEF RecoverFirstData, Empty, SameFiles, Slots, Places, DiskType
  <1> QED BY <1>1, <1>2

LEMMA QuarantineTargetType == ASSUME TypeOK, QuarantineTarget PROVE DiskType' /\ ControlType'
  BY TypeParts, MoveTreeExactType DEF QuarantineTarget, Slots, Labels

LEMMA AbandonFirstType == ASSUME TypeOK, AbandonFirst PROVE DiskType' /\ ControlType'
  <1>1. ControlType'
    BY TypeParts, StopType DEF AbandonFirst, Labels
  <1>2. DiskType'
    BY TypeParts, RemoveJournalType DEF AbandonFirst, DiskType
  <1> QED BY <1>1, <1>2

LEMMA RecoverTargetDataType == ASSUME TypeOK, RecoverTargetData PROVE DiskType' /\ ControlType'
  <1>1. ControlType'
    BY TypeParts, GotoType, MoveDataExactType DEF RecoverTargetData, Labels, Slots, Places
  <1>2. DiskType'
    BY TypeParts, SameDiskType, MoveDataExactDisk DEF RecoverTargetData, Slots, Places, DiskType
  <1> QED BY <1>1, <1>2

LEMMA RecoverPreviousDataType ==
  ASSUME TypeOK, RecoverPreviousData PROVE DiskType' /\ ControlType'
  <1>1. ControlType'
    BY TypeParts, GotoType, MoveDataExactType DEF RecoverPreviousData, Labels, Slots, Places
  <1>2. DiskType'
    BY TypeParts, SameDiskType, MoveDataExactDisk
      DEF RecoverPreviousData, Slots, Places, DiskType
  <1> QED BY <1>1, <1>2

LEMMA RecoverSwapType == ASSUME TypeOK, RecoverSwap PROVE DiskType' /\ ControlType'
  <1>1. CASE MoveTreeExact("target", "failed", "r_swap")
    BY <1>1, TypeParts, MoveTreeExactType DEF Labels, Slots
  <1>2. CASE MoveTreeExact("previous", "target", "r_incoming")
    BY <1>2, TypeParts, MoveTreeExactType DEF Labels, Slots
  <1> QED BY <1>1, <1>2 DEF RecoverSwap

LEMMA RecoverIncomingType == ASSUME TypeOK, RecoverIncoming PROVE DiskType' /\ ControlType'
  <1>1. ControlType'
    BY TypeParts, GotoType, RefuseType, MoveTreeExactType DEF RecoverIncoming, Labels, Slots
  <1>2. DiskType'
    <2>1. CASE UNCHANGED disk
      BY <2>1, TypeParts, SameDiskType
    <2>2. CASE MoveTreeExact("incoming", "failed", "r_prior")
      BY <2>2, TypeParts, MoveTreeExactDisk DEF Slots
    <2>3. CASE PutData("incoming", NoData) /\ SameFiles
      <3>1. NoData \in Data
        BY PlainType DEF NoData
      <3> QED BY <2>3, <3>1, TypeParts, PutDataType DEF DiskType, SameFiles, Slots, Places
    <2>4. CASE Shred("incoming") /\ SameFiles
      BY <2>4, TypeParts, ShredType DEF DiskType, SameFiles, Slots
    <2> QED BY <2>1, <2>2, <2>3, <2>4 DEF RecoverIncoming
  <1> QED BY <1>1, <1>2

LEMMA RecoverPriorType == ASSUME TypeOK, RecoverPrior PROVE DiskType' /\ ControlType'
  <1>1. ControlType'
    BY TypeParts, GotoType, RefuseType, MoveTreeExactType DEF RecoverPrior, Labels, Slots
  <1>2. DiskType'
    BY TypeParts, SameDiskType, RefuseType, MoveTreeExactDisk DEF RecoverPrior, Slots
  <1> QED BY <1>1, <1>2

LEMMA RecoverFinishType == ASSUME TypeOK, RecoverFinish PROVE DiskType' /\ ControlType'
  <1>1. ControlType'
    BY TypeParts, GotoType, StopType DEF RecoverFinish, AfterRecovery, Labels
  <1>2. DiskType'
    BY TypeParts, RemoveJournalType DEF RecoverFinish, AfterRecovery, DiskType
  <1> QED BY <1>1, <1>2

LEMMA RecoverUpdateStepType == ASSUME TypeOK, RecoverUpdateStep PROVE TypeOK'
  <1>1. DiskType' /\ ControlType'
    BY RecoverUpdateType, RecoverReceiptType, RecoverRetiredType, RecoverFirstType,
       RecoverFirstDataType, QuarantineTargetType, AbandonFirstType, RecoverTargetDataType,
       RecoverPreviousDataType, RecoverSwapType, RecoverIncomingType, RecoverPriorType,
       RecoverFinishType
      DEF RecoverUpdateStep
  <1> QED BY <1>1 DEF TypeOK, DiskType, ControlType

-----------------------------------------------------------------------------
(* The steps of a rollback.                                                 *)
LEMMA BeginRollbackType == ASSUME TypeOK, BeginRollback PROVE DiskType' /\ ControlType'
  <1>1. CASE Refuse
    BY <1>1, TypeParts, RefuseType
  <1>2. CASE ~Refuse
    <2>1. run < MaxRuns /\ run' = run + 1
      BY <1>2, TypeParts DEF BeginRollback, ControlType, Runs
    <2>2. run' \in Runs
      BY <2>1, TypeParts DEF ControlType, Runs
    <2>3. ControlType'
      BY <1>2, <2>2, TypeParts DEF BeginRollback, ControlType, Labels
    <2>4. [data["target"] EXCEPT !.pick = 0] \in Data
      BY PickType DEF Places, Slots, Dbs
    <2>5. data' \in [Places -> Data]
      BY <1>2, <2>4, TypeParts, PlainType DEF BeginRollback, DiskType, Slots, Places, NoData
    <2>6. DiskType'
      BY <1>2, <2>5, TypeParts DEF BeginRollback, DiskType, Slots, Trees, SameFiles
    <2> QED BY <2>3, <2>6
  <1> QED BY <1>1, <1>2

LEMMA RollbackProbePassesType ==
  ASSUME TypeOK, RollbackProbePasses PROVE DiskType' /\ ControlType'
  <1>1. ControlType'
    BY TypeParts, GotoType, StopType DEF RollbackProbePasses, Labels, Slots, Places
  <1>2. DiskType'
    BY TypeParts, SameDiskType DEF RollbackProbePasses, DiskType
  <1> QED BY <1>1, <1>2

LEMMA RollbackProbeFailsType ==
  ASSUME TypeOK, RollbackProbeFails PROVE DiskType' /\ ControlType'
  <1>1. ControlType'
    BY TypeParts, GotoType, StopType
      DEF RollbackProbeFails, Fails, CreatesData, Labels, Slots, Places
  <1>2. DiskType'
    BY TypeParts, PutDataType, PlainType
      DEF RollbackProbeFails, Fails, SameFiles, CreatesData, Empty, Foreign, SameSlots, Slots,
          Places, DiskType
  <1> QED BY <1>1, <1>2

LEMMA MoveProbeDataType == ASSUME TypeOK, MoveProbeData PROVE DiskType' /\ ControlType'
  <1>1. ControlType'
    BY TypeParts, StopType, RefuseType, MoveDataType DEF MoveProbeData, Labels, Slots, Places
  <1>2. DiskType'
    BY TypeParts, RefuseType, MoveDataType DEF MoveProbeData, SameFiles, Slots, Places, DiskType
  <1> QED BY <1>1, <1>2

LEMMA PreserveDatabaseType == ASSUME TypeOK, PreserveDatabase PROVE DiskType' /\ ControlType'
  <1>1. ControlType'
    BY TypeParts, GotoType DEF PreserveDatabase, Labels
  <1>2. [data["target"] EXCEPT !.kept = @ \cup {<<run, data["target"].db>>}] \in Data
    BY KeptType, TypeParts DEF Places, Slots, ControlType
  <1>3. DiskType'
    BY <1>2, TypeParts, PutDataType DEF PreserveDatabase, DiskType, SameFiles, Places, Slots
  <1> QED BY <1>1, <1>3

LEMMA PickDatabaseType == ASSUME TypeOK, PickDatabase PROVE DiskType' /\ ControlType'
  <1>1. ControlType'
    BY TypeParts, GotoType DEF PickDatabase, Labels
  <1>2. [data["target"] EXCEPT !.pick = receipt.backup] \in Data
    BY PickType, TypeParts DEF Places, Slots, DiskType, Receipts
  <1>3. DiskType'
    BY <1>2, TypeParts, PutDataType DEF PickDatabase, DiskType, SameFiles, Places, Slots
  <1> QED BY <1>1, <1>3

LEMMA WriteRollbackPreparedType ==
  ASSUME TypeOK, WriteRollbackPrepared PROVE DiskType' /\ ControlType'
  <1>1. ControlType'
    BY TypeParts, GotoType DEF WriteRollbackPrepared, Labels
   <1>2. tree["target"] \in Trees /\ tree["previous"] \in Trees /\ run \in Runs /\ req.restore \in
      BOOLEAN
    BY TypeParts DEF DiskType, ControlType, Slots, Requests
  <1>3. data["target"].db \in Dbs /\ receipt.backup \in Dbs
    BY TypeParts DEF DiskType, Slots, Places, Data, Receipts
  <1>4. journal' \in Journal
    BY <1>2, <1>3, NoJournalType DEF WriteRollbackPrepared, Journal, Phases, NoJournal
  <1>5. DiskType'
    BY <1>4, TypeParts DEF WriteRollbackPrepared, DiskType
  <1> QED BY <1>1, <1>5

LEMMA DetachRollbackDataType ==
  ASSUME TypeOK, DetachRollbackData PROVE DiskType' /\ ControlType'
  BY TypeParts, MoveDataExactType DEF DetachRollbackData, Slots, Places, Labels

LEMMA WriteRollbackDataMovedType == ASSUME TypeOK, WriteRollbackDataMoved PROVE DiskType' /\
    ControlType'
  <1>1. ControlType'
    BY TypeParts, GotoType DEF WriteRollbackDataMoved, Labels
  <1>2. DiskType'
    BY TypeParts, WriteStateType DEF WriteRollbackDataMoved, Phases, DiskType
  <1> QED BY <1>1, <1>2

LEMMA SelectDatabaseType == ASSUME TypeOK, SelectDatabase PROVE DiskType' /\ ControlType'
  BY TypeParts, EnsureSelectedType DEF SelectDatabase, Places, Labels

LEMMA WriteDatabaseRestoredType == ASSUME TypeOK, WriteDatabaseRestored PROVE DiskType' /\
    ControlType'
  BY TypeParts, SealSelectedType, GotoType DEF WriteDatabaseRestored, Places, Labels

LEMMA DeactivateNewerType == ASSUME TypeOK, DeactivateNewer PROVE DiskType' /\ ControlType'
  BY TypeParts, MoveTreeExactType DEF DeactivateNewer, Labels, Slots, Places

LEMMA WriteRollbackActiveMovedType == ASSUME TypeOK, WriteRollbackActiveMoved PROVE DiskType' /\
    ControlType'
  <1>1. ControlType'
    BY TypeParts, GotoType DEF WriteRollbackActiveMoved, Labels
  <1>2. DiskType'
    BY TypeParts, WriteStateType DEF WriteRollbackActiveMoved, Phases, DiskType
  <1> QED BY <1>1, <1>2

LEMMA ActivatePreviousType == ASSUME TypeOK, ActivatePrevious PROVE DiskType' /\ ControlType'
  BY TypeParts, MoveTreeExactType DEF ActivatePrevious, Labels, Slots, Places

LEMMA WriteRollbackActivatedType == ASSUME TypeOK, WriteRollbackActivated PROVE DiskType' /\
    ControlType'
  <1>1. ControlType'
    BY TypeParts, GotoType DEF WriteRollbackActivated, Labels
  <1>2. DiskType'
    BY TypeParts, WriteStateType DEF WriteRollbackActivated, Phases, DiskType
  <1> QED BY <1>1, <1>2

LEMMA RollbackVerifyPassesType == ASSUME TypeOK, RollbackVerifyPasses PROVE DiskType' /\
    ControlType'
  <1>1. ControlType'
    BY TypeParts, GotoType DEF RollbackVerifyPasses, Labels, Slots, Places
  <1>2. DiskType'
    BY TypeParts, SameDiskType DEF RollbackVerifyPasses, DiskType
  <1> QED BY <1>1, <1>2

LEMMA RollbackVerifyFailsType ==
  ASSUME TypeOK, RollbackVerifyFails PROVE DiskType' /\ ControlType'
  <1>1. ControlType'
    BY TypeParts, GotoType DEF RollbackVerifyFails, Labels
  <1>2. DiskType'
    BY TypeParts, PlainType, PutDataType
      DEF RollbackVerifyFails, DiskType, SameFiles, SameSlots, Fails, Mutates, CreatesData,
          Slots, Places, Trees, Empty, Foreign
  <1> QED BY <1>1, <1>2

LEMMA WriteReversingType == ASSUME TypeOK, WriteReversing PROVE DiskType' /\ ControlType'
  <1>1. ControlType'
    BY TypeParts, GotoType DEF WriteReversing, Labels
  <1>2. DiskType'
    BY TypeParts, WriteStateType DEF WriteReversing, Phases, DiskType
  <1> QED BY <1>1, <1>2

LEMMA AttachRollbackDataType ==
  ASSUME TypeOK, AttachRollbackData PROVE DiskType' /\ ControlType'
  BY TypeParts, MoveDataExactType DEF AttachRollbackData, Slots, Places, Labels

LEMMA WriteRollbackDataAttachedType ==
  ASSUME TypeOK, WriteRollbackDataAttached PROVE DiskType' /\
    ControlType'
  <1>1. ControlType'
    BY TypeParts, GotoType DEF WriteRollbackDataAttached, Labels
  <1>2. DiskType'
    BY TypeParts, WriteStateType DEF WriteRollbackDataAttached, Phases, DiskType
  <1> QED BY <1>1, <1>2

LEMMA FinishRollbackType == ASSUME TypeOK, FinishRollback PROVE DiskType' /\ ControlType'
  <1>1. ControlType'
    BY TypeParts, StopType DEF FinishRollback, Labels
  <1>2. DiskType'
    BY TypeParts, RemoveJournalType DEF FinishRollback, DiskType
  <1> QED BY <1>1, <1>2

LEMMA RollbackStepType == ASSUME TypeOK, RollbackStep PROVE TypeOK'
  <1>1. DiskType' /\ ControlType'
    BY BeginRollbackType, RollbackProbePassesType, RollbackProbeFailsType, MoveProbeDataType,
       PreserveDatabaseType, PickDatabaseType, WriteRollbackPreparedType,
       DetachRollbackDataType, WriteRollbackDataMovedType, SelectDatabaseType,
       WriteDatabaseRestoredType, DeactivateNewerType, WriteRollbackActiveMovedType,
       ActivatePreviousType, WriteRollbackActivatedType, RollbackVerifyPassesType,
       RollbackVerifyFailsType, WriteReversingType, AttachRollbackDataType,
       WriteRollbackDataAttachedType, FinishRollbackType
      DEF RollbackStep
  <1> QED BY <1>1 DEF TypeOK, DiskType, ControlType

-----------------------------------------------------------------------------
(* The steps of Recover-Rollback.                                           *)
LEMMA RecoverRollbackType == ASSUME TypeOK, RecoverRollback PROVE DiskType' /\ ControlType'
  <1>1. ControlType'
    BY TypeParts, GotoType, StopType DEF RecoverRollback, RollbackBranch, Labels, Slots, Places
  <1>2. DiskType'
    BY TypeParts, SameDiskType DEF RecoverRollback, RollbackBranch, DiskType
  <1> QED BY <1>1, <1>2

LEMMA RecoverCompletedType == ASSUME TypeOK, RecoverCompleted PROVE DiskType' /\ ControlType'
  <1>1. ControlType'
    BY TypeParts, GotoType, StopType, RefuseType
      DEF RecoverCompleted, AfterRecovery, Labels, Slots, Places
  <1>2. DiskType'
    BY TypeParts, RefuseType, RemoveJournalType, PlainType
      DEF RecoverCompleted, NoData, AfterRecovery, DiskType
  <1> QED BY <1>1, <1>2

LEMMA RecoverAbortedType == ASSUME TypeOK, RecoverAborted PROVE DiskType' /\ ControlType'
  <1>1. ControlType'
    BY TypeParts, GotoType, StopType DEF RecoverAborted, AfterRecovery, Labels
  <1>2. [data["target"] EXCEPT !.pick = 0] \in Data
    BY PickType DEF Places, Slots, Dbs
  <1>3. DiskType'
    BY <1>2, TypeParts, PutDataType, RemoveJournalType
      DEF RecoverAborted, DiskType, SameFiles, Places, Slots
  <1> QED BY <1>1, <1>3

LEMMA RecoverSelectType == ASSUME TypeOK, RecoverSelect PROVE DiskType' /\ ControlType'
  BY TypeParts, EnsureSelectedType DEF RecoverSelect, Places, Labels

LEMMA RecoverRollbackSwapType ==
  ASSUME TypeOK, RecoverRollbackSwap PROVE DiskType' /\ ControlType'
  <1>1. CASE Refuse
    BY <1>1, TypeParts, RefuseType
  <1>2. CASE MoveTreeExact("target", "failed", "q_swap")
    BY <1>2, TypeParts, MoveTreeExactType DEF Labels, Slots
  <1>3. CASE MoveTreeExact("previous", "target", "q_database")
    BY <1>3, TypeParts, MoveTreeExactType DEF Labels, Slots
  <1> QED BY <1>1, <1>2, <1>3 DEF RecoverRollbackSwap

LEMMA RecoverDatabaseType == ASSUME TypeOK, RecoverDatabase PROVE DiskType' /\ ControlType'
  <1>1. ControlType'
    BY TypeParts, RefuseType, EnsureSelectedType
      DEF RecoverDatabase, Labels, Places, Slots, VerificationData
  <1>2. DiskType'
    BY TypeParts, RefuseType, EnsureSelectedType
      DEF RecoverDatabase, DiskType, Labels, Places, Slots, VerificationData
  <1> QED BY <1>1, <1>2

LEMMA RecoverSealType == ASSUME TypeOK, RecoverSeal PROVE DiskType' /\ ControlType'
  <1>1. ControlType'
    BY TypeParts, GotoType DEF RecoverSeal, Labels
  <1>2. DiskType'
    BY TypeParts, SealSelectedType, SameDiskType
      DEF RecoverSeal, DiskType, Places, Slots, VerificationData
  <1> QED BY <1>1, <1>2

LEMMA RecoverAttachType == ASSUME TypeOK, RecoverAttach PROVE DiskType' /\ ControlType'
  <1>1. ControlType'
    BY TypeParts, GotoType, MoveDataExactType DEF RecoverAttach, Labels, Slots, Places
  <1>2. DiskType'
    BY TypeParts, SameDiskType, MoveDataExactDisk DEF RecoverAttach, Slots, Places, DiskType
  <1> QED BY <1>1, <1>2

LEMMA FinishRecoveredRollbackType == ASSUME TypeOK, FinishRecoveredRollback PROVE DiskType' /\
    ControlType'
  <1>1. ControlType'
    BY TypeParts, GotoType, StopType, RefuseType
      DEF FinishRecoveredRollback, AfterRecovery, Labels, Slots, Places
  <1>2. DiskType'
    BY TypeParts, RefuseType, RemoveJournalType
      DEF FinishRecoveredRollback, AfterRecovery, DiskType
  <1> QED BY <1>1, <1>2

LEMMA RecoverRollbackStepType == ASSUME TypeOK, RecoverRollbackStep PROVE TypeOK'
  <1>1. DiskType' /\ ControlType'
    BY RecoverRollbackType, RecoverCompletedType, RecoverAbortedType, RecoverSelectType,
       RecoverRollbackSwapType, RecoverDatabaseType, RecoverSealType, RecoverAttachType,
       FinishRecoveredRollbackType
      DEF RecoverRollbackStep
  <1> QED BY <1>1 DEF TypeOK, DiskType, ControlType

-----------------------------------------------------------------------------
(* The steps of a reversal.                                                 *)
LEMMA ReverseStartType == ASSUME TypeOK, ReverseStart PROVE DiskType' /\ ControlType'
  <1>1. ControlType'
    BY TypeParts, GotoType, StopType DEF ReverseStart, Labels, Slots, Places
  <1>2. DiskType'
    BY TypeParts, SameDiskType DEF ReverseStart, DiskType
  <1> QED BY <1>1, <1>2

LEMMA DetachCandidateDataType ==
  ASSUME TypeOK, DetachCandidateData PROVE DiskType' /\ ControlType'
  BY TypeParts, RefuseType, MoveDataExactType DEF DetachCandidateData, Labels, Slots, Places

LEMMA ReverseDataType == ASSUME TypeOK, ReverseData PROVE DiskType' /\ ControlType'
  <1>1. ControlType'
    BY TypeParts, RefuseType, RestoreOriginalType DEF ReverseData, Labels, Places, Slots
  <1>2. DiskType'
    BY TypeParts, RefuseType, RestoreOriginalType
      DEF ReverseData, DiskType, Labels, Places, Slots
  <1> QED BY <1>1, <1>2

LEMMA ReverseTargetType == ASSUME TypeOK, ReverseTarget PROVE DiskType' /\ ControlType'
  <1>1. ControlType'
    BY TypeParts, GotoType, MoveTreeExactType DEF ReverseTarget, Labels, Slots
  <1>2. DiskType'
    BY TypeParts, SameDiskType, MoveTreeExactDisk DEF ReverseTarget, Slots
  <1> QED BY <1>1, <1>2

LEMMA ReactivateNewerType == ASSUME TypeOK, ReactivateNewer PROVE DiskType' /\ ControlType'
  <1>1. ControlType'
    BY TypeParts, GotoType, RefuseType, MoveTreeExactType DEF ReactivateNewer, Labels, Slots
  <1>2. DiskType'
    BY TypeParts, SameDiskType, RefuseType, MoveTreeExactDisk DEF ReactivateNewer, Slots
  <1> QED BY <1>1, <1>2

LEMMA WriteReversalType == ASSUME TypeOK, WriteReversal PROVE DiskType' /\ ControlType'
  <1>1. ControlType'
    BY TypeParts, GotoType DEF WriteReversal, AfterReversalWrite, Labels
  <1>2. DiskType'
    BY TypeParts, WriteStateType DEF WriteReversal, AfterReversalWrite, Phases, DiskType
  <1> QED BY <1>1, <1>2

LEMMA ReverseAttachType == ASSUME TypeOK, ReverseAttach PROVE DiskType' /\ ControlType'
  <1>1. ControlType'
    BY TypeParts, GotoType, RefuseType, MoveDataExactType
      DEF ReverseAttach, Labels, Slots, Places
  <1>2. DiskType'
    BY TypeParts, RefuseType, SameDiskType, MoveDataExactDisk
      DEF ReverseAttach, Slots, Places, DiskType
  <1> QED BY <1>1, <1>2

LEMMA ReverseOriginalType == ASSUME TypeOK, ReverseOriginal PROVE DiskType' /\ ControlType'
  <1>1. ControlType'
    BY TypeParts, RefuseType, RestoreOriginalType DEF ReverseOriginal, Labels, Places, Slots
  <1>2. DiskType'
    BY TypeParts, RefuseType, RestoreOriginalType
      DEF ReverseOriginal, DiskType, Labels, Places, Slots
  <1> QED BY <1>1, <1>2

LEMMA FinishReversalType == ASSUME TypeOK, FinishReversal PROVE DiskType' /\ ControlType'
  <1>1. ControlType'
    BY TypeParts, StopType DEF FinishReversal, Labels
  <1>2. DiskType'
    BY TypeParts, RemoveJournalType DEF FinishReversal, DiskType
  <1> QED BY <1>1, <1>2

LEMMA ReverseStepType == ASSUME TypeOK, ReverseStep PROVE TypeOK'
  <1>1. DiskType' /\ ControlType'
    BY ReverseStartType, DetachCandidateDataType, ReverseDataType, ReverseTargetType,
       ReactivateNewerType, WriteReversalType, ReverseAttachType, ReverseOriginalType,
       FinishReversalType
      DEF ReverseStep
  <1> QED BY <1>1 DEF TypeOK, DiskType, ControlType

-----------------------------------------------------------------------------
(* The steps of the operator, of Atlas and of the surroundings.             *)
LEMMA InvokeType ==
  ASSUME TypeOK, NEW r \in Requests, Invoke(r) PROVE DiskType' /\ ControlType'
  BY TypeParts DEF Invoke, DiskType, ControlType, Labels

LEMMA InvokeUpdateType == ASSUME TypeOK, InvokeUpdate PROVE DiskType' /\ ControlType'
  <1>1. PICK c \in Apps : Invoke([NoRequest EXCEPT !.op = "update", !.cand = c])
    BY DEF InvokeUpdate
  <1>2. [NoRequest EXCEPT !.op = "update", !.cand = c] \in Requests
    BY DEF NoRequest, Requests, Trees
  <1> QED BY <1>1, <1>2, InvokeType

LEMMA InvokeRollbackType == ASSUME TypeOK, InvokeRollback PROVE DiskType' /\ ControlType'
  <1>1. PICK r \in BOOLEAN : Invoke([NoRequest EXCEPT !.op = "rollback", !.restore = r])
    BY DEF InvokeRollback
  <1>2. [NoRequest EXCEPT !.op = "rollback", !.restore = r] \in Requests
    BY DEF NoRequest, Requests, Trees
  <1> QED BY <1>1, <1>2, InvokeType

LEMMA InvokeRecoveryType == ASSUME TypeOK, InvokeRecovery PROVE DiskType' /\ ControlType'
  <1>1. journal.op \in {"update", "rollback"}
    BY TypeParts DEF InvokeRecovery, Pending, DiskType, Journal
  <1>2. [NoRequest EXCEPT !.op = journal.op, !.recoverOnly = TRUE] \in Requests
    BY <1>1 DEF NoRequest, Requests, Trees
  <1> QED BY <1>2, InvokeType DEF InvokeRecovery

LEMMA CrashType == ASSUME TypeOK, Crash PROVE DiskType' /\ ControlType'
  <1>1. crashes' \in 0..MaxCrashes
    BY TypeParts DEF Crash, ControlType
  <1>2. req' \in Requests /\ pc' \in Labels
    BY DEF Crash, NoRequest, Requests, Labels, Trees
  <1> QED BY <1>1, <1>2, TypeParts DEF Crash, ControlType, DiskType

LEMMA UseAtlasType == ASSUME TypeOK, UseAtlas PROVE DiskType' /\ ControlType'
  <1>1. edits' \in Dbs /\ edits + 1 \in Dbs
    BY TypeParts DEF UseAtlas, ControlType, Dbs
  <1>2. [data["target"] EXCEPT !.kind = "client", !.db = edits + 1] \in Data
    BY <1>1, TypeParts DEF DiskType, Places, Slots, Data
  <1>3. ControlType'
    BY <1>1, TypeParts DEF UseAtlas, ControlType
  <1>4. DiskType'
    BY <1>2, TypeParts, PutDataType DEF UseAtlas, DiskType, Places, Slots
  <1> QED BY <1>3, <1>4

LEMMA DisturbType == ASSUME TypeOK, Disturb PROVE DiskType' /\ ControlType'
  <1>1. ControlType'
    BY TypeParts DEF Disturb, ControlType, Dbs
  <1>2. DiskType'
    BY TypeParts
      DEF Disturb, DiskType, PutData, SameFiles, Places, Slots, Data, Dbs, ControlType
  <1> QED BY <1>1, <1>2

(* A step of the transaction, or of its surroundings, keeps every type.     *)
LEMMA NextType == TypeOK /\ [Next]_vars => TypeOK'
  <1> SUFFICES ASSUME TypeOK, [Next]_vars PROVE TypeOK'
    OBVIOUS
  <1>1. CASE InvokeUpdate \/ InvokeRollback \/ InvokeRecovery \/ Crash \/ UseAtlas \/ Disturb
    <2>1. DiskType' /\ ControlType'
      BY <1>1, InvokeUpdateType, InvokeRollbackType, InvokeRecoveryType, CrashType,
         UseAtlasType, DisturbType
    <2> QED BY <2>1 DEF TypeOK, DiskType, ControlType
  <1>2. CASE Script
    BY <1>2, UpdateStepType, RecoverUpdateStepType, RollbackStepType, RecoverRollbackStepType,
       ReverseStepType
      DEF Script
  <1>3. CASE UNCHANGED vars
    BY <1>3 DEF vars, TypeOK
  <1> QED BY <1>1, <1>2, <1>3 DEF Next

(* Every reachable journal is one the script can read back: for any set of  *)
(* releases, and whatever interruptions, TypeOK always holds.               *)
THEOREM TypeCorrect == Spec => []TypeOK
  <1> QED BY InitType, NextType, PTL DEF Spec

-----------------------------------------------------------------------------
(* Control: ControlInv is inductive.  First where a step that moves         *)
(* something, or that branches, can go; the rest say so themselves.         *)
Ends(l, next) == pc = l /\ UNCHANGED journal /\ (Stop \/ \E n \in next : Goto(n))

LEMMA RetirePreviousEnds == RetirePrevious =>
      Ends("retire", {"previous_retired"})
  BY DEF Ends, RetirePrevious, MoveTreeExact, Refuse, SameFiles, disk

LEMMA SealDataEnds == SealData =>
      \/ ~HadActive /\ Ends("seal", {"data_moved"})
      \/ Ends("seal", {})
      \/ /\ pc = "seal" /\ HadActive /\ Goto("detach")
         /\ journal' = [journal EXCEPT !.phase = "prepared", !.sealed = data["target"]]
  BY DEF Ends, SealData, Refuse, disk

LEMMA DetachDataEnds == DetachData =>
      Ends("detach", {"data_moved"})
  BY DEF Ends, DetachData, MoveDataExact, Refuse, SameFiles, disk

LEMMA DeactivateOldEnds == DeactivateOld =>
      Ends("deactivate", {"active_moved"})
  BY DEF Ends, DeactivateOld, MoveTreeExact, Refuse, SameFiles, disk

LEMMA ActivateCandidateEnds == ActivateCandidate =>
      Ends("activate", {"activated"})
  BY DEF Ends, ActivateCandidate, MoveTreeExact, Refuse, SameFiles, disk

LEMMA AttachDataEnds == AttachData =>
      Ends("attach", {"data_attached"})
  BY DEF Ends, AttachData, MoveDataExact, Refuse, SameFiles, disk

LEMMA PublishReceiptEnds == PublishReceipt =>
      Ends("receipt", {"rollback_slot_receipted"})
  BY DEF Ends, PublishReceipt, CompleteSlotReceipt, Refuse, SameFiles, disk

LEMMA RecoverUpdateEnds == RecoverUpdate =>
      /\ journal.op = "update"
      /\ \/ Ends("recover", {})
         \/ Committed /\ Ends("recover", {"r_receipt"})
         \/ ~Committed /\ ~HadActive /\ Ends("recover", {"r_incoming", "r_quarantine", "r_first"})
         \/ ~Committed /\ HadActive /\ Ends("recover", {"r_target", "r_previous"})
  BY DEF Ends, RecoverUpdate, RecoveryBranch, disk

LEMMA RecoverReceiptEnds == RecoverReceipt =>
      Ends("r_receipt", {"r_retired"})
  BY DEF Ends, RecoverReceipt, CompleteSlotReceipt, Refuse, SameFiles, disk

LEMMA QuarantineTargetEnds == QuarantineTarget =>
      Ends("r_quarantine", {"r_finish"}) \/ Ends("r_abandon", {"r_abandoned"})
  BY DEF Ends, QuarantineTarget, MoveTreeExact, Refuse, SameFiles, disk

LEMMA RecoverTargetDataEnds == RecoverTargetData =>
      Ends("r_target", {"r_incoming"})
  BY DEF Ends, RecoverTargetData, MoveDataExact, Refuse, SameFiles, disk

LEMMA RecoverPreviousDataEnds == RecoverPreviousData =>
      Ends("r_previous", {"r_previous", "r_swap"})
  BY DEF Ends, RecoverPreviousData, MoveDataExact, Refuse, SameFiles, disk

LEMMA RecoverSwapEnds == RecoverSwap =>
      Ends("r_swap", {"r_swap", "r_incoming"})
  BY DEF Ends, RecoverSwap, MoveTreeExact, Refuse, SameFiles, disk

LEMMA RecoverIncomingEnds == RecoverIncoming =>
      Ends("r_incoming", {"r_incoming", "r_prior"})
  BY DEF Ends, RecoverIncoming, MoveTreeExact, Refuse, SameFiles, disk

LEMMA RecoverPriorEnds == RecoverPrior =>
      Ends("r_prior", {"r_finish"})
  BY DEF Ends, RecoverPrior, MoveTreeExact, Refuse, SameFiles, disk

LEMMA DetachRollbackDataEnds == DetachRollbackData =>
      Ends("rb_detach", {"rollback_data_moved"})
  BY DEF Ends, DetachRollbackData, MoveDataExact, Refuse, SameFiles, disk

LEMMA SelectDatabaseEnds == SelectDatabase =>
      Ends("rb_select", {"rollback_database_restored"})
  BY DEF Ends, SelectDatabase, EnsureSelected, Refuse, SameFiles, disk

LEMMA DeactivateNewerEnds == DeactivateNewer =>
      Ends("rb_deactivate", {"rollback_active_moved"})
  BY DEF Ends, DeactivateNewer, MoveTreeExact, Refuse, SameFiles, disk

LEMMA ActivatePreviousEnds == ActivatePrevious =>
      Ends("rb_activate", {"rollback_activated"})
  BY DEF Ends, ActivatePrevious, MoveTreeExact, Refuse, SameFiles, disk

LEMMA AttachRollbackDataEnds == AttachRollbackData =>
      Ends("rb_attach", {"rollback_data_attached"})
  BY DEF Ends, AttachRollbackData, MoveDataExact, Refuse, SameFiles, disk

LEMMA RecoverRollbackEnds == RecoverRollback =>
      /\ journal.op = "rollback"
      /\ Ends("recover", {"v_start", "q_completed", "q_aborted", "q_select", "q_database"})
  BY DEF Ends, RecoverRollback, RollbackBranch, disk

LEMMA RecoverSelectEnds == RecoverSelect =>
      Ends("q_select", {"q_swap"})
  BY DEF Ends, RecoverSelect, EnsureSelected, Refuse, SameFiles, disk

LEMMA RecoverRollbackSwapEnds == RecoverRollbackSwap =>
      Ends("q_swap", {"q_swap", "q_database"})
  BY DEF Ends, RecoverRollbackSwap, MoveTreeExact, Refuse, SameFiles, disk

LEMMA RecoverDatabaseEnds == RecoverDatabase =>
      Ends("q_database", {"q_seal"})
  BY DEF Ends, RecoverDatabase, EnsureSelected, Refuse, SameFiles, disk

LEMMA RecoverSealEnds == RecoverSeal =>
      \/ Ends("q_seal", {"q_probe"})
      \/ /\ pc = "q_seal" /\ Goto("q_probe")
         /\ journal' = [journal EXCEPT !.phase = "rollback_database_restored",
                                      !.sealed = data[VerificationData]]
  BY DEF Ends, RecoverSeal, SealSelected, disk

LEMMA RecoverAttachEnds == RecoverAttach =>
      Ends("q_attach", {"q_finish"})
  BY DEF Ends, RecoverAttach, MoveDataExact, Refuse, SameFiles, disk

LEMMA DetachCandidateDataEnds == DetachCandidateData =>
      \/ Ends("v_quarantine", {"rollback_reversing_candidate_data_quarantined"})
      \/ Ends("v_detach", {"rollback_reversing_data_moved"})
  BY DEF Ends, DetachCandidateData, MoveDataExact, Refuse, SameFiles, disk

LEMMA ReverseDataEnds == ReverseData =>
      Ends("v_data", {"v_previous", "v_detach"})
  BY DEF Ends, ReverseData, RestoreOriginal, Refuse, SameFiles, disk

LEMMA ReverseTargetEnds == ReverseTarget =>
      Ends("v_previous", {"rollback_reversing_target_moved", "v_target"})
  BY DEF Ends, ReverseTarget, MoveTreeExact, Refuse, SameFiles, disk

LEMMA ReactivateNewerEnds == ReactivateNewer =>
      Ends("v_target", {"v_attach", "rollback_reversed"})
  BY DEF Ends, ReactivateNewer, MoveTreeExact, Refuse, SameFiles, disk

LEMMA ReverseAttachEnds == ReverseAttach =>
      Ends("v_attach", {"v_original"})
  BY DEF Ends, ReverseAttach, MoveDataExact, Refuse, SameFiles, disk

LEMMA ReverseOriginalEnds == ReverseOriginal =>
      Ends("v_original", {"v_finish"})
  BY DEF Ends, ReverseOriginal, RestoreOriginal, Refuse, SameFiles, disk

(* Each action keeps ControlInv.                                            *)
USE DEF Ends, ControlInv, Goto, Stop, Refuse, disk, AfterRecovery, NoRequest, WriteState,
    RemoveJournal, NoJournal, SameFiles, SameBounds, Pending, HadActive, Committed, FreeLabels,
    UpdateLabels, RollbackLabels, ForwardLabels, StagingLabels, DetachedLabels, ActivatedLabels,
    AttachedLabels, CommitLabels, FirstLabels, BackLabels, CleanLabels, Labels, TypeOK, Journal,
    Reversing, SealSelected

LEMMA InvokeUpdateControl == ASSUME TypeOK, ControlInv, InvokeUpdate PROVE ControlInv'
  BY DEF Invoke, InvokeUpdate

LEMMA InvokeRollbackControl == ASSUME TypeOK, ControlInv, InvokeRollback PROVE ControlInv'
  BY DEF Invoke, InvokeRollback

LEMMA InvokeRecoveryControl == ASSUME TypeOK, ControlInv, InvokeRecovery PROVE ControlInv'
  BY DEF Invoke, InvokeRecovery

LEMMA CrashControl == ASSUME TypeOK, ControlInv, Crash PROVE ControlInv'
  BY DEF Crash

LEMMA UseAtlasControl == ASSUME TypeOK, ControlInv, UseAtlas PROVE ControlInv'
  BY DEF UseAtlas

LEMMA DisturbControl == ASSUME TypeOK, ControlInv, Disturb PROVE ControlInv'
  BY DEF Disturb

LEMMA RemoveRetiredControl == ASSUME TypeOK, ControlInv, RemoveRetired PROVE ControlInv'
  BY DEF RemoveRetired

LEMMA BeginUpdateControl == ASSUME TypeOK, ControlInv, BeginUpdate PROVE ControlInv'
  <1>1. CASE Refuse
    BY <1>1
  <1>2. CASE ~Refuse
    <2>1. /\ run + 1 > 0 /\ req.cand \in Apps /\ pc' = "stage" /\ ~forced
          /\ UNCHANGED <<req, forced>>
      BY <1>2 DEF BeginUpdate, Runs
    <2>2. journal' = [NoJournal EXCEPT !.op = "update", !.phase = "staging", !.run = run + 1,
                        !.active = tree["target"], !.prior = tree["previous"], !.cand = req.cand]
      BY <1>2 DEF BeginUpdate
    <2> HIDE DEF Refuse
    <2> QED BY <2>1, <2>2
  <1> QED BY <1>1, <1>2

LEMMA StageCopyControl == ASSUME TypeOK, ControlInv, StageCopy PROVE ControlInv'
  BY DEF StageCopy

LEMMA StageDoneControl == ASSUME TypeOK, ControlInv, StageDone PROVE ControlInv'
  BY DEF StageDone

LEMMA WriteStagedControl == ASSUME TypeOK, ControlInv, WriteStaged PROVE ControlInv'
  BY DEF WriteStaged

LEMMA EnsureActiveDataControl == ASSUME TypeOK, ControlInv, EnsureActiveData PROVE ControlInv'
  BY DEF EnsureActiveData

LEMMA ProbePassesControl == ASSUME TypeOK, ControlInv, ProbePasses PROVE ControlInv'
  BY DEF ProbePasses

LEMMA ProbeFailsControl == ASSUME TypeOK, ControlInv, ProbeFails PROVE ControlInv'
  BY DEF ProbeFails

LEMMA ProbeCreatesDataControl == ASSUME TypeOK, ControlInv, ProbeCreatesData PROVE ControlInv'
  BY DEF ProbeCreatesData

LEMMA BackupDatabaseControl == ASSUME TypeOK, ControlInv, BackupDatabase PROVE ControlInv'
  BY DEF BackupDatabase

LEMMA WritePreparedControl == ASSUME TypeOK, ControlInv, WritePrepared PROVE ControlInv'
  BY DEF WritePrepared

LEMMA RetirePreviousControl == ASSUME TypeOK, ControlInv, RetirePrevious PROVE ControlInv'
  <1>1. Ends("retire", {"previous_retired"})
    BY RetirePreviousEnds
  <1> QED BY <1>1

LEMMA WritePreviousRetiredControl ==
  ASSUME TypeOK, ControlInv, WritePreviousRetired PROVE ControlInv'
  BY DEF WritePreviousRetired

LEMMA SealNoneControl ==
  ASSUME TypeOK, ControlInv, ~HadActive /\ Ends("seal", {"data_moved"}) PROVE ControlInv'
  OBVIOUS

LEMMA SealRefusedControl == ASSUME TypeOK, ControlInv, Ends("seal", {}) PROVE ControlInv'
  OBVIOUS

LEMMA SealTakenControl ==
  ASSUME TypeOK, ControlInv, pc = "seal", HadActive, Goto("detach"),
         journal' = [journal EXCEPT !.phase = "prepared", !.sealed = data["target"]]
  PROVE  ControlInv'
  OBVIOUS

LEMMA DetachDataControl == ASSUME TypeOK, ControlInv, DetachData PROVE ControlInv'
  <1>1. Ends("detach", {"data_moved"})
    BY DetachDataEnds
  <1> QED BY <1>1

LEMMA WriteDataMovedControl == ASSUME TypeOK, ControlInv, WriteDataMoved PROVE ControlInv'
  BY DEF WriteDataMoved

LEMMA DeactivateOldControl == ASSUME TypeOK, ControlInv, DeactivateOld PROVE ControlInv'
  <1>1. Ends("deactivate", {"active_moved"})
    BY DeactivateOldEnds
  <1> QED BY <1>1

LEMMA WriteActiveMovedControl == ASSUME TypeOK, ControlInv, WriteActiveMoved PROVE ControlInv'
  BY DEF WriteActiveMoved

LEMMA ActivateCandidateControl == ASSUME TypeOK, ControlInv, ActivateCandidate PROVE ControlInv'
  <1>1. Ends("activate", {"activated"})
    BY ActivateCandidateEnds
  <1> QED BY <1>1

LEMMA WriteActivatedControl == ASSUME TypeOK, ControlInv, WriteActivated PROVE ControlInv'
  BY DEF WriteActivated

LEMMA VerifyPassesControl == ASSUME TypeOK, ControlInv, VerifyPasses PROVE ControlInv'
  BY DEF VerifyPasses

LEMMA VerifyFailsControl == ASSUME TypeOK, ControlInv, VerifyFails PROVE ControlInv'
  BY DEF ForceRecovery, VerifyFails

LEMMA WriteAttachPendingControl ==
  ASSUME TypeOK, ControlInv, WriteAttachPending PROVE ControlInv'
  BY DEF WriteAttachPending

LEMMA AttachDataControl == ASSUME TypeOK, ControlInv, AttachData PROVE ControlInv'
  <1>1. Ends("attach", {"data_attached"})
    BY AttachDataEnds
  <1> QED BY <1>1

LEMMA WriteDataAttachedControl == ASSUME TypeOK, ControlInv, WriteDataAttached PROVE ControlInv'
  BY DEF WriteDataAttached

LEMMA PrepareSlotReceiptControl ==
  ASSUME TypeOK, ControlInv, PrepareSlotReceipt PROVE ControlInv'
  BY DEF PrepareSlotReceipt

LEMMA WriteSlotPreparedControl == ASSUME TypeOK, ControlInv, WriteSlotPrepared PROVE ControlInv'
  BY DEF WriteSlotPrepared

LEMMA PublishReceiptControl == ASSUME TypeOK, ControlInv, PublishReceipt PROVE ControlInv'
  <1>1. Ends("receipt", {"rollback_slot_receipted"})
    BY PublishReceiptEnds
  <1> QED BY <1>1

LEMMA WriteSlotReceiptedControl ==
  ASSUME TypeOK, ControlInv, WriteSlotReceipted PROVE ControlInv'
  BY DEF WriteSlotReceipted

LEMMA FinishUpdateControl == ASSUME TypeOK, ControlInv, FinishUpdate PROVE ControlInv'
  BY DEF FinishUpdate

LEMMA DropRetiredControl == ASSUME TypeOK, ControlInv, DropRetired PROVE ControlInv'
  BY DEF DropRetired

LEMMA RecoverUpdateControl ==
  ASSUME TypeOK, ControlInv,
      /\ journal.op = "update"
         /\ \/ Ends("recover", {})
            \/ Committed /\ Ends("recover", {"r_receipt"})
            \/ ~Committed /\ ~HadActive /\ Ends("recover", {"r_incoming", "r_quarantine", "r_first"})
            \/ ~Committed /\ HadActive /\ Ends("recover", {"r_target", "r_previous"})
  PROVE  ControlInv'
  OBVIOUS

LEMMA RecoverReceiptControl == ASSUME TypeOK, ControlInv, RecoverReceipt PROVE ControlInv'
  <1>1. Ends("r_receipt", {"r_retired"})
    BY RecoverReceiptEnds
  <1> QED BY <1>1

LEMMA RecoverRetiredControl == ASSUME TypeOK, ControlInv, RecoverRetired PROVE ControlInv'
  BY DEF RecoverRetired

LEMMA RecoverFirstControl == ASSUME TypeOK, ControlInv, RecoverFirst PROVE ControlInv'
  BY DEF RecoverFirst

LEMMA RecoverFirstDataControl == ASSUME TypeOK, ControlInv, RecoverFirstData PROVE ControlInv'
  BY DEF RecoverFirstData

LEMMA QuarantineTargetControl == ASSUME TypeOK, ControlInv, QuarantineTarget PROVE ControlInv'
  <1>1. Ends("r_quarantine", {"r_finish"}) \/ Ends("r_abandon", {"r_abandoned"})
    BY QuarantineTargetEnds
  <1> QED BY <1>1

LEMMA AbandonFirstControl == ASSUME TypeOK, ControlInv, AbandonFirst PROVE ControlInv'
  BY DEF AbandonFirst

LEMMA RecoverTargetDataControl == ASSUME TypeOK, ControlInv, RecoverTargetData PROVE ControlInv'
  <1>1. Ends("r_target", {"r_incoming"})
    BY RecoverTargetDataEnds
  <1> QED BY <1>1

LEMMA RecoverPreviousDataControl ==
  ASSUME TypeOK, ControlInv, RecoverPreviousData PROVE ControlInv'
  <1>1. Ends("r_previous", {"r_previous", "r_swap"})
    BY RecoverPreviousDataEnds
  <1> QED BY <1>1

LEMMA RecoverSwapControl == ASSUME TypeOK, ControlInv, RecoverSwap PROVE ControlInv'
  <1>1. Ends("r_swap", {"r_swap", "r_incoming"})
    BY RecoverSwapEnds
  <1> QED BY <1>1

LEMMA RecoverIncomingControl == ASSUME TypeOK, ControlInv, RecoverIncoming PROVE ControlInv'
  <1>1. Ends("r_incoming", {"r_incoming", "r_prior"})
    BY RecoverIncomingEnds
  <1> QED BY <1>1

LEMMA RecoverPriorControl == ASSUME TypeOK, ControlInv, RecoverPrior PROVE ControlInv'
  <1>1. Ends("r_prior", {"r_finish"})
    BY RecoverPriorEnds
  <1> QED BY <1>1

LEMMA RecoverFinishControl == ASSUME TypeOK, ControlInv, RecoverFinish PROVE ControlInv'
  BY DEF RecoverFinish

LEMMA BeginRollbackControl == ASSUME TypeOK, ControlInv, BeginRollback PROVE ControlInv'
  BY DEF BeginRollback

LEMMA RollbackProbePassesControl ==
  ASSUME TypeOK, ControlInv, RollbackProbePasses PROVE ControlInv'
  BY DEF RollbackProbePasses

LEMMA RollbackProbeFailsControl ==
  ASSUME TypeOK, ControlInv, RollbackProbeFails PROVE ControlInv'
  BY DEF RollbackProbeFails

LEMMA MoveProbeDataControl == ASSUME TypeOK, ControlInv, MoveProbeData PROVE ControlInv'
  BY DEF MoveProbeData

LEMMA PreserveDatabaseControl == ASSUME TypeOK, ControlInv, PreserveDatabase PROVE ControlInv'
  BY DEF PreserveDatabase

LEMMA PickDatabaseControl == ASSUME TypeOK, ControlInv, PickDatabase PROVE ControlInv'
  BY DEF PickDatabase

LEMMA WriteRollbackPreparedControl ==
  ASSUME TypeOK, ControlInv, WriteRollbackPrepared PROVE ControlInv'
  BY DEF WriteRollbackPrepared

LEMMA DetachRollbackDataControl ==
  ASSUME TypeOK, ControlInv, DetachRollbackData PROVE ControlInv'
  <1>1. Ends("rb_detach", {"rollback_data_moved"})
    BY DetachRollbackDataEnds
  <1> QED BY <1>1

LEMMA WriteRollbackDataMovedControl ==
  ASSUME TypeOK, ControlInv, WriteRollbackDataMoved PROVE ControlInv'
  BY DEF WriteRollbackDataMoved

LEMMA SelectDatabaseControl == ASSUME TypeOK, ControlInv, SelectDatabase PROVE ControlInv'
  <1>1. Ends("rb_select", {"rollback_database_restored"})
    BY SelectDatabaseEnds
  <1> QED BY <1>1

LEMMA WriteDatabaseRestoredControl ==
  ASSUME TypeOK, ControlInv, WriteDatabaseRestored PROVE ControlInv'
  BY DEF WriteDatabaseRestored

LEMMA DeactivateNewerControl == ASSUME TypeOK, ControlInv, DeactivateNewer PROVE ControlInv'
  <1>1. Ends("rb_deactivate", {"rollback_active_moved"})
    BY DeactivateNewerEnds
  <1> QED BY <1>1

LEMMA WriteRollbackActiveMovedControl ==
  ASSUME TypeOK, ControlInv, WriteRollbackActiveMoved PROVE ControlInv'
  BY DEF WriteRollbackActiveMoved

LEMMA ActivatePreviousControl == ASSUME TypeOK, ControlInv, ActivatePrevious PROVE ControlInv'
  <1>1. Ends("rb_activate", {"rollback_activated"})
    BY ActivatePreviousEnds
  <1> QED BY <1>1

LEMMA WriteRollbackActivatedControl ==
  ASSUME TypeOK, ControlInv, WriteRollbackActivated PROVE ControlInv'
  BY DEF WriteRollbackActivated

LEMMA RollbackVerifyPassesControl ==
  ASSUME TypeOK, ControlInv, RollbackVerifyPasses PROVE ControlInv'
  BY DEF RollbackVerifyPasses

LEMMA RollbackVerifyFailsControl ==
  ASSUME TypeOK, ControlInv, RollbackVerifyFails PROVE ControlInv'
  BY DEF RollbackVerifyFails

LEMMA WriteReversingControl == ASSUME TypeOK, ControlInv, WriteReversing PROVE ControlInv'
  BY DEF WriteReversing

LEMMA AttachRollbackDataControl ==
  ASSUME TypeOK, ControlInv, AttachRollbackData PROVE ControlInv'
  <1>1. Ends("rb_attach", {"rollback_data_attached"})
    BY AttachRollbackDataEnds
  <1> QED BY <1>1

LEMMA WriteRollbackDataAttachedControl ==
  ASSUME TypeOK, ControlInv, WriteRollbackDataAttached PROVE ControlInv'
  BY DEF WriteRollbackDataAttached

LEMMA FinishRollbackControl == ASSUME TypeOK, ControlInv, FinishRollback PROVE ControlInv'
  BY DEF FinishRollback

LEMMA RecoverRollbackControl ==
  ASSUME TypeOK, ControlInv,
      /\ journal.op = "rollback"
         /\ Ends("recover", {"v_start", "q_completed", "q_aborted", "q_select", "q_database"})
  PROVE  ControlInv'
  OBVIOUS

LEMMA RecoverCompletedControl == ASSUME TypeOK, ControlInv, RecoverCompleted PROVE ControlInv'
  BY DEF RecoverCompleted

LEMMA RecoverAbortedControl == ASSUME TypeOK, ControlInv, RecoverAborted PROVE ControlInv'
  BY DEF RecoverAborted

LEMMA RecoverSelectControl == ASSUME TypeOK, ControlInv, RecoverSelect PROVE ControlInv'
  <1>1. Ends("q_select", {"q_swap"})
    BY RecoverSelectEnds
  <1> QED BY <1>1

LEMMA RecoverRollbackSwapControl ==
  ASSUME TypeOK, ControlInv, RecoverRollbackSwap PROVE ControlInv'
  <1>1. Ends("q_swap", {"q_swap", "q_database"})
    BY RecoverRollbackSwapEnds
  <1> QED BY <1>1

LEMMA RecoverDatabaseControl == ASSUME TypeOK, ControlInv, RecoverDatabase PROVE ControlInv'
  <1>1. Ends("q_database", {"q_seal"})
    BY RecoverDatabaseEnds
  <1> QED BY <1>1

LEMMA RecoverSealKnownControl ==
  ASSUME TypeOK, ControlInv, Ends("q_seal", {"q_probe"}) PROVE ControlInv'
  OBVIOUS

LEMMA RecoverSealTakenControl ==
  ASSUME TypeOK, ControlInv, pc = "q_seal", Goto("q_probe"),
         journal' = [journal EXCEPT !.phase = "rollback_database_restored",
                                    !.sealed = data[VerificationData]]
  PROVE  ControlInv'
  OBVIOUS

LEMMA RecoverAttachControl == ASSUME TypeOK, ControlInv, RecoverAttach PROVE ControlInv'
  <1>1. Ends("q_attach", {"q_finish"})
    BY RecoverAttachEnds
  <1> QED BY <1>1

LEMMA FinishRecoveredRollbackControl ==
  ASSUME TypeOK, ControlInv, FinishRecoveredRollback PROVE ControlInv'
  BY DEF FinishRecoveredRollback

LEMMA ReverseStartControl == ASSUME TypeOK, ControlInv, ReverseStart PROVE ControlInv'
  BY DEF ReverseStart

LEMMA DetachCandidateDataControl ==
  ASSUME TypeOK, ControlInv, DetachCandidateData PROVE ControlInv'
  <1>1. \/ Ends("v_quarantine", {"rollback_reversing_candidate_data_quarantined"})
         \/ Ends("v_detach", {"rollback_reversing_data_moved"})
    BY DetachCandidateDataEnds
  <1> QED BY <1>1

LEMMA ReverseDataControl == ASSUME TypeOK, ControlInv, ReverseData PROVE ControlInv'
  <1>1. Ends("v_data", {"v_previous", "v_detach"})
    BY ReverseDataEnds
  <1> QED BY <1>1

LEMMA ReverseTargetControl == ASSUME TypeOK, ControlInv, ReverseTarget PROVE ControlInv'
  <1>1. Ends("v_previous", {"rollback_reversing_target_moved", "v_target"})
    BY ReverseTargetEnds
  <1> QED BY <1>1

LEMMA ReactivateNewerControl == ASSUME TypeOK, ControlInv, ReactivateNewer PROVE ControlInv'
  <1>1. Ends("v_target", {"v_attach", "rollback_reversed"})
    BY ReactivateNewerEnds
  <1> QED BY <1>1

LEMMA WriteReversalControl == ASSUME TypeOK, ControlInv, WriteReversal PROVE ControlInv'
  BY DEF AfterReversalWrite, WriteReversal

LEMMA ReverseAttachControl == ASSUME TypeOK, ControlInv, ReverseAttach PROVE ControlInv'
  <1>1. Ends("v_attach", {"v_original"})
    BY ReverseAttachEnds
  <1> QED BY <1>1

LEMMA ReverseOriginalControl == ASSUME TypeOK, ControlInv, ReverseOriginal PROVE ControlInv'
  <1>1. Ends("v_original", {"v_finish"})
    BY ReverseOriginalEnds
  <1> QED BY <1>1

LEMMA FinishReversalControl == ASSUME TypeOK, ControlInv, FinishReversal PROVE ControlInv'
  BY DEF FinishReversal

HIDE DEF Ends, ControlInv, Goto, Stop, Refuse, disk, AfterRecovery, NoRequest, WriteState,
     RemoveJournal, NoJournal, SameFiles, SameBounds, Pending, HadActive, Committed,
     FreeLabels, UpdateLabels, RollbackLabels, ForwardLabels, StagingLabels, DetachedLabels,
     ActivatedLabels, AttachedLabels, CommitLabels, FirstLabels, BackLabels, CleanLabels,
     Labels, TypeOK, Journal, Reversing, SealSelected

LEMMA UpdateStepControl == ASSUME TypeOK, ControlInv, UpdateStep PROVE ControlInv'
  <1>1. CASE SealData
    BY <1>1, SealDataEnds, SealNoneControl, SealRefusedControl, SealTakenControl
  <1> QED BY <1>1, RemoveRetiredControl, BeginUpdateControl, StageCopyControl, StageDoneControl,
             WriteStagedControl, EnsureActiveDataControl, ProbePassesControl, ProbeFailsControl,
             ProbeCreatesDataControl, BackupDatabaseControl, WritePreparedControl,
             RetirePreviousControl, WritePreviousRetiredControl, DetachDataControl,
             WriteDataMovedControl, DeactivateOldControl, WriteActiveMovedControl,
             ActivateCandidateControl, WriteActivatedControl, VerifyPassesControl,
             VerifyFailsControl, WriteAttachPendingControl, AttachDataControl,
             WriteDataAttachedControl, PrepareSlotReceiptControl, WriteSlotPreparedControl,
             PublishReceiptControl, WriteSlotReceiptedControl, FinishUpdateControl,
             DropRetiredControl
            DEF UpdateStep

LEMMA RecoverUpdateStepControl == ASSUME TypeOK, ControlInv, RecoverUpdateStep PROVE ControlInv'
  <1>1. CASE RecoverUpdate
    BY <1>1, RecoverUpdateEnds, RecoverUpdateControl
  <1> QED BY <1>1, RecoverReceiptControl, RecoverRetiredControl, RecoverFirstControl,
             RecoverFirstDataControl, QuarantineTargetControl, AbandonFirstControl,
             RecoverTargetDataControl, RecoverPreviousDataControl, RecoverSwapControl,
             RecoverIncomingControl, RecoverPriorControl, RecoverFinishControl
            DEF RecoverUpdateStep

LEMMA RollbackStepControl == ASSUME TypeOK, ControlInv, RollbackStep PROVE ControlInv'
  BY BeginRollbackControl, RollbackProbePassesControl, RollbackProbeFailsControl,
     MoveProbeDataControl, PreserveDatabaseControl, PickDatabaseControl,
     WriteRollbackPreparedControl, DetachRollbackDataControl, WriteRollbackDataMovedControl,
     SelectDatabaseControl, WriteDatabaseRestoredControl, DeactivateNewerControl,
     WriteRollbackActiveMovedControl, ActivatePreviousControl, WriteRollbackActivatedControl,
     RollbackVerifyPassesControl, RollbackVerifyFailsControl, WriteReversingControl,
     AttachRollbackDataControl, WriteRollbackDataAttachedControl, FinishRollbackControl
    DEF RollbackStep

LEMMA RecoverRollbackStepControl ==
  ASSUME TypeOK, ControlInv, RecoverRollbackStep PROVE ControlInv'
  <1>1. CASE RecoverRollback
    BY <1>1, RecoverRollbackEnds, RecoverRollbackControl
  <1>2. CASE RecoverSeal
    BY <1>2, RecoverSealEnds, RecoverSealKnownControl, RecoverSealTakenControl
  <1> QED BY <1>1, <1>2, RecoverCompletedControl, RecoverAbortedControl, RecoverSelectControl,
             RecoverRollbackSwapControl, RecoverDatabaseControl, RecoverAttachControl,
             FinishRecoveredRollbackControl
            DEF RecoverRollbackStep

LEMMA ReverseStepControl == ASSUME TypeOK, ControlInv, ReverseStep PROVE ControlInv'
  BY ReverseStartControl, DetachCandidateDataControl, ReverseDataControl, ReverseTargetControl,
     ReactivateNewerControl, WriteReversalControl, ReverseAttachControl, ReverseOriginalControl,
     FinishReversalControl
    DEF ReverseStep

LEMMA InitControl == Init => ControlInv
  BY DEF Init, ControlInv, Pending, NoJournal, NoRequest, FreeLabels, UpdateLabels,
     RollbackLabels, ForwardLabels, StagingLabels, DetachedLabels, ActivatedLabels,
     AttachedLabels, CommitLabels, FirstLabels, BackLabels, CleanLabels

LEMMA NextControl == TypeOK /\ ControlInv /\ [Next]_vars => ControlInv'
  <1> SUFFICES ASSUME TypeOK, ControlInv, [Next]_vars PROVE ControlInv'
    OBVIOUS
  <1>1. CASE InvokeUpdate \/ InvokeRollback \/ InvokeRecovery \/ Crash \/ UseAtlas \/ Disturb
    BY <1>1, InvokeUpdateControl, InvokeRollbackControl, InvokeRecoveryControl, CrashControl,
       UseAtlasControl, DisturbControl
  <1>2. CASE Script
    BY <1>2, UpdateStepControl, RecoverUpdateStepControl, RollbackStepControl,
       RecoverRollbackStepControl, ReverseStepControl
      DEF Script
  <1>3. CASE UNCHANGED vars
    BY <1>3 DEF vars, ControlInv, Pending, HadActive, Committed
  <1> QED BY <1>1, <1>2, <1>3 DEF Next

-----------------------------------------------------------------------------
(* Custody, first layer: whatever a step moves, removes or writes, the      *)
(* client's data is still there, in one place, inside a tree; per file      *)
(* operation, then per action.                                              *)
LEMMA PlainKinds == NoData.kind = "none" /\ Empty.kind = "empty" /\ Foreign.kind = "foreign"
  BY DEF NoData, Empty, Foreign, Plain

LEMMA HasDataKnown == ASSUME KnownData, NEW p \in Places PROVE HasData(p) <=> data[p] # NoData
  BY PlainKinds DEF KnownData, HasData, IsClient

LEMMA OnePlace ==
  ClientDataInOnePlace <=>
      \A p, q \in Places : IsClient(data[p]) /\ IsClient(data[q]) => p = q
  BY DEF ClientDataInOnePlace, Held

LEMMA SameSlotsSound == ASSUME Sound, SameSlots PROVE Sound' /\ Survive
  BY DEF Sound, EmptySlots, KnownData, ClientDataInOnePlace, Held, HasData, SameSlots, Survive

LEMMA TreeSound ==
  ASSUME TypeOK, Sound, NEW s \in Slots, NEW t, tree' = [tree EXCEPT ![s] = t], UNCHANGED data,
         t = NoApp => ~HasData(s)
  PROVE  Sound' /\ Survive
  <1>1. EmptySlots'
    BY DEF TypeOK, Sound, EmptySlots, HasData
  <1> QED BY <1>1 DEF Sound, KnownData, ClientDataInOnePlace, Held, Survive

LEMMA MoveTreeSound ==
  ASSUME TypeOK, Sound, NEW s \in Slots, NEW d \in Slots, s # d, CanMove(s, d), MoveTree(s, d)
  PROVE  Sound' /\ Survive
  <1>1. /\ data' = [data EXCEPT ![d] = data[s], ![s] = NoData] /\ tree[d] = NoApp
        /\ s \in Places /\ d \in Places /\ data \in [Places -> Data]
    BY SlotsArePlaces DEF MoveTree, CanMove, TypeOK
  <1>2. ~HasData(d) /\ ~IsClient(data[d])
    BY <1>1 DEF Sound, EmptySlots, HasData, IsClient
  <1>3. EmptySlots'
    BY <1>1, PlainKinds, SlotsArePlaces
      DEF Sound, EmptySlots, HasData, MoveTree, CanMove, TypeOK
  <1>4. KnownData'
    BY <1>1 DEF Sound, KnownData, IsClient
  <1>5. ClientDataInOnePlace'
    BY <1>1, PlainKinds DEF Sound, ClientDataInOnePlace, Held, IsClient
  <1>6. Survive
    <2>1. \A p \in Places : IsClient(data[p]) => \E q \in Places : data'[q] = data[p]
      <3> TAKE p \in Places
      <3>1. CASE p = s
        BY <1>1, <3>1
      <3>2. CASE p # s
        BY <1>1, <1>2, <3>2
      <3> QED BY <3>1, <3>2
    <2>2. \A q \in Places : IsClient(data'[q]) => \E p \in Places : data'[q] = data[p]
      BY <1>1, PlainKinds DEF IsClient
    <2> QED BY <2>1, <2>2 DEF Survive
  <1> QED BY <1>3, <1>4, <1>5, <1>6 DEF Sound

LEMMA MoveDataSound ==
  ASSUME TypeOK, Sound, NEW p \in Places, NEW q \in Places, CanMoveData(p, q), MoveData(p, q)
  PROVE  Sound' /\ Survive
  <1>1. /\ data' = [data EXCEPT ![q] = data[p], ![p] = NoData] /\ data \in [Places -> Data]
        /\ p # q /\ ~IsClient(data[q]) /\ (q \in Slots => tree[q] # NoApp) /\ UNCHANGED tree
    BY DEF MoveData, CanMoveData, TypeOK, HasData, IsClient
  <1>2. EmptySlots'
    BY <1>1, PlainKinds, SlotsArePlaces DEF Sound, EmptySlots, HasData
  <1>3. KnownData'
    BY <1>1 DEF Sound, KnownData, IsClient
  <1>4. ClientDataInOnePlace'
    BY <1>1, PlainKinds DEF Sound, ClientDataInOnePlace, Held, IsClient
  <1>5. Survive
    <2>1. \A r \in Places : IsClient(data[r]) => \E x \in Places : data'[x] = data[r]
      <3> TAKE r \in Places
      <3>1. CASE r = p
        BY <1>1, <3>1
      <3>2. CASE r # p
        BY <1>1, <3>2
      <3> QED BY <3>1, <3>2
    <2>2. \A x \in Places : IsClient(data'[x]) => \E r \in Places : data'[x] = data[r]
      BY <1>1, PlainKinds DEF IsClient
    <2> QED BY <2>1, <2>2 DEF Survive
  <1> QED BY <1>2, <1>3, <1>4, <1>5 DEF Sound

(* A directory that is not the client's is created, emptied or removed.     *)
LEMMA PutPlainSound ==
  ASSUME TypeOK, Sound, NEW p \in Places, NEW d \in {NoData, Empty, Foreign}, PutData(p, d),
         ~IsClient(data[p]), p \in Slots /\ tree[p] = NoApp => d = NoData
  PROVE  Sound' /\ Survive
  <1>1. data' = [data EXCEPT ![p] = d] /\ data \in [Places -> Data] /\ UNCHANGED tree /\ ~IsClient(d)
    BY PlainKinds DEF PutData, TypeOK, IsClient
  <1>2. EmptySlots'
    BY <1>1, PlainKinds, SlotsArePlaces DEF Sound, EmptySlots, HasData
  <1>3. KnownData'
    BY <1>1 DEF Sound, KnownData
  <1>4. ClientDataInOnePlace'
    BY <1>1 DEF Sound, ClientDataInOnePlace, Held
  <1>5. Survive
    BY <1>1 DEF Survive
  <1> QED BY <1>2, <1>3, <1>4, <1>5 DEF Sound

(* The content of a directory changes, and nothing it keeps is lost.        *)
LEMMA PutKindSound ==
  ASSUME TypeOK, Sound, NEW p \in Places, NEW d \in Data, PutData(p, d),
         d.kind = data[p].kind, IsClient(data[p]) \/ d = data[p], data[p].kept \subseteq d.kept,
         d.db = data[p].db \/ ReplacesDb
  PROVE  Sound' /\ Survive
  <1>1. data' = [data EXCEPT ![p] = d] /\ data \in [Places -> Data] /\ UNCHANGED tree
    BY DEF PutData, TypeOK
  <1>2. EmptySlots'
    BY <1>1, SlotsArePlaces DEF Sound, EmptySlots, HasData
  <1>3. KnownData'
    BY <1>1 DEF Sound, KnownData, IsClient
  <1>4. ClientDataInOnePlace'
    BY <1>1 DEF Sound, ClientDataInOnePlace, Held, IsClient
  <1>5. Survive
    BY <1>1 DEF Survive, IsClient
  <1> QED BY <1>2, <1>3, <1>4, <1>5 DEF Sound

LEMMA RefuseSound == ASSUME Sound, Refuse PROVE Sound' /\ Survive
  BY SameSlotsSound DEF Refuse, disk, SameSlots

LEMMA MoveTreeExactSound ==
  ASSUME TypeOK, Sound, NEW s \in Slots, NEW d \in Slots, s # d, NEW l, MoveTreeExact(s, d, l)
  PROVE  Sound' /\ Survive
  BY MoveTreeSound, RefuseSound DEF MoveTreeExact

LEMMA MoveDataExactSound ==
  ASSUME TypeOK, Sound, NEW p \in Places, NEW q \in Places, NEW l, MoveDataExact(p, q, l)
  PROVE  Sound' /\ Survive
  BY MoveDataSound, RefuseSound DEF MoveDataExact

LEMMA CompleteSlotReceiptSound ==
  ASSUME Sound, NEW l, CompleteSlotReceipt(l) PROVE Sound' /\ Survive
  BY SameSlotsSound, RefuseSound DEF CompleteSlotReceipt, disk, SameSlots

LEMMA EnsureSelectedSound ==
  ASSUME TypeOK, Sound, NEW p \in Places, NEW l, EnsureSelected(p, l), ReplacesDb
  PROVE  Sound' /\ Survive
  <1>1. CASE UNCHANGED disk
    BY <1>1, SameSlotsSound DEF disk, SameSlots
  <1>2. CASE Refuse
    BY <1>2, RefuseSound
  <1>3. CASE /\ journal.sel # 0 /\ data[p].pick = journal.sel
             /\ PutData(p, [data[p] EXCEPT !.db = journal.sel, !.pick = 0])
    <2>1. journal.sel \in Dbs /\ data[p] \in Data /\ 0 \in Dbs
      BY DEF TypeOK, Journal, Dbs
    <2>2. [data[p] EXCEPT !.db = journal.sel, !.pick = 0] \in Data
      BY <2>1 DEF Data
    <2>3. IsClient(data[p])
      BY <1>3 DEF Sound, KnownData, NoData, Empty, Foreign, Plain
    <2> QED BY <1>3, <2>1, <2>2, <2>3, PutKindSound DEF Data
  <1> QED BY <1>1, <1>2, <1>3 DEF EnsureSelected

LEMMA RestoreOriginalSound ==
  ASSUME TypeOK, Sound, NEW p \in Places, NEW l, RestoreOriginal(p, l), ReplacesDb
  PROVE  Sound' /\ Survive
  <1>1. CASE Refuse
    BY <1>1, RefuseSound
  <1>2. CASE CanRestoreOriginal(p) /\ PutData(p, OriginalData(p))
    <2>1. journal.orig \in Dbs /\ data[p] \in Data
      BY DEF TypeOK, Journal
    <2>2. OriginalData(p) \in Data /\ OriginalData(p).kind = data[p].kind
          /\ OriginalData(p).kept = data[p].kept
      BY <2>1 DEF OriginalData, Data
    <2>3. IsClient(data[p]) \/ OriginalData(p) = data[p]
      <3>1. CASE data[p] \in {NoData, Empty, Foreign}
        BY <1>2, <2>1, <3>1
          DEF CanRestoreOriginal, OriginalData, Data, NoData, Empty, Foreign, Plain
      <3> QED BY <3>1 DEF Sound, KnownData
    <2> QED BY <1>2, <2>2, <2>3, PutKindSound
  <1> QED BY <1>1, <1>2 DEF RestoreOriginal

LEMMA CreatesDataSound ==
  ASSUME TypeOK, Sound, NEW s \in Slots, tree[s] # NoApp, CreatesData(s) PROVE Sound' /\ Survive
  BY PutPlainSound, SlotsArePlaces DEF CreatesData, HasData, IsClient

LEMMA MutatesSound ==
  ASSUME TypeOK, Sound, NEW s \in Slots, Mutates(s) PROVE Sound' /\ Survive
  BY TreeSound DEF Mutates

LEMMA ShredSound ==
  ASSUME TypeOK, Sound, NEW s \in Slots, ~HasData(s), Shred(s) PROVE Sound' /\ Survive
  BY TreeSound DEF Shred

LEMMA KeepSound ==
  ASSUME TypeOK, Sound, NEW p \in Places, IsClient(data[p]), NEW r \in Runs,
         PutData(p, [data[p] EXCEPT !.kept = @ \cup {<<r, data[p].db>>}])
  PROVE  Sound' /\ Survive
  <1>1. [data[p] EXCEPT !.kept = @ \cup {<<r, data[p].db>>}] \in Data
    BY KeptType
  <1>2. data[p] \in Data
    BY DEF TypeOK
  <1> QED BY <1>1, <1>2, PutKindSound DEF Data

LEMMA PickSound ==
  ASSUME TypeOK, Sound, NEW p \in Places, NEW b \in Dbs, IsClient(data[p]) \/ b = 0,
         PutData(p, [data[p] EXCEPT !.pick = b])
  PROVE  Sound' /\ Survive
  <1>1. [data[p] EXCEPT !.pick = b] \in Data /\ data[p] \in Data
    BY PickType DEF TypeOK
  <1>2. IsClient(data[p]) \/ [data[p] EXCEPT !.pick = b] = data[p]
    BY DEF Sound, KnownData, NoData, Empty, Foreign, Plain
  <1> QED BY <1>1, <1>2, PutKindSound DEF Data

(* Each action: it removes no directory with the client's data, and no      *)
(* backup.                                                                  *)
LEMMA InvokeUpdateSound ==
  ASSUME TypeOK, ControlInv, Custody, InvokeUpdate PROVE Sound' /\ Survive
  BY SameSlotsSound
    DEF Custody, InvokeUpdate, Invoke, SameSlots, WriteState, RemoveJournal, disk, Refuse,
        Passes, SealSelected

LEMMA InvokeRollbackSound ==
  ASSUME TypeOK, ControlInv, Custody, InvokeRollback PROVE Sound' /\ Survive
  BY SameSlotsSound
    DEF Custody, InvokeRollback, Invoke, SameSlots, WriteState, RemoveJournal, disk, Refuse,
        Passes, SealSelected

LEMMA InvokeRecoverySound ==
  ASSUME TypeOK, ControlInv, Custody, InvokeRecovery PROVE Sound' /\ Survive
  BY SameSlotsSound
    DEF Custody, InvokeRecovery, Invoke, SameSlots, WriteState, RemoveJournal, disk, Refuse,
        Passes, SealSelected

LEMMA CrashSound == ASSUME TypeOK, ControlInv, Custody, Crash PROVE Sound' /\ Survive
  BY SameSlotsSound
    DEF Custody, Crash, SameSlots, WriteState, RemoveJournal, disk, Refuse, Passes, SealSelected

LEMMA UseAtlasSound == ASSUME TypeOK, ControlInv, Custody, UseAtlas PROVE Sound' /\ Survive
  <1>1. /\ data' = [data EXCEPT !["target"] = [data["target"] EXCEPT !.kind = "client", !.db = edits + 1]]
        /\ UNCHANGED tree /\ tree["target"] # NoApp /\ ClientIn({"target"})
        /\ data \in [Places -> Data] /\ data["target"] \in Data /\ "target" \in Places
    BY DEF UseAtlas, PutData, Custody, DiskInv, RestDisk, TypeOK, Slots, Places
  <1>2. EmptySlots'
    BY <1>1, SlotsArePlaces DEF Custody, Sound, EmptySlots, HasData
  <1>3. KnownData'
    BY <1>1 DEF Custody, Sound, KnownData, IsClient, Data
  <1>4. ClientDataInOnePlace'
    BY <1>1 DEF ClientIn, ClientDataInOnePlace, Held
  <1>5. ReplacesDb
    BY DEF UseAtlas, ReplacesDb, TypeOK, Dbs
  <1>6. Survive
    BY <1>1, <1>5 DEF ClientIn, Survive, IsClient, Data
  <1> QED BY <1>2, <1>3, <1>4, <1>6 DEF Sound

LEMMA DisturbSound == ASSUME TypeOK, ControlInv, Custody, Disturb PROVE Sound' /\ Survive
  <1>1. "handoff" \in Places /\ data["handoff"] \in Data /\ edits + 1 \in Dbs /\ edits \in Nat
    BY DEF Disturb, TypeOK, Places, Dbs
  <1>2. [data["handoff"] EXCEPT !.db = edits + 1] \in Data
    BY <1>1 DEF Data
  <1>3. ReplacesDb
    BY <1>1 DEF Disturb, ReplacesDb
  <1> QED BY <1>1, <1>2, <1>3, PutKindSound DEF Custody, Disturb, Data

LEMMA RemoveRetiredSound ==
  ASSUME TypeOK, ControlInv, Custody, RemoveRetired PROVE Sound' /\ Survive
  BY ShredSound, RefuseSound DEF Custody, RemoveRetired, Slots

LEMMA BeginUpdateSound ==
  ASSUME TypeOK, ControlInv, Custody, BeginUpdate PROVE Sound' /\ Survive
  <1>1. CASE Refuse
    BY <1>1, RefuseSound DEF Custody
  <1>2. CASE ~Refuse
    <2>1. ClientIn({"target"})
      BY DEF BeginUpdate, ControlInv, FreeLabels, Custody, DiskInv, RestDisk
    <2>2. /\ tree' = [tree EXCEPT !["failed"] = NoApp] /\ data \in [Places -> Data]
          /\ data' = [data EXCEPT !["failed"] = NoData, !["parked"] = NoData]
      BY <1>2 DEF BeginUpdate, TypeOK
    <2>3. "failed" \in Places /\ "parked" \in Places /\ "target" \in Places /\ data["target"] \in Data
      BY DEF Slots, Places, TypeOK
    <2>5. EmptySlots'
      BY <2>2, <2>3, PlainKinds, SlotsArePlaces DEF Custody, Sound, EmptySlots, HasData, TypeOK
    <2>6. KnownData'
      BY <2>2, <2>3 DEF Custody, Sound, KnownData, IsClient
    <2>7. ClientDataInOnePlace'
      BY <2>1, <2>2, <2>3, PlainKinds DEF ClientIn, ClientDataInOnePlace, Held, IsClient
    <2>8. Survive
      BY <2>1, <2>2, <2>3, PlainKinds DEF ClientIn, Survive, IsClient
    <2> QED BY <2>5, <2>6, <2>7, <2>8 DEF Sound
  <1> QED BY <1>1, <1>2

LEMMA StageCopySound == ASSUME TypeOK, ControlInv, Custody, StageCopy PROVE Sound' /\ Survive
  BY TreeSound DEF Custody, StageCopy, Slots

LEMMA StageDoneSound == ASSUME TypeOK, ControlInv, Custody, StageDone PROVE Sound' /\ Survive
  <1>1. journal.cand \in Apps
    BY DEF StageDone, ControlInv, UpdateLabels, ForwardLabels
  <1> QED BY <1>1, TreeSound DEF Custody, StageDone, Slots

LEMMA WriteStagedSound ==
  ASSUME TypeOK, ControlInv, Custody, WriteStaged PROVE Sound' /\ Survive
  BY SameSlotsSound
    DEF Custody, WriteStaged, SameSlots, WriteState, RemoveJournal, disk, Refuse, Passes,
        SealSelected

LEMMA EnsureActiveDataSound ==
  ASSUME TypeOK, ControlInv, Custody, EnsureActiveData PROVE Sound' /\ Survive
  <1>1. HadActive => tree["target"] # NoApp
    BY DEF EnsureActiveData, Custody, ForwardInv, StagingLabels, HadActive
  <1> QED BY <1>1, PutPlainSound, SameSlotsSound
            DEF Custody, EnsureActiveData, Slots, Places, HasData, IsClient

LEMMA ProbePassesSound ==
  ASSUME TypeOK, ControlInv, Custody, ProbePasses PROVE Sound' /\ Survive
  BY SameSlotsSound
    DEF Custody, ProbePasses, SameSlots, WriteState, RemoveJournal, disk, Refuse, Passes,
        SealSelected

LEMMA ProbeFailsSound == ASSUME TypeOK, ControlInv, Custody, ProbeFails PROVE Sound' /\ Survive
  BY MutatesSound, SameSlotsSound DEF Custody, ProbeFails, Fails, Slots

LEMMA ProbeCreatesDataSound ==
  ASSUME TypeOK, ControlInv, Custody, ProbeCreatesData PROVE Sound' /\ Survive
  <1>1. tree["incoming"] # NoApp
    BY DEF ProbeCreatesData, ControlInv, UpdateLabels, ForwardLabels, StagingLabels, Custody,
       ForwardInv
  <1> QED BY <1>1, CreatesDataSound DEF Custody, ProbeCreatesData, Slots

LEMMA BackupDatabaseSound ==
  ASSUME TypeOK, ControlInv, Custody, BackupDatabase PROVE Sound' /\ Survive
  <1>1. journal.run \in Runs /\ "target" \in Places
    BY DEF TypeOK, Journal, Slots, Places
  <1> QED BY <1>1, KeepSound, SameSlotsSound DEF Custody, BackupDatabase

LEMMA WritePreparedSound ==
  ASSUME TypeOK, ControlInv, Custody, WritePrepared PROVE Sound' /\ Survive
  BY SameSlotsSound
    DEF Custody, WritePrepared, SameSlots, WriteState, RemoveJournal, disk, Refuse, Passes,
        SealSelected

LEMMA RetirePreviousSound ==
  ASSUME TypeOK, ControlInv, Custody, RetirePrevious PROVE Sound' /\ Survive
  BY MoveTreeExactSound DEF Custody, RetirePrevious, Slots

LEMMA WritePreviousRetiredSound ==
  ASSUME TypeOK, ControlInv, Custody, WritePreviousRetired PROVE Sound' /\ Survive
  BY SameSlotsSound
    DEF Custody, WritePreviousRetired, SameSlots, WriteState, RemoveJournal, disk, Refuse,
        Passes, SealSelected

LEMMA SealDataSound == ASSUME TypeOK, ControlInv, Custody, SealData PROVE Sound' /\ Survive
  BY SameSlotsSound
    DEF Custody, SealData, SameSlots, WriteState, RemoveJournal, disk, Refuse, Passes,
        SealSelected

LEMMA DetachDataSound == ASSUME TypeOK, ControlInv, Custody, DetachData PROVE Sound' /\ Survive
  BY MoveDataExactSound DEF Custody, DetachData, Slots, Places

LEMMA WriteDataMovedSound ==
  ASSUME TypeOK, ControlInv, Custody, WriteDataMoved PROVE Sound' /\ Survive
  BY SameSlotsSound
    DEF Custody, WriteDataMoved, SameSlots, WriteState, RemoveJournal, disk, Refuse, Passes,
        SealSelected

LEMMA DeactivateOldSound ==
  ASSUME TypeOK, ControlInv, Custody, DeactivateOld PROVE Sound' /\ Survive
  BY MoveTreeExactSound DEF Custody, DeactivateOld, Slots

LEMMA WriteActiveMovedSound ==
  ASSUME TypeOK, ControlInv, Custody, WriteActiveMoved PROVE Sound' /\ Survive
  BY SameSlotsSound
    DEF Custody, WriteActiveMoved, SameSlots, WriteState, RemoveJournal, disk, Refuse, Passes,
        SealSelected

LEMMA ActivateCandidateSound ==
  ASSUME TypeOK, ControlInv, Custody, ActivateCandidate PROVE Sound' /\ Survive
  BY MoveTreeExactSound DEF Custody, ActivateCandidate, Slots

LEMMA WriteActivatedSound ==
  ASSUME TypeOK, ControlInv, Custody, WriteActivated PROVE Sound' /\ Survive
  BY SameSlotsSound
    DEF Custody, WriteActivated, SameSlots, WriteState, RemoveJournal, disk, Refuse, Passes,
        SealSelected

LEMMA VerifyPassesSound ==
  ASSUME TypeOK, ControlInv, Custody, VerifyPasses PROVE Sound' /\ Survive
  BY SameSlotsSound
    DEF Custody, VerifyPasses, SameSlots, WriteState, RemoveJournal, disk, Refuse, Passes,
        SealSelected

LEMMA VerifyFailsSound ==
  ASSUME TypeOK, ControlInv, Custody, VerifyFails PROVE Sound' /\ Survive
  <1>1. tree["target"] # NoApp
    BY DEF VerifyFails, ControlInv, UpdateLabels, ForwardLabels, ActivatedLabels, Custody,
       ForwardInv
  <1> QED BY <1>1, CreatesDataSound, MutatesSound, SameSlotsSound
            DEF Custody, VerifyFails, Fails, Slots

LEMMA WriteAttachPendingSound ==
  ASSUME TypeOK, ControlInv, Custody, WriteAttachPending PROVE Sound' /\ Survive
  BY SameSlotsSound
    DEF Custody, WriteAttachPending, SameSlots, WriteState, RemoveJournal, disk, Refuse, Passes,
        SealSelected

LEMMA AttachDataSound == ASSUME TypeOK, ControlInv, Custody, AttachData PROVE Sound' /\ Survive
  <1>1. tree["target"] # NoApp
    BY DEF AttachData, ControlInv, UpdateLabels, ForwardLabels, ActivatedLabels, Custody,
       ForwardInv
  <1> QED BY <1>1, RefuseSound, PutPlainSound, MoveDataExactSound
            DEF Custody, AttachData, Slots, Places, HasData, IsClient

LEMMA WriteDataAttachedSound ==
  ASSUME TypeOK, ControlInv, Custody, WriteDataAttached PROVE Sound' /\ Survive
  BY SameSlotsSound
    DEF Custody, WriteDataAttached, SameSlots, WriteState, RemoveJournal, disk, Refuse, Passes,
        SealSelected

LEMMA PrepareSlotReceiptSound ==
  ASSUME TypeOK, ControlInv, Custody, PrepareSlotReceipt PROVE Sound' /\ Survive
  BY SameSlotsSound
    DEF Custody, PrepareSlotReceipt, SameSlots, WriteState, RemoveJournal, disk, Refuse, Passes,
        SealSelected

LEMMA WriteSlotPreparedSound ==
  ASSUME TypeOK, ControlInv, Custody, WriteSlotPrepared PROVE Sound' /\ Survive
  BY SameSlotsSound
    DEF Custody, WriteSlotPrepared, SameSlots, WriteState, RemoveJournal, disk, Refuse, Passes,
        SealSelected

LEMMA PublishReceiptSound ==
  ASSUME TypeOK, ControlInv, Custody, PublishReceipt PROVE Sound' /\ Survive
  BY CompleteSlotReceiptSound DEF Custody, PublishReceipt

LEMMA WriteSlotReceiptedSound ==
  ASSUME TypeOK, ControlInv, Custody, WriteSlotReceipted PROVE Sound' /\ Survive
  BY SameSlotsSound
    DEF Custody, WriteSlotReceipted, SameSlots, WriteState, RemoveJournal, disk, Refuse, Passes,
        SealSelected

LEMMA FinishUpdateSound ==
  ASSUME TypeOK, ControlInv, Custody, FinishUpdate PROVE Sound' /\ Survive
  BY SameSlotsSound
    DEF Custody, FinishUpdate, SameSlots, WriteState, RemoveJournal, disk, Refuse, Passes,
        SealSelected

LEMMA DropRetiredSound ==
  ASSUME TypeOK, ControlInv, Custody, DropRetired PROVE Sound' /\ Survive
  BY ShredSound, RefuseSound DEF Custody, DropRetired, Slots

LEMMA RecoverUpdateSound ==
  ASSUME TypeOK, ControlInv, Custody, RecoverUpdate PROVE Sound' /\ Survive
  BY SameSlotsSound
    DEF Custody, RecoverUpdate, SameSlots, WriteState, RemoveJournal, disk, Refuse, Passes,
        SealSelected

LEMMA RecoverReceiptSound ==
  ASSUME TypeOK, ControlInv, Custody, RecoverReceipt PROVE Sound' /\ Survive
  BY CompleteSlotReceiptSound DEF Custody, RecoverReceipt

LEMMA RecoverRetiredSound ==
  ASSUME TypeOK, ControlInv, Custody, RecoverRetired PROVE Sound' /\ Survive
  BY ShredSound, RefuseSound, SameSlotsSound DEF Custody, RecoverRetired, Slots, disk, SameSlots

LEMMA RecoverFirstSound ==
  ASSUME TypeOK, ControlInv, Custody, RecoverFirst PROVE Sound' /\ Survive
  <1>1. tree["target"] # NoApp
    BY DEF RecoverFirst, Custody, RecoverInv
  <1>2. CASE UNCHANGED disk
    BY <1>2, SameSlotsSound DEF Custody, disk, SameSlots
  <1>3. CASE ~IsClient(data["target"]) /\ \E d \in {NoData, Empty, Foreign} : PutData("target", d)
    BY <1>1, <1>3, PutPlainSound DEF Custody, Slots, Places
  <1>4. CASE Passes("target") \/ Fails("target") \/ Mutates("target")
    BY <1>4, SameSlotsSound, MutatesSound DEF Custody, Passes, Fails, Slots
  <1> QED BY <1>2, <1>3, <1>4 DEF RecoverFirst, IsClient, HasData

LEMMA RecoverFirstDataSound ==
  ASSUME TypeOK, ControlInv, Custody, RecoverFirstData PROVE Sound' /\ Survive
  <1>1. tree["target"] # NoApp /\ ~IsClient(data["target"])
    BY DEF RecoverFirstData, ControlInv, UpdateLabels, FirstLabels, Custody, RecoverInv,
       DiskInv, UpdateDisk, FirstDisk, ClientIn, Slots, Places
  <1> QED BY <1>1, PutPlainSound DEF Custody, RecoverFirstData, Slots, Places

LEMMA QuarantineTargetSound ==
  ASSUME TypeOK, ControlInv, Custody, QuarantineTarget PROVE Sound' /\ Survive
  BY MoveTreeExactSound DEF Custody, QuarantineTarget, Slots

LEMMA AbandonFirstSound ==
  ASSUME TypeOK, ControlInv, Custody, AbandonFirst PROVE Sound' /\ Survive
  BY SameSlotsSound
    DEF Custody, AbandonFirst, SameSlots, WriteState, RemoveJournal, disk, Refuse, Passes,
        SealSelected

LEMMA RecoverTargetDataSound ==
  ASSUME TypeOK, ControlInv, Custody, RecoverTargetData PROVE Sound' /\ Survive
  BY MoveDataExactSound, SameSlotsSound
    DEF Custody, RecoverTargetData, Slots, Places, disk, SameSlots

LEMMA RecoverPreviousDataSound ==
  ASSUME TypeOK, ControlInv, Custody, RecoverPreviousData PROVE Sound' /\ Survive
  BY MoveDataExactSound, SameSlotsSound
    DEF Custody, RecoverPreviousData, Slots, Places, disk, SameSlots

LEMMA RecoverSwapSound ==
  ASSUME TypeOK, ControlInv, Custody, RecoverSwap PROVE Sound' /\ Survive
  BY MoveTreeExactSound DEF Custody, RecoverSwap, Slots

LEMMA RecoverIncomingSound ==
  ASSUME TypeOK, ControlInv, Custody, RecoverIncoming PROVE Sound' /\ Survive
  BY MoveTreeExactSound, PutPlainSound, ShredSound, SameSlotsSound
    DEF Custody, RecoverIncoming, Slots, Places, disk, SameSlots, IsClient

LEMMA RecoverPriorSound ==
  ASSUME TypeOK, ControlInv, Custody, RecoverPrior PROVE Sound' /\ Survive
  BY MoveTreeExactSound, SameSlotsSound, RefuseSound
    DEF Custody, RecoverPrior, Slots, disk, SameSlots

LEMMA RecoverFinishSound ==
  ASSUME TypeOK, ControlInv, Custody, RecoverFinish PROVE Sound' /\ Survive
  BY SameSlotsSound
    DEF Custody, RecoverFinish, SameSlots, WriteState, RemoveJournal, disk, Refuse, Passes,
        SealSelected

LEMMA BeginRollbackSound ==
  ASSUME TypeOK, ControlInv, Custody, BeginRollback PROVE Sound' /\ Survive
  <1>1. CASE Refuse
    BY <1>1, RefuseSound DEF Custody
  <1>2. CASE ~Refuse
    <2>1. ClientIn({"target"})
      BY DEF BeginRollback, ControlInv, FreeLabels, Custody, DiskInv, RestDisk
    <2>2. /\ tree' = [tree EXCEPT !["failed"] = NoApp] /\ data \in [Places -> Data]
          /\ data' = [data EXCEPT !["failed"] = NoData, !["parked"] = NoData,
                                 !["target"] = [@ EXCEPT !.pick = 0]]
      BY <1>2 DEF BeginRollback, TypeOK
    <2>3. "failed" \in Places /\ "parked" \in Places /\ "target" \in Places /\ data["target"] \in Data
      BY DEF Slots, Places, TypeOK
    <2>4. LET d == [data["target"] EXCEPT !.pick = 0] IN
             /\ d.kind = data["target"].kind /\ d.kept = data["target"].kept
             /\ d.db = data["target"].db
             /\ IsClient(data["target"]) \/ d = data["target"]
      BY <2>3 DEF Custody, Sound, KnownData, NoData, Empty, Foreign, Plain, IsClient, Data
    <2>5. EmptySlots'
      BY <2>2, <2>3, <2>4, PlainKinds, SlotsArePlaces
        DEF Custody, Sound, EmptySlots, HasData, TypeOK
    <2>6. KnownData'
      BY <2>2, <2>3, <2>4 DEF Custody, Sound, KnownData, IsClient
    <2>7. ClientDataInOnePlace'
      BY <2>1, <2>2, <2>3, PlainKinds DEF ClientIn, ClientDataInOnePlace, Held, IsClient
    <2>8. Survive
      BY <2>1, <2>2, <2>3, PlainKinds, <2>4 DEF ClientIn, Survive, IsClient
    <2> QED BY <2>5, <2>6, <2>7, <2>8 DEF Sound
  <1> QED BY <1>1, <1>2

LEMMA RollbackProbePassesSound ==
  ASSUME TypeOK, ControlInv, Custody, RollbackProbePasses PROVE Sound' /\ Survive
  BY SameSlotsSound
    DEF Custody, RollbackProbePasses, SameSlots, WriteState, RemoveJournal, disk, Refuse,
        Passes, SealSelected

LEMMA RollbackProbeFailsSound ==
  ASSUME TypeOK, ControlInv, Custody, RollbackProbeFails PROVE Sound' /\ Survive
  <1>1. tree["previous"] # NoApp
    BY DEF RollbackProbeFails, Custody, RollbackInv
  <1> QED BY <1>1, CreatesDataSound, SameSlotsSound
            DEF Custody, RollbackProbeFails, Fails, Slots

LEMMA MoveProbeDataSound ==
  ASSUME TypeOK, ControlInv, Custody, MoveProbeData PROVE Sound' /\ Survive
  BY MoveDataSound, RefuseSound DEF Custody, MoveProbeData, Slots, Places

LEMMA PreserveDatabaseSound ==
  ASSUME TypeOK, ControlInv, Custody, PreserveDatabase PROVE Sound' /\ Survive
  <1>1. IsClient(data["target"]) /\ run \in Runs /\ "target" \in Places
    BY DEF PreserveDatabase, Custody, RollbackInv, TypeOK, Slots, Places
  <1> QED BY <1>1, KeepSound DEF Custody, PreserveDatabase

LEMMA PickDatabaseSound ==
  ASSUME TypeOK, ControlInv, Custody, PickDatabase PROVE Sound' /\ Survive
  <1>1. IsClient(data["target"]) /\ receipt.backup \in Dbs /\ "target" \in Places
    BY DEF PickDatabase, Custody, RollbackInv, TypeOK, Receipts, Slots, Places
  <1> QED BY <1>1, PickSound DEF Custody, PickDatabase

LEMMA WriteRollbackPreparedSound ==
  ASSUME TypeOK, ControlInv, Custody, WriteRollbackPrepared PROVE Sound' /\ Survive
  BY SameSlotsSound
    DEF Custody, WriteRollbackPrepared, SameSlots, WriteState, RemoveJournal, disk, Refuse,
        Passes, SealSelected

LEMMA DetachRollbackDataSound ==
  ASSUME TypeOK, ControlInv, Custody, DetachRollbackData PROVE Sound' /\ Survive
  BY MoveDataExactSound DEF Custody, DetachRollbackData, Slots, Places

LEMMA WriteRollbackDataMovedSound ==
  ASSUME TypeOK, ControlInv, Custody, WriteRollbackDataMoved PROVE Sound' /\ Survive
  BY SameSlotsSound
    DEF Custody, WriteRollbackDataMoved, SameSlots, WriteState, RemoveJournal, disk, Refuse,
        Passes, SealSelected

LEMMA SelectDatabaseSound ==
  ASSUME TypeOK, ControlInv, Custody, SelectDatabase PROVE Sound' /\ Survive
  BY EnsureSelectedSound DEF Custody, SelectDatabase, Places, ReplacesDb

LEMMA WriteDatabaseRestoredSound ==
  ASSUME TypeOK, ControlInv, Custody, WriteDatabaseRestored PROVE Sound' /\ Survive
  BY SameSlotsSound
    DEF Custody, WriteDatabaseRestored, SameSlots, WriteState, RemoveJournal, disk, Refuse,
        Passes, SealSelected

LEMMA DeactivateNewerSound ==
  ASSUME TypeOK, ControlInv, Custody, DeactivateNewer PROVE Sound' /\ Survive
  BY MoveTreeExactSound DEF Custody, DeactivateNewer, Slots

LEMMA WriteRollbackActiveMovedSound ==
  ASSUME TypeOK, ControlInv, Custody, WriteRollbackActiveMoved PROVE Sound' /\ Survive
  BY SameSlotsSound
    DEF Custody, WriteRollbackActiveMoved, SameSlots, WriteState, RemoveJournal, disk, Refuse,
        Passes, SealSelected

LEMMA ActivatePreviousSound ==
  ASSUME TypeOK, ControlInv, Custody, ActivatePrevious PROVE Sound' /\ Survive
  BY MoveTreeExactSound DEF Custody, ActivatePrevious, Slots

LEMMA WriteRollbackActivatedSound ==
  ASSUME TypeOK, ControlInv, Custody, WriteRollbackActivated PROVE Sound' /\ Survive
  BY SameSlotsSound
    DEF Custody, WriteRollbackActivated, SameSlots, WriteState, RemoveJournal, disk, Refuse,
        Passes, SealSelected

LEMMA RollbackVerifyPassesSound ==
  ASSUME TypeOK, ControlInv, Custody, RollbackVerifyPasses PROVE Sound' /\ Survive
  BY SameSlotsSound
    DEF Custody, RollbackVerifyPasses, SameSlots, WriteState, RemoveJournal, disk, Refuse,
        Passes, SealSelected

LEMMA RollbackVerifyFailsSound ==
  ASSUME TypeOK, ControlInv, Custody, RollbackVerifyFails PROVE Sound' /\ Survive
  <1>1. tree["target"] # NoApp
    <2>1. pc \in RollbackLabels
      BY DEF RollbackVerifyFails, RollbackLabels, Labels, FreeLabels, UpdateLabels,
         ForwardLabels, StagingLabels, DetachedLabels, ActivatedLabels, AttachedLabels,
         CommitLabels, FirstLabels, BackLabels, CleanLabels
    <2>2. journal.op = "rollback"
      BY <2>1 DEF ControlInv
    <2>3. journal.cand \in Apps /\ Switched
      BY <2>2 DEF RollbackVerifyFails, Custody, DiskInv, RollbackDisk, RollbackInv
    <2> QED BY <2>3 DEF Switched
  <1> QED BY <1>1, CreatesDataSound, MutatesSound, SameSlotsSound
            DEF Custody, RollbackVerifyFails, Fails, Slots

LEMMA WriteReversingSound ==
  ASSUME TypeOK, ControlInv, Custody, WriteReversing PROVE Sound' /\ Survive
  BY SameSlotsSound
    DEF Custody, WriteReversing, SameSlots, WriteState, RemoveJournal, disk, Refuse, Passes,
        SealSelected

LEMMA AttachRollbackDataSound ==
  ASSUME TypeOK, ControlInv, Custody, AttachRollbackData PROVE Sound' /\ Survive
  BY MoveDataExactSound DEF Custody, AttachRollbackData, Slots, Places

LEMMA WriteRollbackDataAttachedSound ==
  ASSUME TypeOK, ControlInv, Custody, WriteRollbackDataAttached PROVE Sound' /\ Survive
  BY SameSlotsSound
    DEF Custody, WriteRollbackDataAttached, SameSlots, WriteState, RemoveJournal, disk, Refuse,
        Passes, SealSelected

LEMMA FinishRollbackSound ==
  ASSUME TypeOK, ControlInv, Custody, FinishRollback PROVE Sound' /\ Survive
  BY SameSlotsSound
    DEF Custody, FinishRollback, SameSlots, WriteState, RemoveJournal, disk, Refuse, Passes,
        SealSelected

LEMMA RecoverRollbackSound ==
  ASSUME TypeOK, ControlInv, Custody, RecoverRollback PROVE Sound' /\ Survive
  BY SameSlotsSound
    DEF Custody, RecoverRollback, SameSlots, WriteState, RemoveJournal, disk, Refuse, Passes,
        SealSelected

LEMMA RecoverCompletedSound ==
  ASSUME TypeOK, ControlInv, Custody, RecoverCompleted PROVE Sound' /\ Survive
  BY SameSlotsSound
    DEF Custody, RecoverCompleted, SameSlots, WriteState, RemoveJournal, disk, Refuse, Passes,
        SealSelected

LEMMA RecoverAbortedSound ==
  ASSUME TypeOK, ControlInv, Custody, RecoverAborted PROVE Sound' /\ Survive
  <1>1. "target" \in Places /\ 0 \in Dbs
    BY DEF Slots, Places, Dbs
  <1> QED BY <1>1, PickSound, SameSlotsSound
            DEF Custody, RecoverAborted, RemoveJournal, SameSlots

LEMMA RecoverSelectSound ==
  ASSUME TypeOK, ControlInv, Custody, RecoverSelect PROVE Sound' /\ Survive
  BY EnsureSelectedSound DEF Custody, RecoverSelect, Places, ReplacesDb

LEMMA RecoverRollbackSwapSound ==
  ASSUME TypeOK, ControlInv, Custody, RecoverRollbackSwap PROVE Sound' /\ Survive
  BY MoveTreeExactSound, SameSlotsSound, RefuseSound
    DEF Custody, RecoverRollbackSwap, Slots, disk, SameSlots

LEMMA RecoverDatabaseSound ==
  ASSUME TypeOK, ControlInv, Custody, RecoverDatabase PROVE Sound' /\ Survive
  BY EnsureSelectedSound, RefuseSound
    DEF Custody, RecoverDatabase, VerificationData, Slots, Places, ReplacesDb

LEMMA RecoverSealSound ==
  ASSUME TypeOK, ControlInv, Custody, RecoverSeal PROVE Sound' /\ Survive
  BY SameSlotsSound
    DEF Custody, RecoverSeal, SameSlots, WriteState, RemoveJournal, disk, Refuse, Passes,
        SealSelected

LEMMA RecoverAttachSound ==
  ASSUME TypeOK, ControlInv, Custody, RecoverAttach PROVE Sound' /\ Survive
  BY MoveDataExactSound, SameSlotsSound
    DEF Custody, RecoverAttach, Slots, Places, disk, SameSlots

LEMMA FinishRecoveredRollbackSound ==
  ASSUME TypeOK, ControlInv, Custody, FinishRecoveredRollback PROVE Sound' /\ Survive
  BY SameSlotsSound
    DEF Custody, FinishRecoveredRollback, SameSlots, WriteState, RemoveJournal, disk, Refuse,
        Passes, SealSelected

LEMMA ReverseStartSound ==
  ASSUME TypeOK, ControlInv, Custody, ReverseStart PROVE Sound' /\ Survive
  BY SameSlotsSound
    DEF Custody, ReverseStart, SameSlots, WriteState, RemoveJournal, disk, Refuse, Passes,
        SealSelected

LEMMA DetachCandidateDataSound ==
  ASSUME TypeOK, ControlInv, Custody, DetachCandidateData PROVE Sound' /\ Survive
  BY MoveDataExactSound, RefuseSound DEF Custody, DetachCandidateData, Slots, Places

LEMMA ReverseDataSound ==
  ASSUME TypeOK, ControlInv, Custody, ReverseData PROVE Sound' /\ Survive
  BY RestoreOriginalSound, RefuseSound DEF Custody, ReverseData, Slots, Places, ReplacesDb

LEMMA ReverseTargetSound ==
  ASSUME TypeOK, ControlInv, Custody, ReverseTarget PROVE Sound' /\ Survive
  BY MoveTreeExactSound, SameSlotsSound DEF Custody, ReverseTarget, Slots, disk, SameSlots

LEMMA ReactivateNewerSound ==
  ASSUME TypeOK, ControlInv, Custody, ReactivateNewer PROVE Sound' /\ Survive
  BY MoveTreeExactSound, SameSlotsSound, RefuseSound
    DEF Custody, ReactivateNewer, Slots, disk, SameSlots

LEMMA WriteReversalSound ==
  ASSUME TypeOK, ControlInv, Custody, WriteReversal PROVE Sound' /\ Survive
  BY SameSlotsSound
    DEF Custody, WriteReversal, SameSlots, WriteState, RemoveJournal, disk, Refuse, Passes,
        SealSelected

LEMMA ReverseAttachSound ==
  ASSUME TypeOK, ControlInv, Custody, ReverseAttach PROVE Sound' /\ Survive
  BY MoveDataExactSound, SameSlotsSound, RefuseSound
    DEF Custody, ReverseAttach, Slots, Places, disk, SameSlots

LEMMA ReverseOriginalSound ==
  ASSUME TypeOK, ControlInv, Custody, ReverseOriginal PROVE Sound' /\ Survive
  BY RestoreOriginalSound, RefuseSound DEF Custody, ReverseOriginal, Slots, Places, ReplacesDb

LEMMA FinishReversalSound ==
  ASSUME TypeOK, ControlInv, Custody, FinishReversal PROVE Sound' /\ Survive
  BY SameSlotsSound
    DEF Custody, FinishReversal, SameSlots, WriteState, RemoveJournal, disk, Refuse, Passes,
        SealSelected

-----------------------------------------------------------------------------
(* Custody, second layer: where the trees are.  What every step leaves      *)
(* alone, and what a label says about the journal.                          *)
ForwardPoints == ForwardLabels \cup CommitLabels
RecoveryPoints == FirstLabels \cup BackLabels \cup CleanLabels \cup {"finish", "r_finish"}

LEMMA AtForwardPoint ==
  ASSUME pc' \in ForwardPoints, ~forced' PROVE RecoverInv' /\ RollbackInv' /\ ReverseInv'
  BY DEF RecoverInv, RollbackInv, ReverseInv, ForwardPoints, ForwardLabels, StagingLabels,
     DetachedLabels, ActivatedLabels, AttachedLabels, CommitLabels, CleanLabels

LEMMA AtRecoveryPoint ==
  ASSUME pc' \in RecoveryPoints PROVE ForwardInv' /\ RollbackInv' /\ ReverseInv'
  BY DEF ForwardInv, RollbackInv, ReverseInv, RecoveryPoints, FirstLabels, BackLabels,
     CleanLabels, StagingLabels, DetachedLabels, ActivatedLabels, AttachedLabels

LEMMA AtRollbackPoint ==
  ASSUME pc' \in RollbackLabels \cup FreeLabels, ~forced' PROVE ForwardInv' /\ RecoverInv'
  BY DEF ForwardInv, RecoverInv, RollbackLabels, Labels, FreeLabels, UpdateLabels,
     ForwardLabels, StagingLabels, DetachedLabels, ActivatedLabels, AttachedLabels,
     CommitLabels, FirstLabels, BackLabels, CleanLabels

LEMMA AtNoPoint ==
  ASSUME pc' \in {"idle", "main", "recover", "drop_retired"}, forced' => tree'["incoming"] =
         NoApp
  PROVE  ForwardInv' /\ RecoverInv' /\ RollbackInv' /\ ReverseInv'
  BY DEF ForwardInv, RecoverInv, RollbackInv, ReverseInv, StagingLabels, DetachedLabels,
     ActivatedLabels, AttachedLabels, CleanLabels

LEMMA SameDiskInv == ASSUME DiskInv, UNCHANGED disk PROVE DiskInv'
  BY DEF DiskInv, Pending, HadActive, Committed, Reversing, RestDisk, UpdateDisk, RollbackDisk,
     FirstDisk, CommittedDisk, SwitchDisk, SwitchTrees, SwitchData, Unswitched, NotRetired,
     Retired, Deactivated, PriorTaken, PriorLost, Replaceable, Before, Between, After,
     VerificationData, Binds, SlotReceipt, ClientIn, IsClient, HasData, disk

LEMMA StopCustody == ASSUME Sound', DiskInv', Stop PROVE Custody'
  BY AtNoPoint DEF Custody, Stop

LEMMA RefuseCustody == ASSUME Custody, Refuse PROVE Custody'
  BY RefuseSound, SameDiskInv, StopCustody DEF Custody, Refuse

LEMMA RemoveJournalInv == ASSUME RestDisk, RemoveJournal PROVE DiskInv'
  BY DEF DiskInv, RestDisk, RemoveJournal, NoJournal, Pending, Binds, ClientIn, IsClient,
     HasData

LEMMA WriteUpdateInv ==
  ASSUME TypeOK, DiskInv, journal.op = "update", ~Committed, NEW p, WriteState(p),
         p \notin {"rollback_slot_prepared", "rollback_slot_receipted"}
  PROVE  DiskInv'
  BY DEF TypeOK, Journal, WriteState, DiskInv, Pending, HadActive, Committed, UpdateDisk,
     FirstDisk, SwitchDisk, SwitchTrees, SwitchData, Unswitched, NotRetired, Retired,
     Deactivated, PriorTaken, PriorLost, Replaceable, Binds, ClientIn, IsClient, HasData

LEMMA WriteRollbackInv ==
  ASSUME TypeOK, DiskInv, journal.op = "rollback", NEW p, WriteState(p), ~Reversing \/
         Reversing'
  PROVE  DiskInv'
  BY DEF TypeOK, Journal, WriteState, DiskInv, Pending, RollbackDisk, Before, Between, After,
     VerificationData, Reversing, Binds, ClientIn, IsClient, HasData

LEMMA ForwardFacts ==
  ASSUME ControlInv, pc \in ForwardLabels PROVE journal.op = "update" /\ ~Committed /\ ~forced
  BY DEF ControlInv, UpdateLabels, ForwardLabels, StagingLabels, DetachedLabels,
     ActivatedLabels, AttachedLabels, FirstLabels, BackLabels, CleanLabels

LEMMA CommitFacts ==
  ASSUME ControlInv, pc \in CommitLabels PROVE journal.op = "update" /\ Committed /\ HadActive
         /\ ~forced
  BY DEF ControlInv, UpdateLabels, CommitLabels

LEMMA FirstFacts ==
  ASSUME ControlInv, pc \in FirstLabels PROVE journal.op = "update" /\ ~Committed /\ ~HadActive
  BY DEF ControlInv, UpdateLabels

LEMMA BackFacts ==
  ASSUME ControlInv, pc \in BackLabels PROVE journal.op = "update" /\ ~Committed /\ HadActive
  BY DEF ControlInv, UpdateLabels

LEMMA CleanFacts ==
  ASSUME ControlInv, pc \in CleanLabels PROVE journal.op = "update" /\ ~Committed
  BY DEF ControlInv, UpdateLabels

LEMMA FreeFacts ==
  ASSUME ControlInv, pc \in FreeLabels PROVE ~Pending /\ journal = NoJournal /\ ~forced
  BY DEF ControlInv, FreeLabels, FirstLabels, BackLabels, CleanLabels

LEMMA RollbackFacts ==
  ASSUME ControlInv, pc \in RollbackLabels PROVE journal.op = "rollback" /\ ~Committed /\
         ~forced
  BY DEF ControlInv

(* The steps of an update.                                                  *)
USE DEF Slots, Places, HasData, IsClient, SameFiles, SameSlots, SameBounds, Goto, CanMove,
    MoveTree, CanMoveData, MoveData, PutData, Pending, HadActive, Committed, Binds, ClientIn,
    NotRetired, Retired, Deactivated, PriorTaken, PriorLost, Unswitched, Replaceable,
    SwitchTrees, SwitchData, SwitchDisk, FirstDisk, SlotReceipt, CommittedDisk, UpdateDisk,
    StagingLabels, DetachedLabels, ActivatedLabels, AttachedLabels

LEMMA StageCopyCustody == ASSUME TypeOK, ControlInv, Custody, StageCopy PROVE Custody'
  <1>1. journal.op = "update" /\ ~Committed /\ ~forced
    BY ForwardFacts DEF StageCopy, ForwardLabels
  <1>2. Sound'
    BY StageCopySound
  <1>3. DiskInv'
    BY <1>1, <1>2, PlainKinds
      DEF TypeOK, Custody, Sound, EmptySlots, DiskInv, ForwardInv, StageCopy
  <1>4. ForwardInv'
    BY <1>1, PlainKinds DEF TypeOK, Custody, Sound, EmptySlots, ForwardInv, StageCopy
  <1>5. RecoverInv' /\ RollbackInv' /\ ReverseInv'
    BY <1>1, AtForwardPoint DEF StageCopy, ForwardPoints, ForwardLabels, CommitLabels
  <1> QED BY <1>2, <1>3, <1>4, <1>5 DEF Custody

LEMMA StageDoneCustody == ASSUME TypeOK, ControlInv, Custody, StageDone PROVE Custody'
  <1>1. journal.op = "update" /\ ~Committed /\ ~forced
    BY ForwardFacts DEF StageDone, ForwardLabels
  <1>2. Sound'
    BY StageDoneSound
  <1>3. DiskInv'
    BY <1>1, <1>2, PlainKinds
      DEF TypeOK, Custody, Sound, EmptySlots, DiskInv, ForwardInv, StageDone
  <1>4. ForwardInv'
    BY <1>1, PlainKinds DEF TypeOK, Custody, Sound, EmptySlots, ForwardInv, StageDone
  <1>5. RecoverInv' /\ RollbackInv' /\ ReverseInv'
    BY <1>1, AtForwardPoint DEF StageDone, ForwardPoints, ForwardLabels, CommitLabels
  <1> QED BY <1>2, <1>3, <1>4, <1>5 DEF Custody

LEMMA WriteStagedCustody == ASSUME TypeOK, ControlInv, Custody, WriteStaged PROVE Custody'
  <1>1. journal.op = "update" /\ ~Committed /\ ~forced
    BY ForwardFacts DEF WriteStaged, ForwardLabels
  <1>2. Sound'
    BY WriteStagedSound
  <1>3. DiskInv'
    BY <1>1, WriteUpdateInv DEF Custody, WriteStaged
  <1>4. ForwardInv'
    BY <1>1 DEF TypeOK, Journal, Custody, ForwardInv, WriteStaged, WriteState
  <1>5. RecoverInv' /\ RollbackInv' /\ ReverseInv'
    BY <1>1, AtForwardPoint DEF WriteStaged, ForwardPoints, ForwardLabels, CommitLabels
  <1> QED BY <1>2, <1>3, <1>4, <1>5 DEF Custody

LEMMA EnsureActiveDataCustody ==
  ASSUME TypeOK, ControlInv, Custody, EnsureActiveData PROVE Custody'
  <1>1. journal.op = "update" /\ ~Committed /\ ~forced
    BY ForwardFacts DEF EnsureActiveData, ForwardLabels
  <1>2. Sound'
    BY EnsureActiveDataSound
  <1>3. DiskInv'
    BY <1>1, <1>2, PlainKinds
      DEF TypeOK, Custody, Sound, EmptySlots, DiskInv, ForwardInv, EnsureActiveData
  <1>4. ForwardInv'
    BY <1>1, PlainKinds DEF TypeOK, Custody, Sound, EmptySlots, ForwardInv, EnsureActiveData
  <1>5. RecoverInv' /\ RollbackInv' /\ ReverseInv'
    BY <1>1, AtForwardPoint DEF EnsureActiveData, ForwardPoints, ForwardLabels, CommitLabels
  <1> QED BY <1>2, <1>3, <1>4, <1>5 DEF Custody

LEMMA ProbePassesCustody == ASSUME TypeOK, ControlInv, Custody, ProbePasses PROVE Custody'
  <1>1. journal.op = "update" /\ ~Committed /\ ~forced
    BY ForwardFacts DEF ProbePasses, ForwardLabels
  <1>2. Sound'
    BY ProbePassesSound
  <1>3. DiskInv'
    BY <1>1, <1>2, PlainKinds
      DEF TypeOK, Custody, Sound, EmptySlots, DiskInv, ForwardInv, ProbePasses, Passes
  <1>4. ForwardInv'
    BY <1>1, PlainKinds DEF TypeOK, Custody, Sound, EmptySlots, ForwardInv, ProbePasses, Passes
  <1>5. RecoverInv' /\ RollbackInv' /\ ReverseInv'
    BY <1>1, AtForwardPoint DEF ProbePasses, ForwardPoints, ForwardLabels, CommitLabels
  <1> QED BY <1>2, <1>3, <1>4, <1>5 DEF Custody

LEMMA ProbeFailsCustody == ASSUME TypeOK, ControlInv, Custody, ProbeFails PROVE Custody'
  <1>1. journal.op = "update" /\ ~Committed /\ ~forced
    BY ForwardFacts DEF ProbeFails, ForwardLabels
  <1>2. Sound'
    BY ProbeFailsSound
  <1>3. DiskInv'
    BY <1>1, <1>2, PlainKinds
      DEF TypeOK, Custody, Sound, EmptySlots, DiskInv, ForwardInv, ProbeFails, Fails, Mutates
  <1>4. CASE Stop
    BY <1>2, <1>3, <1>4, StopCustody
  <1> QED BY <1>4 DEF ProbeFails

LEMMA ProbeCreatesDataCustody ==
  ASSUME TypeOK, ControlInv, Custody, ProbeCreatesData PROVE Custody'
  <1>1. journal.op = "update" /\ ~Committed /\ ~forced
    BY ForwardFacts DEF ProbeCreatesData, ForwardLabels
  <1>2. Sound'
    BY ProbeCreatesDataSound
  <1>3. DiskInv'
    BY <1>1, <1>2, PlainKinds
      DEF TypeOK, Custody, Sound, EmptySlots, DiskInv, ForwardInv, ProbeCreatesData, CreatesData
  <1>4. CASE Stop
    BY <1>2, <1>3, <1>4, StopCustody
  <1>5. CASE Goto("backup")
    <2>1. ForwardInv'
      BY <1>1, <1>5, PlainKinds
        DEF TypeOK, Custody, Sound, EmptySlots, ForwardInv, ProbeCreatesData, CreatesData
    <2>2. RecoverInv' /\ RollbackInv' /\ ReverseInv'
      BY <1>1, <1>5, AtForwardPoint DEF ForwardPoints, ForwardLabels
    <2> QED BY <1>2, <1>3, <2>1, <2>2 DEF Custody
  <1> QED BY <1>4, <1>5 DEF ProbeCreatesData

LEMMA BackupDatabaseCustody == ASSUME TypeOK, ControlInv, Custody, BackupDatabase PROVE Custody'
  <1>1. journal.op = "update" /\ ~Committed /\ ~forced
    BY ForwardFacts DEF BackupDatabase, ForwardLabels
  <1>2. Sound'
    BY BackupDatabaseSound
  <1>3. DiskInv'
    BY <1>1, <1>2, PlainKinds
      DEF TypeOK, Custody, Sound, EmptySlots, DiskInv, ForwardInv, BackupDatabase
  <1>4. ForwardInv'
    BY <1>1, PlainKinds DEF TypeOK, Custody, Sound, EmptySlots, ForwardInv, BackupDatabase
  <1>5. RecoverInv' /\ RollbackInv' /\ ReverseInv'
    BY <1>1, AtForwardPoint DEF BackupDatabase, ForwardPoints, ForwardLabels, CommitLabels
  <1> QED BY <1>2, <1>3, <1>4, <1>5 DEF Custody

LEMMA WritePreparedCustody == ASSUME TypeOK, ControlInv, Custody, WritePrepared PROVE Custody'
  <1>1. journal.op = "update" /\ ~Committed /\ ~forced
    BY ForwardFacts DEF WritePrepared, ForwardLabels
  <1>2. Sound'
    BY WritePreparedSound
  <1>3. DiskInv'
    BY <1>1, <1>2, PlainKinds
      DEF TypeOK, Custody, Sound, EmptySlots, DiskInv, ForwardInv, WritePrepared, Journal
  <1>4. ForwardInv'
    BY <1>1, PlainKinds
      DEF TypeOK, Custody, Sound, EmptySlots, ForwardInv, WritePrepared, Journal
  <1>5. RecoverInv' /\ RollbackInv' /\ ReverseInv'
    BY <1>1, AtForwardPoint DEF WritePrepared, ForwardPoints, ForwardLabels, CommitLabels
  <1> QED BY <1>2, <1>3, <1>4, <1>5 DEF Custody

LEMMA RetirePreviousCustody == ASSUME TypeOK, ControlInv, Custody, RetirePrevious PROVE Custody'
  <1>1. journal.op = "update" /\ ~Committed /\ ~forced
    BY ForwardFacts DEF RetirePrevious, ForwardLabels
  <1>2. Sound'
    BY RetirePreviousSound
  <1>3. CASE Refuse
    BY <1>3, RefuseCustody
  <1>4. CASE /\ pc = "retire" /\ CanMove("previous", "retired") /\ MoveTree("previous", "retired")
             /\ SameFiles /\ Goto("previous_retired")
    <2>1. DiskInv'
      BY <1>1, <1>2, <1>4, PlainKinds
        DEF TypeOK, Custody, Sound, EmptySlots, DiskInv, ForwardInv
    <2>2. ForwardInv'
      BY <1>1, <1>4, PlainKinds DEF TypeOK, Custody, Sound, EmptySlots, ForwardInv
    <2>3. RecoverInv' /\ RollbackInv' /\ ReverseInv'
      BY <1>1, <1>4, AtForwardPoint DEF ForwardPoints, ForwardLabels, CommitLabels
    <2> QED BY <1>2, <2>1, <2>2, <2>3 DEF Custody
  <1> QED BY <1>3, <1>4 DEF RetirePrevious, MoveTreeExact

LEMMA WritePreviousRetiredCustody ==
  ASSUME TypeOK, ControlInv, Custody, WritePreviousRetired PROVE Custody'
  <1>1. journal.op = "update" /\ ~Committed /\ ~forced
    BY ForwardFacts DEF WritePreviousRetired, ForwardLabels
  <1>2. Sound'
    BY WritePreviousRetiredSound
  <1>3. DiskInv'
    BY <1>1, WriteUpdateInv DEF Custody, WritePreviousRetired
  <1>4. ForwardInv'
    BY <1>1 DEF TypeOK, Journal, Custody, ForwardInv, WritePreviousRetired, WriteState
  <1>5. RecoverInv' /\ RollbackInv' /\ ReverseInv'
    BY <1>1, AtForwardPoint DEF WritePreviousRetired, ForwardPoints, ForwardLabels, CommitLabels
  <1> QED BY <1>2, <1>3, <1>4, <1>5 DEF Custody

LEMMA DetachDataCustody == ASSUME TypeOK, ControlInv, Custody, DetachData PROVE Custody'
  <1>1. journal.op = "update" /\ ~Committed /\ ~forced /\ HadActive
    BY ForwardFacts DEF DetachData, ForwardLabels, ControlInv
  <1>2. Sound'
    BY DetachDataSound
  <1>3. CASE Refuse
    BY <1>3, RefuseCustody
  <1>4. CASE /\ pc = "detach" /\ CanMoveData("target", "handoff") /\ MoveData("target", "handoff")
             /\ SameFiles /\ Goto("data_moved")
    <2>1. DiskInv'
      BY <1>1, <1>2, <1>4, PlainKinds
        DEF TypeOK, Custody, Sound, EmptySlots, DiskInv, ForwardInv
    <2>2. ForwardInv'
      BY <1>1, <1>4, PlainKinds DEF TypeOK, Custody, Sound, EmptySlots, ForwardInv
    <2>3. RecoverInv' /\ RollbackInv' /\ ReverseInv'
      BY <1>1, <1>4, AtForwardPoint DEF ForwardPoints, ForwardLabels, CommitLabels
    <2> QED BY <1>2, <2>1, <2>2, <2>3 DEF Custody
  <1> QED BY <1>3, <1>4 DEF DetachData, MoveDataExact

LEMMA DeactivateOldCustody == ASSUME TypeOK, ControlInv, Custody, DeactivateOld PROVE Custody'
  <1>1. journal.op = "update" /\ ~Committed /\ ~forced /\ HadActive
    BY ForwardFacts DEF DeactivateOld, ForwardLabels, ControlInv
  <1>2. Sound'
    BY DeactivateOldSound
  <1>3. CASE Refuse
    BY <1>3, RefuseCustody
  <1>4. CASE /\ pc = "deactivate" /\ CanMove("target", "previous") /\ MoveTree("target", "previous")
             /\ SameFiles /\ Goto("active_moved")
    <2>1. DiskInv'
      BY <1>1, <1>2, <1>4, PlainKinds
        DEF TypeOK, Custody, Sound, EmptySlots, DiskInv, ForwardInv
    <2>2. ForwardInv'
      BY <1>1, <1>4, PlainKinds DEF TypeOK, Custody, Sound, EmptySlots, ForwardInv
    <2>3. RecoverInv' /\ RollbackInv' /\ ReverseInv'
      BY <1>1, <1>4, AtForwardPoint DEF ForwardPoints, ForwardLabels, CommitLabels
    <2> QED BY <1>2, <2>1, <2>2, <2>3 DEF Custody
  <1> QED BY <1>3, <1>4 DEF DeactivateOld, MoveTreeExact

LEMMA ActivateCandidateCustody ==
  ASSUME TypeOK, ControlInv, Custody, ActivateCandidate PROVE Custody'
  <1>1. journal.op = "update" /\ ~Committed /\ ~forced
    BY ForwardFacts DEF ActivateCandidate, ForwardLabels
  <1>2. Sound'
    BY ActivateCandidateSound
  <1>3. CASE Refuse
    BY <1>3, RefuseCustody
  <1>4. CASE /\ pc = "activate" /\ CanMove("incoming", "target") /\ MoveTree("incoming", "target")
             /\ SameFiles /\ Goto("activated")
    <2>1. DiskInv'
      BY <1>1, <1>2, <1>4, PlainKinds
        DEF TypeOK, Custody, Sound, EmptySlots, DiskInv, ForwardInv
    <2>2. ForwardInv'
      BY <1>1, <1>4, PlainKinds DEF TypeOK, Custody, Sound, EmptySlots, ForwardInv
    <2>3. RecoverInv' /\ RollbackInv' /\ ReverseInv'
      BY <1>1, <1>4, AtForwardPoint DEF ForwardPoints, ForwardLabels, CommitLabels
    <2> QED BY <1>2, <2>1, <2>2, <2>3 DEF Custody
  <1> QED BY <1>3, <1>4 DEF ActivateCandidate, MoveTreeExact

LEMMA WriteActiveMovedCustody ==
  ASSUME TypeOK, ControlInv, Custody, WriteActiveMoved PROVE Custody'
  <1>1. journal.op = "update" /\ ~Committed /\ ~forced
    BY ForwardFacts DEF WriteActiveMoved, ForwardLabels
  <1>2. Sound'
    BY WriteActiveMovedSound
  <1>3. DiskInv'
    BY <1>1, WriteUpdateInv DEF Custody, WriteActiveMoved
  <1>4. ForwardInv'
    BY <1>1 DEF TypeOK, Journal, Custody, ForwardInv, WriteActiveMoved, WriteState
  <1>5. RecoverInv' /\ RollbackInv' /\ ReverseInv'
    BY <1>1, AtForwardPoint DEF WriteActiveMoved, ForwardPoints, ForwardLabels, CommitLabels
  <1> QED BY <1>2, <1>3, <1>4, <1>5 DEF Custody

LEMMA WriteActivatedCustody == ASSUME TypeOK, ControlInv, Custody, WriteActivated PROVE Custody'
  <1>1. journal.op = "update" /\ ~Committed /\ ~forced
    BY ForwardFacts DEF WriteActivated, ForwardLabels
  <1>2. Sound'
    BY WriteActivatedSound
  <1>3. DiskInv'
    BY <1>1, WriteUpdateInv DEF Custody, WriteActivated
  <1>4. ForwardInv'
    BY <1>1 DEF TypeOK, Journal, Custody, ForwardInv, WriteActivated, WriteState
  <1>5. RecoverInv' /\ RollbackInv' /\ ReverseInv'
    BY <1>1, AtForwardPoint DEF WriteActivated, ForwardPoints, ForwardLabels, CommitLabels
  <1> QED BY <1>2, <1>3, <1>4, <1>5 DEF Custody

LEMMA WriteAttachPendingCustody ==
  ASSUME TypeOK, ControlInv, Custody, WriteAttachPending PROVE Custody'
  <1>1. journal.op = "update" /\ ~Committed /\ ~forced
    BY ForwardFacts DEF WriteAttachPending, ForwardLabels
  <1>2. Sound'
    BY WriteAttachPendingSound
  <1>3. DiskInv'
    BY <1>1, WriteUpdateInv DEF Custody, WriteAttachPending
  <1>4. ForwardInv'
    BY <1>1 DEF TypeOK, Journal, Custody, ForwardInv, WriteAttachPending, WriteState
  <1>5. RecoverInv' /\ RollbackInv' /\ ReverseInv'
    BY <1>1, AtForwardPoint DEF WriteAttachPending, ForwardPoints, ForwardLabels, CommitLabels
  <1> QED BY <1>2, <1>3, <1>4, <1>5 DEF Custody

LEMMA VerifyPassesCustody == ASSUME TypeOK, ControlInv, Custody, VerifyPasses PROVE Custody'
  <1>1. journal.op = "update" /\ ~Committed /\ ~forced
    BY ForwardFacts DEF VerifyPasses, ForwardLabels
  <1>2. Sound'
    BY VerifyPassesSound
  <1>3. DiskInv'
    BY <1>1, <1>2, PlainKinds
      DEF TypeOK, Custody, Sound, EmptySlots, DiskInv, ForwardInv, VerifyPasses, disk
  <1>4. ForwardInv'
    BY <1>1, PlainKinds DEF TypeOK, Custody, Sound, EmptySlots, ForwardInv, VerifyPasses, disk
  <1>5. RecoverInv' /\ RollbackInv' /\ ReverseInv'
    BY <1>1, AtForwardPoint DEF VerifyPasses, ForwardPoints, ForwardLabels, CommitLabels
  <1> QED BY <1>2, <1>3, <1>4, <1>5 DEF Custody

LEMMA SealDataCustody == ASSUME TypeOK, ControlInv, Custody, SealData PROVE Custody'
  <1>1. journal.op = "update" /\ ~Committed /\ ~forced
    BY ForwardFacts DEF SealData, ForwardLabels
  <1>2. Sound'
    BY SealDataSound
  <1>3. CASE Refuse
    BY <1>3, RefuseCustody
  <1>4. CASE /\ pc = "seal" /\ HadActive /\ ~HasData("incoming") /\ Goto("detach")
             /\ journal' = [journal EXCEPT !.phase = "prepared", !.sealed = data["target"]]
             /\ UNCHANGED <<tree, data, prepared, receipt>>
    <2>1. /\ journal'.op = "update" /\ journal'.sealed = data["target"] /\ ~Committed' /\ HadActive'
          /\ UNCHANGED <<journal.active, journal.prior, journal.cand>>
      BY <1>1, <1>4 DEF TypeOK, Journal
    <2>2. DiskInv'
      BY <1>1, <1>2, <1>4, <2>1, PlainKinds
        DEF TypeOK, Custody, Sound, KnownData, EmptySlots, DiskInv, ForwardInv
    <2>3. ForwardInv'
      BY <1>4, <2>1, PlainKinds DEF Custody, ForwardInv
    <2>4. RecoverInv' /\ RollbackInv' /\ ReverseInv'
      BY <1>1, <1>4, AtForwardPoint DEF ForwardPoints, ForwardLabels
    <2> QED BY <1>2, <2>2, <2>3, <2>4 DEF Custody
  <1>5. CASE pc = "seal" /\ ~HadActive /\ ~HasData("incoming") /\ UNCHANGED disk /\ Goto("data_moved")
    <2>1. DiskInv'
      BY <1>5, SameDiskInv DEF Custody
    <2>2. ForwardInv'
      BY <1>1, <1>5, PlainKinds
        DEF TypeOK, Custody, Sound, EmptySlots, DiskInv, ForwardInv, disk
    <2>3. RecoverInv' /\ RollbackInv' /\ ReverseInv'
      BY <1>1, <1>5, AtForwardPoint DEF ForwardPoints, ForwardLabels
    <2> QED BY <1>2, <2>1, <2>2, <2>3 DEF Custody
  <1> QED BY <1>3, <1>4, <1>5 DEF SealData

LEMMA WriteDataMovedCustody == ASSUME TypeOK, ControlInv, Custody, WriteDataMoved PROVE Custody'
  <1>1. journal.op = "update" /\ ~Committed /\ ~forced
    BY ForwardFacts DEF WriteDataMoved, ForwardLabels
  <1>2. Sound'
    BY WriteDataMovedSound
  <1>3. CASE Refuse
    BY <1>3, RefuseCustody
  <1>4. CASE ~Refuse
    <2>1. DiskInv'
      BY <1>1, <1>2, <1>4, PlainKinds
        DEF TypeOK, Custody, Sound, EmptySlots, DiskInv, ForwardInv, WriteDataMoved, Journal,
            WriteState
    <2>2. ForwardInv'
      BY <1>1, <1>4, PlainKinds
        DEF TypeOK, Custody, Sound, EmptySlots, ForwardInv, WriteDataMoved, Journal, WriteState
    <2>3. RecoverInv' /\ RollbackInv' /\ ReverseInv'
      BY <1>1, <1>4, AtForwardPoint
        DEF ForwardPoints, ForwardLabels, CommitLabels, WriteDataMoved
    <2> QED BY <1>2, <2>1, <2>2, <2>3 DEF Custody
  <1> QED BY <1>3, <1>4

LEMMA VerifyFailsCustody == ASSUME TypeOK, ControlInv, Custody, VerifyFails PROVE Custody'
  <1>1. journal.op = "update" /\ ~Committed /\ ~forced
    BY ForwardFacts DEF VerifyFails, ForwardLabels
  <1>2. Sound'
    BY VerifyFailsSound
  <1>3. DiskInv'
    BY <1>1, <1>2, PlainKinds
      DEF TypeOK, Custody, Sound, EmptySlots, DiskInv, ForwardInv, VerifyFails, Fails,
          CreatesData, Mutates
  <1>4. pc' = "recover" /\ tree'["incoming"] = NoApp
    BY DEF TypeOK, Custody, ForwardInv, VerifyFails, ForceRecovery, Fails, CreatesData, Mutates
  <1> QED BY <1>2, <1>3, <1>4, AtNoPoint DEF Custody

LEMMA AttachDataCustody == ASSUME TypeOK, ControlInv, Custody, AttachData PROVE Custody'
  <1>1. journal.op = "update" /\ ~Committed /\ ~forced
    BY ForwardFacts DEF AttachData, ForwardLabels
  <1>2. Sound'
    BY AttachDataSound
  <1>3. CASE Refuse
    BY <1>3, RefuseCustody
  <1>4. CASE /\ pc = "attach" /\ SameFiles /\ Goto("data_attached")
             /\ \/ ~HadActive /\ ~HasData("target") /\ PutData("target", Empty)
                \/ HadActive /\ CanMoveData("handoff", "target") /\ MoveData("handoff", "target")
    <2>1. DiskInv'
      BY <1>1, <1>2, <1>4, PlainKinds
        DEF TypeOK, Custody, Sound, EmptySlots, DiskInv, ForwardInv
    <2>2. ForwardInv'
      BY <1>1, <1>4, PlainKinds DEF TypeOK, Custody, Sound, EmptySlots, DiskInv, ForwardInv
    <2>3. RecoverInv' /\ RollbackInv' /\ ReverseInv'
      BY <1>1, <1>4, AtForwardPoint DEF ForwardPoints, ForwardLabels
    <2> QED BY <1>2, <2>1, <2>2, <2>3 DEF Custody
  <1> QED BY <1>3, <1>4 DEF AttachData, MoveDataExact

LEMMA WriteDataAttachedCustody ==
  ASSUME TypeOK, ControlInv, Custody, WriteDataAttached PROVE Custody'
  <1>1. journal.op = "update" /\ ~Committed /\ ~forced
    BY ForwardFacts DEF WriteDataAttached, ForwardLabels
  <1>2. Sound'
    BY WriteDataAttachedSound
  <1>3. CASE Refuse
    BY <1>3, RefuseCustody
  <1>4. CASE /\ pc = "data_attached" /\ WriteState("data_attached")
             /\ HadActive /\ data["target"] = journal.sealed /\ Goto("slot")
    <2>1. DiskInv'
      BY <1>1, <1>4, WriteUpdateInv DEF Custody
    <2>2. ForwardInv'
      BY <1>1, <1>4 DEF TypeOK, Journal, Custody, ForwardInv, WriteState
    <2>3. RecoverInv' /\ RollbackInv' /\ ReverseInv'
      BY <1>1, <1>4, AtForwardPoint DEF ForwardPoints, ForwardLabels
    <2> QED BY <1>2, <2>1, <2>2, <2>3 DEF Custody
  <1>5. CASE /\ pc = "data_attached" /\ WriteState("data_attached") /\ ~HadActive /\ Goto("finish")
    <2>1. DiskInv'
      BY <1>1, <1>5, WriteUpdateInv DEF Custody
    <2>2. RestDisk' /\ (journal.sealed # NoData => data["target"] = journal.sealed)'
      BY <1>1, <1>5
        DEF TypeOK, Journal, Custody, ControlInv, DiskInv, ForwardInv, RestDisk, Releases,
            WriteState
    <2>3. RecoverInv'
      BY <1>1, <1>5, <2>2 DEF RecoverInv, CleanLabels
    <2>4. ForwardInv' /\ RollbackInv' /\ ReverseInv'
      BY <1>5, AtRecoveryPoint DEF RecoveryPoints
    <2> QED BY <1>2, <2>1, <2>3, <2>4 DEF Custody
  <1> QED BY <1>3, <1>4, <1>5 DEF WriteDataAttached

LEMMA PrepareSlotReceiptCustody ==
  ASSUME TypeOK, ControlInv, Custody, PrepareSlotReceipt PROVE Custody'
  <1>1. journal.op = "update" /\ ~Committed /\ ~forced /\ HadActive
    BY ForwardFacts DEF PrepareSlotReceipt, ForwardLabels, ControlInv
  <1>2. Sound'
    BY PrepareSlotReceiptSound
  <1>3. DiskInv'
    BY <1>1, <1>2, PlainKinds
      DEF TypeOK, Custody, Sound, EmptySlots, DiskInv, ForwardInv, PrepareSlotReceipt
  <1>4. ForwardInv'
    BY <1>1, PlainKinds DEF TypeOK, Custody, Sound, EmptySlots, ForwardInv, PrepareSlotReceipt
  <1>5. RecoverInv' /\ RollbackInv' /\ ReverseInv'
    BY <1>1, AtForwardPoint DEF PrepareSlotReceipt, ForwardPoints, ForwardLabels, CommitLabels
  <1> QED BY <1>2, <1>3, <1>4, <1>5 DEF Custody

LEMMA WriteSlotPreparedCustody ==
  ASSUME TypeOK, ControlInv, Custody, WriteSlotPrepared PROVE Custody'
  <1>1. journal.op = "update" /\ ~Committed /\ ~forced /\ HadActive
    BY ForwardFacts DEF WriteSlotPrepared, ForwardLabels, ControlInv
  <1>2. Sound'
    BY WriteSlotPreparedSound
  <1>3. DiskInv'
    <2>1. /\ ClientIn({"target"}) /\ data["target"] = journal.sealed /\ journal.sealed # NoData
      BY <1>1, PlainKinds, OnePlace
        DEF WriteSlotPrepared, TypeOK, Custody, Sound, DiskInv, ForwardInv
    <2> QED BY <1>1, <2>1
              DEF TypeOK, Journal, Custody, DiskInv, ForwardInv, WriteSlotPrepared, WriteState
  <1>4. ForwardInv'
    BY <1>1 DEF WriteSlotPrepared, ForwardInv
  <1>5. RecoverInv' /\ RollbackInv' /\ ReverseInv'
    BY <1>1, AtForwardPoint DEF WriteSlotPrepared, ForwardPoints, CommitLabels
  <1> QED BY <1>2, <1>3, <1>4, <1>5 DEF Custody

LEMMA PublishReceiptCustody == ASSUME TypeOK, ControlInv, Custody, PublishReceipt PROVE Custody'
  <1>1. journal.op = "update" /\ Committed /\ HadActive /\ ~forced
    BY CommitFacts DEF PublishReceipt, CommitLabels
  <1>2. Sound'
    BY PublishReceiptSound
  <1>3. CASE Refuse
    BY <1>3, RefuseCustody
  <1>4. CASE ~Refuse
    <2>1. receipt' = SlotReceipt /\ prepared' = NoReceipt /\ UNCHANGED <<tree, data, journal>>
      BY <1>1, <1>4
        DEF PublishReceipt, CompleteSlotReceipt, ControlInv, Custody, DiskInv, NoReceipt, disk
    <2>2. Goto("rollback_slot_receipted")
      BY <1>4 DEF PublishReceipt, CompleteSlotReceipt
    <2>3. DiskInv'
      BY <1>1, <2>1 DEF Custody, DiskInv
    <2>4. ForwardInv'
      BY <2>1, <2>2 DEF ForwardInv
    <2>5. RecoverInv' /\ RollbackInv' /\ ReverseInv'
      BY <1>1, <2>2, AtForwardPoint DEF ForwardPoints, CommitLabels
    <2> QED BY <1>2, <2>3, <2>4, <2>5 DEF Custody
  <1> QED BY <1>3, <1>4

LEMMA WriteSlotReceiptedCustody ==
  ASSUME TypeOK, ControlInv, Custody, WriteSlotReceipted PROVE Custody'
  <1>1. journal.op = "update" /\ Committed /\ HadActive /\ ~forced
    BY CommitFacts DEF WriteSlotReceipted, CommitLabels
  <1>2. Sound'
    BY WriteSlotReceiptedSound
  <1>3. DiskInv'
    BY <1>1 DEF TypeOK, Journal, Custody, DiskInv, WriteSlotReceipted, WriteState
  <1>4. RestDisk' /\ (journal.sealed # NoData => data["target"] = journal.sealed)'
    BY <1>1
      DEF TypeOK, Journal, Custody, ControlInv, DiskInv, ForwardInv, RestDisk, Releases,
          WriteSlotReceipted, WriteState
  <1>5. RecoverInv'
    BY <1>1, <1>4 DEF RecoverInv, CleanLabels, WriteSlotReceipted
  <1>6. ForwardInv' /\ RollbackInv' /\ ReverseInv'
    BY AtRecoveryPoint DEF RecoveryPoints, WriteSlotReceipted
  <1> QED BY <1>2, <1>3, <1>5, <1>6 DEF Custody

LEMMA FinishUpdateCustody == ASSUME TypeOK, ControlInv, Custody, FinishUpdate PROVE Custody'
  <1>1. RestDisk /\ RemoveJournal /\ ~forced /\ Goto("drop_retired")
    BY DEF FinishUpdate, ControlInv, Custody, RecoverInv, FirstLabels, BackLabels, CleanLabels
  <1>2. Sound' /\ DiskInv'
    BY <1>1, FinishUpdateSound, RemoveJournalInv
  <1> QED BY <1>1, <1>2, AtNoPoint DEF Custody

LEMMA DropRetiredCustody == ASSUME TypeOK, ControlInv, Custody, DropRetired PROVE Custody'
  <1>1. ~Pending /\ journal = NoJournal /\ ~forced
    BY FreeFacts DEF DropRetired, FreeLabels
  <1>2. CASE Refuse
    BY <1>2, RefuseCustody
  <1>3. CASE ~Refuse
    <2>1. RestDisk'
      BY <1>1, <1>3 DEF DropRetired, TypeOK, Custody, DiskInv, RestDisk, Shred
    <2>2. DiskInv'
      BY <1>1, <1>3, <2>1 DEF DropRetired, DiskInv, NoJournal
    <2>3. Sound'
      BY DropRetiredSound
    <2> QED BY <1>1, <1>3, <2>2, <2>3, AtNoPoint DEF DropRetired, Custody
  <1> QED BY <1>2, <1>3

LEMMA RemoveRetiredCustody == ASSUME TypeOK, ControlInv, Custody, RemoveRetired PROVE Custody'
  <1>1. ~Pending /\ journal = NoJournal /\ ~forced
    BY FreeFacts DEF RemoveRetired, FreeLabels
  <1>2. CASE Refuse
    BY <1>2, RefuseCustody
  <1>3. CASE ~Refuse
    <2>1. RestDisk'
      BY <1>1, <1>3 DEF RemoveRetired, TypeOK, Custody, DiskInv, RestDisk, Shred
    <2>2. DiskInv'
      BY <1>1, <1>3, <2>1 DEF RemoveRetired, DiskInv, NoJournal
    <2>3. Sound'
      BY RemoveRetiredSound
    <2> QED BY <1>1, <1>3, <2>2, <2>3, AtNoPoint DEF RemoveRetired, Custody
  <1> QED BY <1>2, <1>3

LEMMA BeginUpdateCustody == ASSUME TypeOK, ControlInv, Custody, BeginUpdate PROVE Custody'
  <1>1. ~Pending /\ ~forced /\ (req.op = "update" => req.cand \in Apps)
    BY FreeFacts DEF BeginUpdate, FreeLabels, ControlInv
  <1>2. CASE Refuse
    BY <1>2, RefuseCustody
  <1>3. CASE ~Refuse
    <2>1. Sound'
      BY BeginUpdateSound
    <2>2. /\ journal' = [NoJournal EXCEPT !.op = "update", !.phase = "staging", !.run = run + 1,
                            !.active = tree["target"], !.prior = tree["previous"], !.cand = req.cand]
          /\ tree' = [tree EXCEPT !["failed"] = NoApp]
          /\ data' = [data EXCEPT !["failed"] = NoData, !["parked"] = NoData]
          /\ pc' = "stage" /\ UNCHANGED <<receipt, forced>>
          /\ ~HasData("handoff") /\ tree["retired"] = NoApp /\ ~HasData("previous")
      BY <1>3 DEF BeginUpdate, Unowned
    <2>3. RestDisk
      BY <1>1 DEF Custody, DiskInv
    <2>4. DiskInv'
      BY <2>1, <2>2, <2>3, PlainKinds
        DEF TypeOK, NoJournal, Custody, Sound, EmptySlots, DiskInv, RestDisk
    <2>5. ForwardInv'
      BY <2>2, <2>3, PlainKinds
        DEF TypeOK, NoJournal, Custody, Sound, EmptySlots, RestDisk, ForwardInv
    <2>6. RecoverInv' /\ RollbackInv' /\ ReverseInv'
      BY <1>1, <2>2, AtForwardPoint DEF ForwardPoints, ForwardLabels
    <2> QED BY <2>1, <2>4, <2>5, <2>6 DEF Custody
  <1> QED BY <1>2, <1>3

HIDE DEF Slots, Places, HasData, IsClient, SameFiles, SameSlots, SameBounds, Goto, CanMove,
     MoveTree, CanMoveData, MoveData, PutData, Pending, HadActive, Committed, Binds,
     ClientIn, NotRetired, Retired, Deactivated, PriorTaken, PriorLost, Unswitched,
     Replaceable, SwitchTrees, SwitchData, SwitchDisk, FirstDisk, SlotReceipt,
     CommittedDisk, UpdateDisk, StagingLabels, DetachedLabels, ActivatedLabels,
     AttachedLabels

(* The recovery of an update.                                               *)
USE DEF Slots, Places, HasData, IsClient, SameFiles, SameSlots, SameBounds, Goto, CanMove,
    MoveTree, CanMoveData, MoveData, PutData, Pending, HadActive, Committed, Binds, ClientIn,
    NotRetired, Retired, Deactivated, PriorTaken, PriorLost, Unswitched, Replaceable,
    SwitchTrees, SwitchData, SwitchDisk, FirstDisk, SlotReceipt, CommittedDisk, UpdateDisk,
    StagingLabels, DetachedLabels, ActivatedLabels, AttachedLabels

LEMMA RecoverFirstCustody == ASSUME TypeOK, ControlInv, Custody, RecoverFirst PROVE Custody'
  <1>1. journal.op = "update" /\ ~Committed /\ ~HadActive
    BY FirstFacts DEF RecoverFirst, FirstLabels
  <1>2. Sound'
    BY RecoverFirstSound
  <1>3. CASE Refuse
    BY <1>3, RefuseCustody
  <1>4. CASE ~Refuse
    <2>1. DiskInv'
      BY <1>1, <1>2, <1>4, PlainKinds
        DEF TypeOK, Custody, Sound, EmptySlots, DiskInv, RecoverInv, RecoverFirst, Passes,
            Fails, Mutates, disk
    <2>2. RecoverInv'
      BY <1>1, <1>4, PlainKinds
        DEF TypeOK, Custody, Sound, EmptySlots, DiskInv, RecoverInv, RestDisk, CleanLabels,
            RecoverFirst, Passes, Fails, Mutates, disk
    <2>3. ForwardInv' /\ RollbackInv' /\ ReverseInv'
      BY <1>1, <1>4, AtRecoveryPoint
        DEF RecoveryPoints, FirstLabels, BackLabels, CleanLabels, RecoverFirst, Passes, Fails,
            Mutates
    <2> QED BY <1>2, <2>1, <2>2, <2>3 DEF Custody
  <1> QED BY <1>3, <1>4

LEMMA RecoverFirstDataCustody ==
  ASSUME TypeOK, ControlInv, Custody, RecoverFirstData PROVE Custody'
  <1>1. journal.op = "update" /\ ~Committed /\ ~HadActive
    BY FirstFacts DEF RecoverFirstData, FirstLabels
  <1>2. Sound'
    BY RecoverFirstDataSound
  <1>3. CASE Refuse
    BY <1>3, RefuseCustody
  <1>4. CASE ~Refuse
    <2>1. DiskInv'
      BY <1>1, <1>2, <1>4, PlainKinds
        DEF TypeOK, Custody, Sound, EmptySlots, DiskInv, RecoverInv, RecoverFirstData,
            ControlInv, Releases
    <2>2. RecoverInv'
      BY <1>1, <1>4, PlainKinds
        DEF TypeOK, Custody, Sound, EmptySlots, DiskInv, RecoverInv, RestDisk, CleanLabels,
            RecoverFirstData, ControlInv, Releases
    <2>3. ForwardInv' /\ RollbackInv' /\ ReverseInv'
      BY <1>1, <1>4, AtRecoveryPoint
        DEF RecoveryPoints, FirstLabels, BackLabels, CleanLabels, RecoverFirstData
    <2> QED BY <1>2, <2>1, <2>2, <2>3 DEF Custody
  <1> QED BY <1>3, <1>4

LEMMA QuarantineTargetCustody ==
  ASSUME TypeOK, ControlInv, Custody, QuarantineTarget PROVE Custody'
  <1>1. journal.op = "update" /\ ~Committed /\ ~HadActive
    BY FirstFacts DEF QuarantineTarget, FirstLabels
  <1>2. Sound'
    BY QuarantineTargetSound
  <1>3. CASE Refuse
    BY <1>3, RefuseCustody
  <1>4. CASE ~Refuse
    <2>1. DiskInv'
      BY <1>1, <1>2, <1>4, PlainKinds
        DEF TypeOK, Custody, Sound, EmptySlots, DiskInv, RecoverInv, QuarantineTarget,
            MoveTreeExact, ControlInv, Releases
    <2>2. RecoverInv'
      BY <1>1, <1>4, PlainKinds
        DEF TypeOK, Custody, Sound, EmptySlots, DiskInv, RecoverInv, RestDisk, CleanLabels,
            QuarantineTarget, MoveTreeExact, ControlInv, Releases
    <2>3. ForwardInv' /\ RollbackInv' /\ ReverseInv'
      BY <1>1, <1>4, AtRecoveryPoint
        DEF RecoveryPoints, FirstLabels, BackLabels, CleanLabels, QuarantineTarget,
            MoveTreeExact
    <2> QED BY <1>2, <2>1, <2>2, <2>3 DEF Custody
  <1> QED BY <1>3, <1>4

LEMMA RecoverTargetDataCustody ==
  ASSUME TypeOK, ControlInv, Custody, RecoverTargetData PROVE Custody'
  <1>1. journal.op = "update" /\ ~Committed /\ HadActive
    BY BackFacts DEF RecoverTargetData, BackLabels
  <1>2. Sound'
    BY RecoverTargetDataSound
  <1>3. CASE Refuse
    BY <1>3, RefuseCustody
  <1>4. CASE ~Refuse
    <2>1. DiskInv'
      BY <1>1, <1>2, <1>4, PlainKinds
        DEF TypeOK, Custody, Sound, EmptySlots, DiskInv, RecoverInv, RecoverTargetData,
            MoveDataExact, disk
    <2>2. RecoverInv'
      BY <1>1, <1>4, PlainKinds
        DEF TypeOK, Custody, Sound, EmptySlots, DiskInv, RecoverInv, RestDisk, CleanLabels,
            RecoverTargetData, MoveDataExact, disk
    <2>3. ForwardInv' /\ RollbackInv' /\ ReverseInv'
      BY <1>1, <1>4, AtRecoveryPoint
        DEF RecoveryPoints, FirstLabels, BackLabels, CleanLabels, RecoverTargetData,
            MoveDataExact
    <2> QED BY <1>2, <2>1, <2>2, <2>3 DEF Custody
  <1> QED BY <1>3, <1>4

LEMMA RecoverPreviousDataCustody ==
  ASSUME TypeOK, ControlInv, Custody, RecoverPreviousData PROVE Custody'
  <1>1. journal.op = "update" /\ ~Committed /\ HadActive
    BY BackFacts DEF RecoverPreviousData, BackLabels
  <1>2. Sound'
    BY RecoverPreviousDataSound
  <1>3. CASE Refuse
    BY <1>3, RefuseCustody
  <1>4. CASE ~Refuse
    <2>1. DiskInv'
      BY <1>1, <1>2, <1>4, PlainKinds
        DEF TypeOK, Custody, Sound, EmptySlots, DiskInv, RecoverInv, RecoverPreviousData,
            MoveDataExact, disk
    <2>2. RecoverInv'
      BY <1>1, <1>4, PlainKinds
        DEF TypeOK, Custody, Sound, EmptySlots, DiskInv, RecoverInv, RestDisk, CleanLabels,
            RecoverPreviousData, MoveDataExact, disk
    <2>3. ForwardInv' /\ RollbackInv' /\ ReverseInv'
      BY <1>1, <1>4, AtRecoveryPoint
        DEF RecoveryPoints, FirstLabels, BackLabels, CleanLabels, RecoverPreviousData,
            MoveDataExact
    <2> QED BY <1>2, <2>1, <2>2, <2>3 DEF Custody
  <1> QED BY <1>3, <1>4

LEMMA RecoverSwapCustody == ASSUME TypeOK, ControlInv, Custody, RecoverSwap PROVE Custody'
  <1>1. journal.op = "update" /\ ~Committed /\ HadActive
    BY BackFacts DEF RecoverSwap, BackLabels
  <1>2. Sound'
    BY RecoverSwapSound
  <1>3. CASE Refuse
    BY <1>3, RefuseCustody
  <1>4. CASE ~Refuse
    <2>1. DiskInv'
      BY <1>1, <1>2, <1>4, PlainKinds
        DEF TypeOK, Custody, Sound, EmptySlots, DiskInv, RecoverInv, RecoverSwap, MoveTreeExact,
            disk
    <2>2. RecoverInv'
      BY <1>1, <1>4, PlainKinds
        DEF TypeOK, Custody, Sound, EmptySlots, DiskInv, RecoverInv, RestDisk, CleanLabels,
            RecoverSwap, MoveTreeExact, disk
    <2>3. ForwardInv' /\ RollbackInv' /\ ReverseInv'
      BY <1>1, <1>4, AtRecoveryPoint
        DEF RecoveryPoints, FirstLabels, BackLabels, CleanLabels, RecoverSwap, MoveTreeExact
    <2> QED BY <1>2, <2>1, <2>2, <2>3 DEF Custody
  <1> QED BY <1>3, <1>4

LEMMA RecoverIncomingCustody ==
  ASSUME TypeOK, ControlInv, Custody, RecoverIncoming PROVE Custody'
  <1>1. journal.op = "update" /\ ~Committed
    BY CleanFacts DEF RecoverIncoming, CleanLabels
  <1>2. Sound'
    BY RecoverIncomingSound
  <1>3. CASE Refuse
    BY <1>3, RefuseCustody
  <1>4. CASE ~Refuse
    <2>1. DiskInv'
      BY <1>1, <1>2, <1>4, PlainKinds
        DEF TypeOK, Custody, Sound, EmptySlots, DiskInv, RecoverInv, RecoverIncoming,
            MoveTreeExact, Shred, disk
    <2>2. RecoverInv'
      BY <1>1, <1>4, PlainKinds
        DEF TypeOK, Custody, Sound, EmptySlots, DiskInv, RecoverInv, RestDisk, CleanLabels,
            RecoverIncoming, MoveTreeExact, Shred, disk
    <2>3. ForwardInv' /\ RollbackInv' /\ ReverseInv'
      BY <1>1, <1>4, AtRecoveryPoint
        DEF RecoveryPoints, FirstLabels, BackLabels, CleanLabels, RecoverIncoming, MoveTreeExact
    <2> QED BY <1>2, <2>1, <2>2, <2>3 DEF Custody
  <1> QED BY <1>3, <1>4

LEMMA RecoverPriorCustody == ASSUME TypeOK, ControlInv, Custody, RecoverPrior PROVE Custody'
  <1>1. journal.op = "update" /\ ~Committed /\ tree["incoming"] = NoApp /\ tree["target"] \in Releases
        /\ (~HadActive => tree["retired"] = NoApp)
    <2>1. journal.op = "update" /\ ~Committed
      BY CleanFacts DEF RecoverPrior, CleanLabels
    <2>2. tree["incoming"] = NoApp
      BY DEF RecoverPrior, Custody, RecoverInv
    <2>3. tree["target"] \in Releases
      BY <2>1 DEF RecoverPrior, Custody, RecoverInv, DiskInv, CleanLabels, Releases
    <2>4. ~HadActive => tree["retired"] = NoApp
      BY <2>1 DEF Custody, DiskInv
    <2> QED BY <2>1, <2>2, <2>3, <2>4
  <1>2. Sound'
    BY RecoverPriorSound
  <1>3. CASE Refuse
    BY <1>3, RefuseCustody
  <1>4. CASE /\ ~Refuse /\ UNCHANGED disk /\ Goto("r_finish")
    <2>1. DiskInv'
      BY <1>4, SameDiskInv DEF Custody
    <2>2. /\ IF HadActive THEN NotRetired /\ (journal.sealed # NoData => data["target"] = journal.sealed)
             ELSE tree["previous"] = NoApp
          /\ pc = "r_prior"
      BY <1>1, <1>4
        DEF RecoverPrior, MoveTreeExact, Custody, DiskInv, RecoverInv, CleanLabels, TypeOK,
            Refuse, disk
    <2>3. RestDisk /\ (journal.sealed # NoData => data["target"] = journal.sealed)
      <3>1. ClientIn({"target"})
        BY <1>1, <2>2, OnePlace DEF Custody, Sound, DiskInv, RecoverInv, CleanLabels
      <3> QED BY <1>1, <2>2, <3>1
                DEF ControlInv, Custody, DiskInv, RecoverInv, CleanLabels, RestDisk, Releases
    <2>4. (RestDisk /\ (journal.sealed # NoData => data["target"] = journal.sealed))'
      BY <1>4, <2>3 DEF disk, RestDisk
    <2>5. RecoverInv'
      BY <1>1, <1>4, <2>4 DEF RecoverInv, CleanLabels, disk
    <2> QED BY <1>2, <1>4, <2>1, <2>5, AtRecoveryPoint DEF Custody, RecoveryPoints
  <1>5. CASE /\ pc = "r_prior" /\ CanMove("retired", "previous") /\ MoveTree("retired", "previous")
             /\ HadActive /\ (journal.sealed # NoData => data["target"] = journal.sealed)
             /\ tree["retired"] = journal.prior /\ SameFiles /\ Goto("r_finish")
    <2>1. DiskInv'
      BY <1>1, <1>2, <1>5, PlainKinds
        DEF TypeOK, Custody, Sound, EmptySlots, DiskInv, RecoverInv, CleanLabels
    <2>2. RestDisk'
      <3>1. ClientIn({"target"})
        BY <1>1, <1>5, OnePlace DEF Custody, Sound, DiskInv, RecoverInv, CleanLabels
      <3> QED BY <1>1, <1>5, <3>1, PlainKinds
                DEF TypeOK, Custody, Sound, EmptySlots, DiskInv, RecoverInv, CleanLabels,
                    RestDisk, Releases
    <2>3. RecoverInv'
      BY <1>1, <1>5, <2>2 DEF RecoverInv, CleanLabels, TypeOK
    <2> QED BY <1>2, <1>5, <2>1, <2>3, AtRecoveryPoint DEF Custody, RecoveryPoints
  <1> QED BY <1>1, <1>3, <1>4, <1>5 DEF RecoverPrior, MoveTreeExact

LEMMA RecoverUpdateCustody == ASSUME TypeOK, ControlInv, Custody, RecoverUpdate PROVE Custody'
  <1>1. journal.op = "update" /\ pc = "recover" /\ UNCHANGED disk
    BY DEF RecoverUpdate
  <1>2. Sound' /\ DiskInv'
    BY <1>1, RecoverUpdateSound, SameDiskInv DEF Custody
  <1>3. CASE Stop
    BY <1>2, <1>3, StopCustody
  <1>4. CASE ~Stop
    <2>1. RecoveryBranch # "refuse" /\ Goto(RecoveryBranch)
      BY <1>4 DEF RecoverUpdate
    <2>2. CASE Committed
      <3>1. pc' = "r_receipt" /\ ~forced'
        BY <2>1, <2>2 DEF RecoveryBranch, ControlInv
      <3> QED BY <1>2, <3>1, AtForwardPoint DEF Custody, ForwardInv, ForwardPoints, CommitLabels
    <2>3. CASE ~Committed
      <3>1. pc' \in RecoveryPoints
        BY <2>1, <2>3 DEF RecoveryBranch, RecoveryPoints, FirstLabels, BackLabels, CleanLabels
      <3>2. RecoverInv'
        BY <1>1, <2>1, <2>3
          DEF RecoveryBranch, PreferPriorActive, TypeOK, Custody, Sound, EmptySlots, DiskInv,
              RecoverInv, CleanLabels, disk
      <3> QED BY <1>2, <3>1, <3>2, AtRecoveryPoint DEF Custody
    <2> QED BY <2>2, <2>3
  <1> QED BY <1>3, <1>4

LEMMA RecoverReceiptCustody == ASSUME TypeOK, ControlInv, Custody, RecoverReceipt PROVE Custody'
  <1>1. journal.op = "update" /\ Committed /\ HadActive /\ ~forced
    BY CommitFacts DEF RecoverReceipt, CommitLabels
  <1>2. Sound'
    BY RecoverReceiptSound
  <1>3. CASE Refuse
    BY <1>3, RefuseCustody
  <1>4. CASE ~Refuse
    <2>1. receipt' = SlotReceipt /\ prepared' \in {prepared, NoReceipt} /\ UNCHANGED <<tree, data, journal>>
      BY <1>1, <1>4
        DEF RecoverReceipt, CompleteSlotReceipt, ControlInv, Custody, DiskInv, NoReceipt, disk
    <2>2. Goto("r_retired")
      BY <1>4 DEF RecoverReceipt, CompleteSlotReceipt
    <2>3. DiskInv'
      BY <1>1, <1>4, <2>1
        DEF RecoverReceipt, CompleteSlotReceipt, ControlInv, NoReceipt, Custody, DiskInv, disk
    <2>4. ForwardInv'
      BY <2>1, <2>2 DEF ForwardInv
    <2>5. RecoverInv' /\ RollbackInv' /\ ReverseInv'
      BY <1>1, <2>2, AtForwardPoint DEF ForwardPoints, CommitLabels
    <2> QED BY <1>2, <2>3, <2>4, <2>5 DEF Custody
  <1> QED BY <1>3, <1>4

LEMMA RecoverRetiredCustody == ASSUME TypeOK, ControlInv, Custody, RecoverRetired PROVE Custody'
  <1>1. journal.op = "update" /\ Committed /\ HadActive /\ ~forced
    BY CommitFacts DEF RecoverRetired, CommitLabels
  <1>2. Sound'
    BY RecoverRetiredSound
  <1>3. CASE Refuse
    BY <1>3, RefuseCustody
  <1>4. CASE UNCHANGED disk /\ Goto("r_finish") /\ pc = "r_retired"
    <2>1. DiskInv'
      BY <1>4, SameDiskInv DEF Custody
    <2>2. RestDisk' /\ (journal.sealed # NoData => data["target"] = journal.sealed)'
      BY <1>1, <1>4
        DEF ControlInv, TypeOK, Custody, DiskInv, ForwardInv, RestDisk, Releases, disk
    <2>3. RecoverInv'
      BY <1>1, <1>4, <2>2 DEF RecoverInv, CleanLabels
    <2>4. ForwardInv' /\ RollbackInv' /\ ReverseInv'
      BY <1>4, AtRecoveryPoint DEF RecoveryPoints
    <2> QED BY <1>2, <2>1, <2>3, <2>4 DEF Custody
  <1>5. CASE Shred("retired") /\ SameFiles /\ Goto("r_retired") /\ pc = "r_retired"
    <2>1. DiskInv'
      BY <1>1, <1>5 DEF TypeOK, Custody, DiskInv, Shred
    <2>2. ForwardInv'
      BY <1>5 DEF Custody, ForwardInv
    <2>3. RecoverInv' /\ RollbackInv' /\ ReverseInv'
      BY <1>1, <1>5, AtForwardPoint DEF ForwardPoints, CommitLabels
    <2> QED BY <1>2, <2>1, <2>2, <2>3 DEF Custody
  <1> QED BY <1>3, <1>4, <1>5 DEF RecoverRetired

LEMMA AbandonFirstCustody == ASSUME TypeOK, ControlInv, Custody, AbandonFirst PROVE Custody'
  <1>1. journal.op = "update" /\ ~HadActive
    BY FirstFacts DEF AbandonFirst, FirstLabels
  <1>2. RestDisk
    BY <1>1 DEF AbandonFirst, TypeOK, Custody, DiskInv, RecoverInv, RestDisk, Releases
  <1> QED BY <1>2, AbandonFirstSound, RemoveJournalInv, StopCustody DEF AbandonFirst

LEMMA RecoverFinishCustody == ASSUME TypeOK, ControlInv, Custody, RecoverFinish PROVE Custody'
  <1>1. RestDisk /\ RemoveJournal /\ (Stop \/ (~forced /\ Goto("main")))
    BY DEF RecoverFinish, AfterRecovery, TypeOK, Custody, RecoverInv
  <1>2. Sound' /\ DiskInv'
    BY <1>1, RecoverFinishSound, RemoveJournalInv
  <1> QED BY <1>1, <1>2, StopCustody, AtNoPoint DEF Custody

HIDE DEF Slots, Places, HasData, IsClient, SameFiles, SameSlots, SameBounds, Goto, CanMove,
     MoveTree, CanMoveData, MoveData, PutData, Pending, HadActive, Committed, Binds,
     ClientIn, NotRetired, Retired, Deactivated, PriorTaken, PriorLost, Unswitched,
     Replaceable, SwitchTrees, SwitchData, SwitchDisk, FirstDisk, SlotReceipt,
     CommittedDisk, UpdateDisk, StagingLabels, DetachedLabels, ActivatedLabels,
     AttachedLabels

(* The labels of a rollback, of its recovery and of its reversal.           *)
RollbackPoints ==
    {"rb_detach", "rollback_data_moved", "rb_select", "rollback_database_restored", "rb_deactivate",
     "rollback_active_moved", "rb_activate", "rollback_activated", "rb_verify", "rollback_reversing",
     "rb_attach", "rollback_data_attached", "rb_finish", "q_completed", "q_aborted", "q_select",
     "q_swap", "q_database", "q_seal", "q_probe", "q_attach", "q_finish", "v_start", "v_target",
     "v_data", "v_quarantine", "v_detach", "v_previous", "v_attach", "v_original", "v_finish",
     "rollback_reversing_candidate_data_quarantined", "rollback_reversing_data_moved",
     "rollback_reversing_target_moved", "rollback_reversed"}

LEMMA RollbackPointFacts ==
  ASSUME ControlInv, pc \in RollbackPoints PROVE journal.op = "rollback" /\ ~Committed /\
         ~forced
  <1>1. pc \in RollbackLabels
    BY DEF RollbackPoints, RollbackLabels, Labels, FreeLabels, UpdateLabels, ForwardLabels,
       StagingLabels, DetachedLabels, ActivatedLabels, AttachedLabels, CommitLabels,
       FirstLabels, BackLabels, CleanLabels
  <1> QED BY <1>1, RollbackFacts

LEMMA ToRollbackPoint ==
  ASSUME pc' \in RollbackPoints \cup FreeLabels \cup {"idle"}, ~forced' PROVE ForwardInv' /\
         RecoverInv'
  BY DEF ForwardInv, RecoverInv, RollbackPoints, FreeLabels, StagingLabels, DetachedLabels,
     ActivatedLabels, AttachedLabels, CleanLabels

(* What holds before a step of a rollback, and what it has to bring about.  *)
AtRollback ==
    /\ journal.op = "rollback" /\ journal \in Journal /\ ~forced
    /\ tree \in [Slots -> Trees] /\ data \in [Places -> Data] /\ EmptySlots
    /\ RollbackDisk /\ RollbackInv /\ ReverseInv

LEMMA RollbackHolds ==
  ASSUME TypeOK, ControlInv, Custody, pc \in RollbackPoints PROVE AtRollback
  BY RollbackPointFacts DEF AtRollback, TypeOK, Custody, Sound, DiskInv

LEMMA RollbackRecovers ==
  ASSUME TypeOK, ControlInv, Custody, pc = "recover", journal.op = "rollback" PROVE AtRollback
  BY DEF ControlInv, AtRollback, TypeOK, Custody, Sound, DiskInv

LEMMA RollbackGoesOn ==
  ASSUME Sound', journal'.op = "rollback", ~forced', RollbackDisk', RollbackInv', ReverseInv',
         pc' \in RollbackPoints
  PROVE  Custody'
  BY ToRollbackPoint DEF Custody, DiskInv, Pending

(* ... and before one of the steps that come before its journal.            *)
BeforeRollback ==
    /\ journal = NoJournal /\ ~forced
    /\ tree \in [Slots -> Trees] /\ data \in [Places -> Data] /\ EmptySlots /\ KnownData
    /\ RestDisk /\ RollbackInv

LEMMA BeforeRollbackHolds ==
  ASSUME TypeOK, ControlInv, Custody, pc \in FreeLabels PROVE BeforeRollback
  BY FreeFacts DEF BeforeRollback, TypeOK, Custody, Sound, DiskInv

LEMMA BeforeRollbackGoesOn ==
  ASSUME Sound', journal' = NoJournal, ~forced', RestDisk', RollbackInv',
         pc' \in FreeLabels \cup {"idle"}
  PROVE  Custody'
  <1>1. ReverseInv'
    BY DEF ReverseInv, FreeLabels
  <1> QED BY <1>1, ToRollbackPoint DEF Custody, DiskInv, Pending, NoJournal

(* A step that keeps the trees, the journal and the kinds of the            *)
(* directories.                                                             *)
SameKinds ==
    /\ UNCHANGED <<tree, journal, prepared, receipt>>
    /\ \A p \in Places : data'[p].kind = data[p].kind

LEMMA EnsureSelectedSame ==
  ASSUME TypeOK, NEW p \in Places, NEW l, EnsureSelected(p, l) PROVE Refuse \/ (SameKinds /\
         Goto(l))
  <1>1. CASE UNCHANGED disk /\ Goto(l)
    BY <1>1 DEF SameKinds, disk
  <1>2. CASE PutData(p, [data[p] EXCEPT !.db = journal.sel, !.pick = 0]) /\ SameFiles /\ Goto(l)
    <2>1. data \in [Places -> Data] /\ data[p] \in Data
      BY DEF TypeOK
    <2>2. [data[p] EXCEPT !.db = journal.sel, !.pick = 0].kind = data[p].kind
      BY <2>1 DEF Data
    <2> QED BY <1>2, <2>1, <2>2 DEF SameKinds, PutData, SameFiles
  <1> QED BY <1>1, <1>2 DEF EnsureSelected

LEMMA RestoreOriginalSame ==
  ASSUME TypeOK, NEW p \in Places, NEW l, RestoreOriginal(p, l) PROVE Refuse \/ (SameKinds /\
         Goto(l))
  BY DEF RestoreOriginal, OriginalData, SameKinds, TypeOK, Data, PutData, SameFiles, disk

LEMMA SameKindsDisk ==
  ASSUME RollbackDisk, SameKinds PROVE RollbackDisk'
  BY DEF SameKinds, Reversing, RollbackDisk, Before, Between, After, VerificationData, Binds,
     ClientIn, IsClient, HasData, Places, Slots

LEMMA SameKindsDiskInv ==
  ASSUME DiskInv, SameKinds, journal.op = "rollback" PROVE DiskInv'
  BY DEF DiskInv, SameKinds, Pending, Reversing, RollbackDisk, Before, Between, After,
     VerificationData, Binds, ClientIn, IsClient, HasData, Places, Slots

(* The operator, Atlas and the surroundings; then the rollback steps.       *)
USE DEF Slots, Places, HasData, IsClient, SameFiles, SameSlots, SameBounds, Goto, CanMove,
    MoveTree, CanMoveData, MoveData, PutData, Pending, HadActive, Committed, Binds, ClientIn,
    NotRetired, Retired, Deactivated, PriorTaken, PriorLost, Unswitched, Replaceable,
    SwitchTrees, SwitchData, SwitchDisk, FirstDisk, SlotReceipt, CommittedDisk, UpdateDisk,
    RollbackDisk, Before, Between, After, Switched, VerificationData, Reversing, BoundBackup

LEMMA InvokeUpdateCustody == ASSUME TypeOK, ControlInv, Custody, InvokeUpdate PROVE Custody'
  <1>1. ~forced /\ UNCHANGED <<disk, forced>> /\ pc' \in {"main", "recover"}
    BY DEF InvokeUpdate, Invoke, ControlInv, disk, FirstLabels, BackLabels, CleanLabels
  <1>2. Sound' /\ DiskInv'
    BY <1>1, InvokeUpdateSound, SameDiskInv DEF Custody
  <1> QED BY <1>1, <1>2, AtNoPoint DEF Custody

LEMMA InvokeRollbackCustody == ASSUME TypeOK, ControlInv, Custody, InvokeRollback PROVE Custody'
  <1>1. ~forced /\ UNCHANGED <<disk, forced>> /\ pc' \in {"main", "recover"}
    BY DEF InvokeRollback, Invoke, ControlInv, disk, FirstLabels, BackLabels, CleanLabels
  <1>2. Sound' /\ DiskInv'
    BY <1>1, InvokeRollbackSound, SameDiskInv DEF Custody
  <1> QED BY <1>1, <1>2, AtNoPoint DEF Custody

LEMMA InvokeRecoveryCustody == ASSUME TypeOK, ControlInv, Custody, InvokeRecovery PROVE Custody'
  <1>1. ~forced /\ UNCHANGED <<disk, forced>> /\ pc' \in {"main", "recover"}
    BY DEF InvokeRecovery, Invoke, ControlInv, disk, FirstLabels, BackLabels, CleanLabels
  <1>2. Sound' /\ DiskInv'
    BY <1>1, InvokeRecoverySound, SameDiskInv DEF Custody
  <1> QED BY <1>1, <1>2, AtNoPoint DEF Custody

LEMMA CrashCustody == ASSUME TypeOK, ControlInv, Custody, Crash PROVE Custody'
  <1>1. Sound' /\ DiskInv'
    BY CrashSound, SameDiskInv DEF Crash, Custody, disk
  <1> QED BY <1>1, AtNoPoint DEF Custody, Crash

LEMMA UseAtlasCustody == ASSUME TypeOK, ControlInv, Custody, UseAtlas PROVE Custody'
  <1>1. Sound'
    BY UseAtlasSound
  <1>2. ~forced
    BY DEF UseAtlas, ControlInv, FirstLabels, BackLabels, CleanLabels
  <1>3. ClientIn({"target"})'
    BY DEF UseAtlas, TypeOK, Custody, DiskInv, RestDisk
  <1>4. RestDisk'
    BY <1>3 DEF UseAtlas, TypeOK, Custody, DiskInv, RestDisk
  <1>5. DiskInv'
    BY <1>4 DEF UseAtlas, ControlInv, DiskInv, NoJournal
  <1> QED BY <1>1, <1>2, <1>5, AtNoPoint DEF UseAtlas, Custody

LEMMA DisturbCustody == ASSUME TypeOK, ControlInv, Custody, Disturb PROVE Custody'
  <1>1. Sound'
    BY DisturbSound
  <1>2. /\ \A p \in Places : (HasData(p)' <=> HasData(p)) /\ (IsClient(data'[p]) <=> IsClient(data[p]))
        /\ \A p \in Places : p # "handoff" => data'[p] = data[p]
        /\ HasData("handoff")
    BY DEF Disturb, TypeOK, Data
  <1>3. Pending
    BY <1>2 DEF Custody, DiskInv, RestDisk
  <1>4. UNCHANGED <<tree, journal, prepared, receipt, pc, forced>>
    BY DEF Disturb
  <1>5. DiskInv'
    BY <1>2, <1>3, <1>4 DEF Custody, DiskInv
  <1>6. ForwardInv'
    BY <1>2, <1>4 DEF Custody, ForwardInv
  <1>7. RecoverInv'
    BY <1>2, <1>4 DEF Custody, RecoverInv, RestDisk
  <1>8. RollbackInv'
    BY <1>2, <1>4 DEF Custody, RollbackInv, RestDisk
  <1>9. ReverseInv'
    BY <1>2, <1>4 DEF Custody, ReverseInv
  <1> QED BY <1>1, <1>5, <1>6, <1>7, <1>8, <1>9 DEF Custody
HIDE DEF Slots, Places, HasData, IsClient, SameFiles, SameSlots, SameBounds, Goto, CanMove,
   MoveTree,
 CanMoveData, MoveData, PutData, Pending, HadActive, Committed, Binds, ClientIn, NotRetired, Retired,
 Deactivated, PriorTaken, PriorLost, Unswitched, Replaceable, SwitchTrees, SwitchData, SwitchDisk, FirstDisk,
 SlotReceipt, CommittedDisk, UpdateDisk,
 RollbackDisk, Before, Between, After, Switched, VerificationData, Reversing, BoundBackup

USE DEF Slots, Places, HasData, IsClient, SameFiles, SameSlots, SameBounds, Goto, CanMove,
    MoveTree, CanMoveData, MoveData, PutData, Binds, ClientIn, RollbackDisk, Before, Between,
    After, Switched, VerificationData, Reversing

LEMMA BeginRollbackCustody == ASSUME TypeOK, ControlInv, Custody, BeginRollback PROVE Custody'
  <1>1. BeforeRollback
    BY BeforeRollbackHolds DEF BeginRollback, FreeLabels
  <1>2. Sound'
    BY BeginRollbackSound
  <1>3. CASE Refuse
    BY <1>3, RefuseCustody
  <1>4. CASE ~Refuse
    <2>1. journal' = NoJournal /\ ~forced' /\ pc' \in FreeLabels \cup {"idle"}
      BY <1>1, <1>4
        DEF BeforeRollback, FreeLabels, BeginRollback, Unowned, WriteState, Journal, disk
    <2>2. RestDisk'
      BY <1>1, <1>4, PlainKinds
        DEF BeforeRollback, EmptySlots, RollbackInv, RestDisk, BeginRollback, Unowned,
            WriteState, Journal, disk
    <2>3. RollbackInv'
      BY <1>1, <1>4, PlainKinds
        DEF BeforeRollback, EmptySlots, RollbackInv, RestDisk, BeginRollback, Unowned,
            WriteState, Journal, disk
    <2> QED BY <1>2, <2>1, <2>2, <2>3, BeforeRollbackGoesOn
  <1> QED BY <1>3, <1>4

LEMMA RollbackProbePassesCustody ==
  ASSUME TypeOK, ControlInv, Custody, RollbackProbePasses PROVE Custody'
  <1>1. BeforeRollback
    BY BeforeRollbackHolds DEF RollbackProbePasses, FreeLabels
  <1>2. Sound'
    BY RollbackProbePassesSound
  <1>3. CASE Refuse
    BY <1>3, RefuseCustody
  <1>4. CASE ~Refuse
    <2>1. journal' = NoJournal /\ ~forced' /\ pc' \in FreeLabels \cup {"idle"}
      BY <1>1, <1>4
        DEF BeforeRollback, FreeLabels, RollbackProbePasses, Stop, WriteState, Journal, disk
    <2>2. RestDisk'
      BY <1>1, <1>4, PlainKinds
        DEF BeforeRollback, EmptySlots, RollbackInv, RestDisk, RollbackProbePasses, Stop,
            WriteState, Journal, disk
    <2>3. RollbackInv'
      BY <1>1, <1>4, PlainKinds
        DEF BeforeRollback, EmptySlots, RollbackInv, RestDisk, RollbackProbePasses, Stop,
            WriteState, Journal, disk, KnownData, NoData, Empty, Foreign, Plain
    <2> QED BY <1>2, <2>1, <2>2, <2>3, BeforeRollbackGoesOn
  <1> QED BY <1>3, <1>4

LEMMA RollbackProbeFailsCustody ==
  ASSUME TypeOK, ControlInv, Custody, RollbackProbeFails PROVE Custody'
  <1>1. BeforeRollback
    BY BeforeRollbackHolds DEF RollbackProbeFails, FreeLabels
  <1>2. Sound'
    BY RollbackProbeFailsSound
  <1>3. CASE Refuse
    BY <1>3, RefuseCustody
  <1>4. CASE ~Refuse
    <2>1. journal' = NoJournal /\ ~forced' /\ pc' \in FreeLabels \cup {"idle"}
      BY <1>1, <1>4
        DEF BeforeRollback, FreeLabels, RollbackProbeFails, Stop, Fails, CreatesData,
            WriteState, Journal, disk
    <2>2. RestDisk'
      BY <1>1, <1>4, PlainKinds
        DEF BeforeRollback, EmptySlots, RollbackInv, RestDisk, RollbackProbeFails, Stop, Fails,
            CreatesData, WriteState, Journal, disk
    <2>3. RollbackInv'
      BY <1>1, <1>4, PlainKinds
        DEF BeforeRollback, EmptySlots, RollbackInv, RestDisk, RollbackProbeFails, Stop, Fails,
            CreatesData, WriteState, Journal, disk
    <2> QED BY <1>2, <2>1, <2>2, <2>3, BeforeRollbackGoesOn
  <1> QED BY <1>3, <1>4

LEMMA MoveProbeDataCustody == ASSUME TypeOK, ControlInv, Custody, MoveProbeData PROVE Custody'
  <1>1. BeforeRollback
    BY BeforeRollbackHolds DEF MoveProbeData, FreeLabels
  <1>2. Sound'
    BY MoveProbeDataSound
  <1>3. CASE Refuse
    BY <1>3, RefuseCustody
  <1>4. CASE ~Refuse
    <2>1. journal' = NoJournal /\ ~forced' /\ pc' \in FreeLabels \cup {"idle"}
      BY <1>1, <1>4
        DEF BeforeRollback, FreeLabels, MoveProbeData, Stop, WriteState, Journal, disk
    <2>2. RestDisk'
      BY <1>1, <1>4, PlainKinds
        DEF BeforeRollback, EmptySlots, RollbackInv, RestDisk, MoveProbeData, Stop, WriteState,
            Journal, disk
    <2>3. RollbackInv'
      BY <1>1, <1>4, PlainKinds
        DEF BeforeRollback, EmptySlots, RollbackInv, RestDisk, MoveProbeData, Stop, WriteState,
            Journal, disk
    <2> QED BY <1>2, <2>1, <2>2, <2>3, BeforeRollbackGoesOn
  <1> QED BY <1>3, <1>4

LEMMA PreserveDatabaseCustody ==
  ASSUME TypeOK, ControlInv, Custody, PreserveDatabase PROVE Custody'
  <1>1. BeforeRollback
    BY BeforeRollbackHolds DEF PreserveDatabase, FreeLabels
  <1>2. Sound'
    BY PreserveDatabaseSound
  <1>3. CASE Refuse
    BY <1>3, RefuseCustody
  <1>4. CASE ~Refuse
    <2>1. journal' = NoJournal /\ ~forced' /\ pc' \in FreeLabels \cup {"idle"}
      BY <1>1, <1>4 DEF BeforeRollback, FreeLabels, PreserveDatabase, WriteState, Journal, disk
    <2>2. RestDisk'
      BY <1>1, <1>4, PlainKinds
        DEF BeforeRollback, EmptySlots, RollbackInv, RestDisk, PreserveDatabase, WriteState,
            Journal, disk
    <2>3. RollbackInv'
      BY <1>1, <1>4, PlainKinds
        DEF BeforeRollback, EmptySlots, RollbackInv, RestDisk, PreserveDatabase, WriteState,
            Journal, disk
    <2> QED BY <1>2, <2>1, <2>2, <2>3, BeforeRollbackGoesOn
  <1> QED BY <1>3, <1>4

LEMMA PickDatabaseCustody == ASSUME TypeOK, ControlInv, Custody, PickDatabase PROVE Custody'
  <1>1. BeforeRollback
    BY BeforeRollbackHolds DEF PickDatabase, FreeLabels
  <1>2. Sound'
    BY PickDatabaseSound
  <1>3. CASE Refuse
    BY <1>3, RefuseCustody
  <1>4. CASE ~Refuse
    <2>1. journal' = NoJournal /\ ~forced' /\ pc' \in FreeLabels \cup {"idle"}
      BY <1>1, <1>4 DEF BeforeRollback, FreeLabels, PickDatabase, WriteState, Journal, disk
    <2>2. RestDisk'
      BY <1>1, <1>4, PlainKinds
        DEF BeforeRollback, EmptySlots, RollbackInv, RestDisk, PickDatabase, WriteState,
            Journal, disk
    <2>3. RollbackInv'
      BY <1>1, <1>4, PlainKinds
        DEF BeforeRollback, EmptySlots, RollbackInv, RestDisk, PickDatabase, WriteState,
            Journal, disk
    <2> QED BY <1>2, <2>1, <2>2, <2>3, BeforeRollbackGoesOn
  <1> QED BY <1>3, <1>4

LEMMA WriteRollbackPreparedCustody ==
  ASSUME TypeOK, ControlInv, Custody, WriteRollbackPrepared PROVE Custody'
  <1>1. BeforeRollback
    BY BeforeRollbackHolds DEF WriteRollbackPrepared, FreeLabels
  <1>2. UNCHANGED <<tree, data, receipt>> /\ pc' = "rb_detach" /\ ~forced'
    BY <1>1 DEF WriteRollbackPrepared, BeforeRollback
  <1>3. /\ journal'.op = "rollback" /\ ~Reversing' /\ journal'.sealed = NoData
        /\ journal'.active = tree["target"] /\ journal'.cand = tree["previous"]
    BY DEF WriteRollbackPrepared, NoJournal
  <1>4. RollbackDisk' /\ Before' /\ ~HasData("handoff")'
    BY <1>1, <1>2, <1>3
      DEF WriteRollbackPrepared, BeforeRollback, EmptySlots, RollbackInv, RestDisk, Releases
  <1>5. RollbackInv' /\ ReverseInv'
    BY <1>2, <1>3, <1>4 DEF RollbackInv, ReverseInv
  <1> QED BY <1>2, <1>3, <1>4, <1>5, WriteRollbackPreparedSound, RollbackGoesOn
            DEF RollbackPoints

LEMMA DetachRollbackDataCustody ==
  ASSUME TypeOK, ControlInv, Custody, DetachRollbackData PROVE Custody'
  <1>1. AtRollback
    BY RollbackHolds DEF DetachRollbackData, RollbackPoints
  <1>2. Sound'
    BY DetachRollbackDataSound
  <1>3. CASE Refuse
    BY <1>3, RefuseCustody
  <1>4. CASE ~Refuse
    <2>1. journal'.op = "rollback" /\ ~forced' /\ pc' \in RollbackPoints
      BY <1>1, <1>4
        DEF AtRollback, RollbackPoints, DetachRollbackData, MoveDataExact, WriteState, Journal,
            disk
    <2>2. RollbackDisk'
      BY <1>1, <1>4, PlainKinds
        DEF AtRollback, EmptySlots, RollbackInv, ReverseInv, DetachRollbackData, MoveDataExact,
            WriteState, Journal, disk
    <2>3. RollbackInv' /\ ReverseInv'
      BY <1>1, <1>4, PlainKinds
        DEF AtRollback, EmptySlots, RollbackInv, ReverseInv, DetachRollbackData, MoveDataExact,
            WriteState, Journal, disk
    <2> QED BY <1>2, <2>1, <2>2, <2>3, RollbackGoesOn
  <1> QED BY <1>3, <1>4

LEMMA AttachRollbackDataCustody ==
  ASSUME TypeOK, ControlInv, Custody, AttachRollbackData PROVE Custody'
  <1>1. AtRollback
    BY RollbackHolds DEF AttachRollbackData, RollbackPoints
  <1>2. Sound'
    BY AttachRollbackDataSound
  <1>3. CASE Refuse
    BY <1>3, RefuseCustody
  <1>4. CASE ~Refuse
    <2>1. journal'.op = "rollback" /\ ~forced' /\ pc' \in RollbackPoints
      BY <1>1, <1>4
        DEF AtRollback, RollbackPoints, AttachRollbackData, MoveDataExact, WriteState, Journal,
            disk
    <2>2. RollbackDisk'
      BY <1>1, <1>4, PlainKinds
        DEF AtRollback, EmptySlots, RollbackInv, ReverseInv, AttachRollbackData, MoveDataExact,
            WriteState, Journal, disk
    <2>3. RollbackInv' /\ ReverseInv'
      BY <1>1, <1>4, PlainKinds
        DEF AtRollback, EmptySlots, RollbackInv, ReverseInv, AttachRollbackData, MoveDataExact,
            WriteState, Journal, disk
    <2> QED BY <1>2, <2>1, <2>2, <2>3, RollbackGoesOn
  <1> QED BY <1>3, <1>4

LEMMA DeactivateNewerCustody ==
  ASSUME TypeOK, ControlInv, Custody, DeactivateNewer PROVE Custody'
  <1>1. AtRollback
    BY RollbackHolds DEF DeactivateNewer, RollbackPoints
  <1>2. Sound'
    BY DeactivateNewerSound
  <1>3. CASE Refuse
    BY <1>3, RefuseCustody
  <1>4. CASE ~Refuse
    <2>1. journal'.op = "rollback" /\ ~forced' /\ pc' \in RollbackPoints
      BY <1>1, <1>4
        DEF AtRollback, RollbackPoints, DeactivateNewer, MoveTreeExact, WriteState, Journal,
            disk
    <2>2. RollbackDisk'
      BY <1>1, <1>4, PlainKinds
        DEF AtRollback, EmptySlots, RollbackInv, ReverseInv, DeactivateNewer, MoveTreeExact,
            WriteState, Journal, disk
    <2>3. RollbackInv' /\ ReverseInv'
      BY <1>1, <1>4, PlainKinds
        DEF AtRollback, EmptySlots, RollbackInv, ReverseInv, DeactivateNewer, MoveTreeExact,
            WriteState, Journal, disk
    <2> QED BY <1>2, <2>1, <2>2, <2>3, RollbackGoesOn
  <1> QED BY <1>3, <1>4

LEMMA ActivatePreviousCustody ==
  ASSUME TypeOK, ControlInv, Custody, ActivatePrevious PROVE Custody'
  <1>1. AtRollback
    BY RollbackHolds DEF ActivatePrevious, RollbackPoints
  <1>2. Sound'
    BY ActivatePreviousSound
  <1>3. CASE Refuse
    BY <1>3, RefuseCustody
  <1>4. CASE ~Refuse
    <2>1. journal'.op = "rollback" /\ ~forced' /\ pc' \in RollbackPoints
      BY <1>1, <1>4
        DEF AtRollback, RollbackPoints, ActivatePrevious, MoveTreeExact, WriteState, Journal,
            disk
    <2>2. RollbackDisk'
      BY <1>1, <1>4, PlainKinds
        DEF AtRollback, EmptySlots, RollbackInv, ReverseInv, ActivatePrevious, MoveTreeExact,
            WriteState, Journal, disk
    <2>3. RollbackInv' /\ ReverseInv'
      BY <1>1, <1>4, PlainKinds
        DEF AtRollback, EmptySlots, RollbackInv, ReverseInv, ActivatePrevious, MoveTreeExact,
            WriteState, Journal, disk
    <2> QED BY <1>2, <2>1, <2>2, <2>3, RollbackGoesOn
  <1> QED BY <1>3, <1>4

LEMMA RecoverRollbackSwapCustody ==
  ASSUME TypeOK, ControlInv, Custody, RecoverRollbackSwap PROVE Custody'
  <1>1. AtRollback
    BY RollbackHolds DEF RecoverRollbackSwap, RollbackPoints
  <1>2. Sound'
    BY RecoverRollbackSwapSound
  <1>3. CASE Refuse
    BY <1>3, RefuseCustody
  <1>4. CASE ~Refuse
    <2>1. journal'.op = "rollback" /\ ~forced' /\ pc' \in RollbackPoints
      BY <1>1, <1>4
        DEF AtRollback, RollbackPoints, RecoverRollbackSwap, MoveTreeExact, WriteState, Journal,
            disk
    <2>2. RollbackDisk'
      BY <1>1, <1>4, PlainKinds
        DEF AtRollback, EmptySlots, RollbackInv, ReverseInv, RecoverRollbackSwap, MoveTreeExact,
            WriteState, Journal, disk
    <2>3. RollbackInv' /\ ReverseInv'
      BY <1>1, <1>4, PlainKinds
        DEF AtRollback, EmptySlots, RollbackInv, ReverseInv, RecoverRollbackSwap, MoveTreeExact,
            WriteState, Journal, disk
    <2> QED BY <1>2, <2>1, <2>2, <2>3, RollbackGoesOn
  <1> QED BY <1>3, <1>4

LEMMA WriteRollbackDataMovedCustody ==
  ASSUME TypeOK, ControlInv, Custody, WriteRollbackDataMoved PROVE Custody'
  <1>1. AtRollback
    BY RollbackHolds DEF WriteRollbackDataMoved, RollbackPoints
  <1>2. Sound'
    BY WriteRollbackDataMovedSound
  <1>3. CASE Refuse
    BY <1>3, RefuseCustody
  <1>4. CASE ~Refuse
    <2>1. journal'.op = "rollback" /\ ~forced' /\ pc' \in RollbackPoints
      BY <1>1, <1>4
        DEF AtRollback, RollbackPoints, WriteRollbackDataMoved, WriteState, Journal, disk
    <2>2. RollbackDisk'
      BY <1>1, <1>4, PlainKinds
        DEF AtRollback, EmptySlots, RollbackInv, ReverseInv, WriteRollbackDataMoved, WriteState,
            Journal, disk
    <2>3. RollbackInv' /\ ReverseInv'
      BY <1>1, <1>4, PlainKinds
        DEF AtRollback, EmptySlots, RollbackInv, ReverseInv, WriteRollbackDataMoved, WriteState,
            Journal, disk, Releases, RestDisk
    <2> QED BY <1>2, <2>1, <2>2, <2>3, RollbackGoesOn
  <1> QED BY <1>3, <1>4

LEMMA WriteRollbackActiveMovedCustody ==
  ASSUME TypeOK, ControlInv, Custody, WriteRollbackActiveMoved PROVE Custody'
  <1>1. AtRollback
    BY RollbackHolds DEF WriteRollbackActiveMoved, RollbackPoints
  <1>2. Sound'
    BY WriteRollbackActiveMovedSound
  <1>3. CASE Refuse
    BY <1>3, RefuseCustody
  <1>4. CASE ~Refuse
    <2>1. journal'.op = "rollback" /\ ~forced' /\ pc' \in RollbackPoints
      BY <1>1, <1>4
        DEF AtRollback, RollbackPoints, WriteRollbackActiveMoved, WriteState, Journal, disk
    <2>2. RollbackDisk'
      BY <1>1, <1>4, PlainKinds
        DEF AtRollback, EmptySlots, RollbackInv, ReverseInv, WriteRollbackActiveMoved,
            WriteState, Journal, disk
    <2>3. RollbackInv' /\ ReverseInv'
      BY <1>1, <1>4, PlainKinds
        DEF AtRollback, EmptySlots, RollbackInv, ReverseInv, WriteRollbackActiveMoved,
            WriteState, Journal, disk, Releases, RestDisk
    <2> QED BY <1>2, <2>1, <2>2, <2>3, RollbackGoesOn
  <1> QED BY <1>3, <1>4

LEMMA WriteRollbackActivatedCustody ==
  ASSUME TypeOK, ControlInv, Custody, WriteRollbackActivated PROVE Custody'
  <1>1. AtRollback
    BY RollbackHolds DEF WriteRollbackActivated, RollbackPoints
  <1>2. Sound'
    BY WriteRollbackActivatedSound
  <1>3. CASE Refuse
    BY <1>3, RefuseCustody
  <1>4. CASE ~Refuse
    <2>1. journal'.op = "rollback" /\ ~forced' /\ pc' \in RollbackPoints
      BY <1>1, <1>4
        DEF AtRollback, RollbackPoints, WriteRollbackActivated, WriteState, Journal, disk
    <2>2. RollbackDisk'
      BY <1>1, <1>4, PlainKinds
        DEF AtRollback, EmptySlots, RollbackInv, ReverseInv, WriteRollbackActivated, WriteState,
            Journal, disk
    <2>3. RollbackInv' /\ ReverseInv'
      BY <1>1, <1>4, PlainKinds
        DEF AtRollback, EmptySlots, RollbackInv, ReverseInv, WriteRollbackActivated, WriteState,
            Journal, disk, Releases, RestDisk
    <2> QED BY <1>2, <2>1, <2>2, <2>3, RollbackGoesOn
  <1> QED BY <1>3, <1>4

LEMMA WriteReversingCustody == ASSUME TypeOK, ControlInv, Custody, WriteReversing PROVE Custody'
  <1>1. AtRollback
    BY RollbackHolds DEF WriteReversing, RollbackPoints
  <1>2. Sound'
    BY WriteReversingSound
  <1>3. CASE Refuse
    BY <1>3, RefuseCustody
  <1>4. CASE ~Refuse
    <2>1. journal'.op = "rollback" /\ ~forced' /\ pc' \in RollbackPoints
      BY <1>1, <1>4 DEF AtRollback, RollbackPoints, WriteReversing, WriteState, Journal, disk
    <2>2. RollbackDisk'
      BY <1>1, <1>4, PlainKinds
        DEF AtRollback, EmptySlots, RollbackInv, ReverseInv, WriteReversing, WriteState,
            Journal, disk
    <2>3. RollbackInv' /\ ReverseInv'
      BY <1>1, <1>4, PlainKinds
        DEF AtRollback, EmptySlots, RollbackInv, ReverseInv, WriteReversing, WriteState,
            Journal, disk, Releases, RestDisk
    <2> QED BY <1>2, <2>1, <2>2, <2>3, RollbackGoesOn
  <1> QED BY <1>3, <1>4

LEMMA WriteRollbackDataAttachedCustody ==
  ASSUME TypeOK, ControlInv, Custody, WriteRollbackDataAttached PROVE Custody'
  <1>1. AtRollback
    BY RollbackHolds DEF WriteRollbackDataAttached, RollbackPoints
  <1>2. Sound'
    BY WriteRollbackDataAttachedSound
  <1>3. CASE Refuse
    BY <1>3, RefuseCustody
  <1>4. CASE ~Refuse
    <2>1. journal'.op = "rollback" /\ ~forced' /\ pc' \in RollbackPoints
      BY <1>1, <1>4
        DEF AtRollback, RollbackPoints, WriteRollbackDataAttached, WriteState, Journal, disk
    <2>2. RollbackDisk'
      BY <1>1, <1>4, PlainKinds
        DEF AtRollback, EmptySlots, RollbackInv, ReverseInv, WriteRollbackDataAttached,
            WriteState, Journal, disk
    <2>3. RollbackInv' /\ ReverseInv'
      BY <1>1, <1>4, PlainKinds
        DEF AtRollback, EmptySlots, RollbackInv, ReverseInv, WriteRollbackDataAttached,
            WriteState, Journal, disk, Releases, RestDisk
    <2> QED BY <1>2, <2>1, <2>2, <2>3, RollbackGoesOn
  <1> QED BY <1>3, <1>4

LEMMA SelectDatabaseCustody == ASSUME TypeOK, ControlInv, Custody, SelectDatabase PROVE Custody'
  <1>1. AtRollback
    BY RollbackHolds DEF SelectDatabase, RollbackPoints
  <1>2. Sound'
    BY SelectDatabaseSound
  <1>3. CASE Refuse
    BY <1>3, RefuseCustody
  <1>4. CASE ~Refuse
    <2>1. SameKinds /\ pc' \in RollbackPoints /\ ~forced'
      BY <1>1, <1>4, EnsureSelectedSame
        DEF AtRollback, RollbackPoints, SelectDatabase, EnsureSelected
    <2>2. RollbackDisk' /\ journal'.op = "rollback"
      BY <1>1, <2>1, SameKindsDisk DEF AtRollback, SameKinds
    <2>3. RollbackInv' /\ ReverseInv'
      BY <1>1, <1>4, <2>1
        DEF AtRollback, RollbackInv, ReverseInv, RestDisk, Releases, SameKinds, SelectDatabase,
            EnsureSelected
    <2> QED BY <1>2, <2>1, <2>2, <2>3, RollbackGoesOn
  <1> QED BY <1>3, <1>4

LEMMA RecoverSelectCustody == ASSUME TypeOK, ControlInv, Custody, RecoverSelect PROVE Custody'
  <1>1. AtRollback
    BY RollbackHolds DEF RecoverSelect, RollbackPoints
  <1>2. Sound'
    BY RecoverSelectSound
  <1>3. CASE Refuse
    BY <1>3, RefuseCustody
  <1>4. CASE ~Refuse
    <2>1. SameKinds /\ pc' \in RollbackPoints /\ ~forced'
      BY <1>1, <1>4, EnsureSelectedSame
        DEF AtRollback, RollbackPoints, RecoverSelect, EnsureSelected
    <2>2. RollbackDisk' /\ journal'.op = "rollback"
      BY <1>1, <2>1, SameKindsDisk DEF AtRollback, SameKinds
    <2>3. RollbackInv' /\ ReverseInv'
      BY <1>1, <1>4, <2>1
        DEF AtRollback, RollbackInv, ReverseInv, RestDisk, Releases, SameKinds, RecoverSelect,
            EnsureSelected
    <2> QED BY <1>2, <2>1, <2>2, <2>3, RollbackGoesOn
  <1> QED BY <1>3, <1>4

LEMMA RecoverDatabaseCustody ==
  ASSUME TypeOK, ControlInv, Custody, RecoverDatabase PROVE Custody'
  <1>1. AtRollback
    BY RollbackHolds DEF RecoverDatabase, RollbackPoints
  <1>2. Sound'
    BY RecoverDatabaseSound
  <1>3. CASE Refuse
    BY <1>3, RefuseCustody
  <1>4. CASE ~Refuse
    <2>1. SameKinds /\ pc' \in RollbackPoints /\ ~forced'
      BY <1>1, <1>4, EnsureSelectedSame
        DEF AtRollback, RollbackPoints, RecoverDatabase, EnsureSelected
    <2>2. RollbackDisk' /\ journal'.op = "rollback"
      BY <1>1, <2>1, SameKindsDisk DEF AtRollback, SameKinds
    <2>3. RollbackInv' /\ ReverseInv'
      BY <1>1, <1>4, <2>1
        DEF AtRollback, RollbackInv, ReverseInv, RestDisk, Releases, SameKinds, RecoverDatabase,
            EnsureSelected
    <2> QED BY <1>2, <2>1, <2>2, <2>3, RollbackGoesOn
  <1> QED BY <1>3, <1>4

LEMMA WriteDatabaseRestoredCustody ==
  ASSUME TypeOK, ControlInv, Custody, WriteDatabaseRestored PROVE Custody'
  <1>1. AtRollback
    BY RollbackHolds DEF WriteDatabaseRestored, RollbackPoints
  <1>2. Sound'
    BY WriteDatabaseRestoredSound
  <1>3. CASE Refuse
    BY <1>3, RefuseCustody
  <1>4. CASE ~Refuse
    <2>1. journal'.op = "rollback" /\ ~forced' /\ pc' \in RollbackPoints
      BY <1>1, <1>4
        DEF AtRollback, RollbackPoints, WriteDatabaseRestored, SealSelected, WriteState,
            Journal, disk
    <2>2. RollbackDisk'
      BY <1>1, <1>4, PlainKinds
        DEF AtRollback, EmptySlots, RollbackInv, ReverseInv, WriteDatabaseRestored,
            SealSelected, WriteState, Journal, disk
    <2>3. RollbackInv' /\ ReverseInv'
      BY <1>1, <1>4, PlainKinds
        DEF AtRollback, EmptySlots, RollbackInv, ReverseInv, WriteDatabaseRestored,
            SealSelected, WriteState, Journal, disk
    <2> QED BY <1>2, <2>1, <2>2, <2>3, RollbackGoesOn
  <1> QED BY <1>3, <1>4

LEMMA RecoverSealCustody == ASSUME TypeOK, ControlInv, Custody, RecoverSeal PROVE Custody'
  <1>1. AtRollback /\ Switched /\ HasData("handoff") /\ ~Reversing
    BY RollbackHolds DEF RecoverSeal, RollbackPoints, AtRollback, RollbackInv
  <1>2. /\ UNCHANGED <<tree, data, receipt>> /\ ~Reversing' /\ pc' = "q_probe" /\ ~forced'
        /\ journal'.op = "rollback" /\ UNCHANGED <<journal.active, journal.cand>>
    BY <1>1 DEF AtRollback, RecoverSeal, SealSelected, disk, Journal
  <1>3. RollbackDisk' /\ RollbackInv' /\ ReverseInv'
    BY <1>1, <1>2 DEF AtRollback, RollbackInv, ReverseInv
  <1> QED BY <1>2, <1>3, RecoverSealSound, RollbackGoesOn DEF RollbackPoints

LEMMA RollbackVerifyPassesCustody ==
  ASSUME TypeOK, ControlInv, Custody, RollbackVerifyPasses PROVE Custody'
  <1>1. AtRollback
    BY RollbackHolds DEF RollbackVerifyPasses, RollbackPoints
  <1>2. Sound'
    BY RollbackVerifyPassesSound
  <1>3. CASE Refuse
    BY <1>3, RefuseCustody
  <1>4. CASE ~Refuse
    <2>1. journal'.op = "rollback" /\ ~forced' /\ pc' \in RollbackPoints
      BY <1>1, <1>4
        DEF AtRollback, RollbackPoints, RollbackVerifyPasses, WriteState, Journal, disk
    <2>2. RollbackDisk'
      BY <1>1, <1>4, PlainKinds
        DEF AtRollback, EmptySlots, RollbackInv, ReverseInv, RollbackVerifyPasses, WriteState,
            Journal, disk
    <2>3. RollbackInv' /\ ReverseInv'
      BY <1>1, <1>4, PlainKinds
        DEF AtRollback, EmptySlots, RollbackInv, ReverseInv, RollbackVerifyPasses, WriteState,
            Journal, disk
    <2> QED BY <1>2, <2>1, <2>2, <2>3, RollbackGoesOn
  <1> QED BY <1>3, <1>4

LEMMA RollbackVerifyFailsCustody ==
  ASSUME TypeOK, ControlInv, Custody, RollbackVerifyFails PROVE Custody'
  <1>1. AtRollback /\ Switched /\ HasData("handoff")
    BY RollbackHolds DEF RollbackVerifyFails, RollbackPoints, AtRollback, RollbackInv
  <1>2. UNCHANGED <<journal, receipt>> /\ pc' = "rollback_reversing" /\ ~forced'
    BY <1>1 DEF AtRollback, RollbackVerifyFails
  <1>3. \A p \in Places \ {"target"} : data'[p] = data[p]
    BY <1>1 DEF AtRollback, RollbackVerifyFails, Fails, CreatesData, Mutates
  <1>4. ~IsClient(data'["target"])
    <2>1. data \in [Places -> Data] /\ ~IsClient(data["target"])
      BY <1>1 DEF AtRollback
    <2> QED BY <2>1, PlainKinds DEF RollbackVerifyFails, Fails, CreatesData, Mutates
  <1>5. \A s \in Slots \ {"target"} : tree'[s] = tree[s]
    BY <1>1 DEF AtRollback, RollbackVerifyFails, Fails, CreatesData, Mutates
  <1>6. tree'["target"] \in {journal.cand, Torn}
    BY <1>1 DEF AtRollback, RollbackVerifyFails, Fails, CreatesData, Mutates
  <1>7. RollbackDisk' /\ After'
    BY <1>1, <1>2, <1>3, <1>4, <1>5, <1>6 DEF AtRollback
  <1>8. RollbackInv' /\ ReverseInv'
    BY <1>2, <1>7 DEF RollbackInv, ReverseInv
  <1> QED BY <1>1, <1>2, <1>7, <1>8, RollbackVerifyFailsSound, RollbackGoesOn
            DEF AtRollback, RollbackPoints

LEMMA RecoverAttachCustody == ASSUME TypeOK, ControlInv, Custody, RecoverAttach PROVE Custody'
  <1>1. AtRollback
    BY RollbackHolds DEF RecoverAttach, RollbackPoints
  <1>2. Sound'
    BY RecoverAttachSound
  <1>3. CASE Refuse
    BY <1>3, RefuseCustody
  <1>4. CASE ~Refuse
    <2>1. journal'.op = "rollback" /\ ~forced' /\ pc' \in RollbackPoints
      BY <1>1, <1>4
        DEF AtRollback, RollbackPoints, RecoverAttach, MoveDataExact, WriteState, Journal, disk
    <2>2. RollbackDisk'
      BY <1>1, <1>4, PlainKinds
        DEF AtRollback, EmptySlots, RollbackInv, ReverseInv, RecoverAttach, MoveDataExact,
            WriteState, Journal, disk
    <2>3. RollbackInv' /\ ReverseInv'
      BY <1>1, <1>4, PlainKinds
        DEF AtRollback, EmptySlots, RollbackInv, ReverseInv, RecoverAttach, MoveDataExact,
            WriteState, Journal, disk, Releases, RestDisk
    <2> QED BY <1>2, <2>1, <2>2, <2>3, RollbackGoesOn
  <1> QED BY <1>3, <1>4

LEMMA FinishRollbackCustody == ASSUME TypeOK, ControlInv, Custody, FinishRollback PROVE Custody'
  <1>1. RestDisk
    BY DEF FinishRollback, Custody, RollbackInv
  <1> QED BY <1>1, FinishRollbackSound, RemoveJournalInv, StopCustody DEF FinishRollback

LEMMA FinishReversalCustody == ASSUME TypeOK, ControlInv, Custody, FinishReversal PROVE Custody'
  <1>1. RestDisk
    BY DEF FinishReversal, Custody, RollbackInv
  <1> QED BY <1>1, FinishReversalSound, RemoveJournalInv, StopCustody DEF FinishReversal

LEMMA RecoverCompletedCustody ==
  ASSUME TypeOK, ControlInv, Custody, RecoverCompleted PROVE Custody'
  <1>1. CASE Refuse
    BY <1>1, RefuseCustody
  <1>2. CASE RemoveJournal /\ (Stop \/ (Goto("main") /\ ~forced))
    <2>1. RestDisk
      BY DEF RecoverCompleted, Custody, RollbackInv
    <2>2. Sound' /\ DiskInv'
      BY <1>2, <2>1, RecoverCompletedSound, RemoveJournalInv
    <2> QED BY <1>2, <2>2, StopCustody, AtNoPoint DEF Custody
  <1> QED BY <1>1, <1>2, RollbackPointFacts DEF RecoverCompleted, AfterRecovery, RollbackPoints

LEMMA FinishRecoveredRollbackCustody ==
  ASSUME TypeOK, ControlInv, Custody, FinishRecoveredRollback PROVE Custody'
  <1>1. CASE Refuse
    BY <1>1, RefuseCustody
  <1>2. CASE RemoveJournal /\ (Stop \/ (Goto("main") /\ ~forced))
    <2>1. RestDisk
      BY DEF FinishRecoveredRollback, Custody, RollbackInv
    <2>2. Sound' /\ DiskInv'
      BY <1>2, <2>1, FinishRecoveredRollbackSound, RemoveJournalInv
    <2> QED BY <1>2, <2>2, StopCustody, AtNoPoint DEF Custody
  <1> QED BY <1>1, <1>2, RollbackPointFacts
            DEF FinishRecoveredRollback, AfterRecovery, RollbackPoints

LEMMA RecoverAbortedCustody == ASSUME TypeOK, ControlInv, Custody, RecoverAborted PROVE Custody'
  <1>1. journal.op = "rollback" /\ ~Committed /\ ~forced
    BY RollbackPointFacts DEF RecoverAborted, RollbackPoints
  <1>2. RestDisk
    BY DEF RecoverAborted, Custody, RollbackInv
  <1>3. CASE RemoveJournal /\ (Stop \/ (Goto("main") /\ ~forced))
    BY <1>2, <1>3, RecoverAbortedSound, RemoveJournalInv, StopCustody, AtNoPoint DEF Custody
  <1>4. CASE PutData("target", [data["target"] EXCEPT !.pick = 0]) /\ SameFiles /\ Goto("q_aborted")
    <2>1. SameKinds
      BY <1>4 DEF SameKinds, TypeOK, Data
    <2>2. DiskInv'
      BY <1>1, <2>1, SameKindsDiskInv DEF Custody
    <2>3. RollbackInv' /\ ReverseInv'
      BY <1>2, <1>4, <2>1 DEF RollbackInv, ReverseInv, RestDisk, SameKinds
    <2>4. ForwardInv' /\ RecoverInv'
      BY <1>1, <1>4, ToRollbackPoint DEF RollbackPoints
    <2> QED BY <2>2, <2>3, <2>4, RecoverAbortedSound DEF Custody
  <1> QED BY <1>1, <1>3, <1>4 DEF RecoverAborted, AfterRecovery

LEMMA RecoverRollbackCustody ==
  ASSUME TypeOK, ControlInv, Custody, RecoverRollback PROVE Custody'
  <1>1. AtRollback /\ UNCHANGED disk
    BY RollbackRecovers DEF RecoverRollback, RollbackPoints
  <1>2. RollbackDisk' /\ UNCHANGED <<tree, data, journal, receipt>>
    BY <1>1 DEF AtRollback, disk
  <1>3. CASE Stop
    BY <1>1, <1>3, RecoverRollbackSound, SameDiskInv, StopCustody DEF Custody
  <1>4. CASE ~Stop
    <2>1. pc' \in RollbackPoints /\ ~forced'
      BY <1>1, <1>4
        DEF AtRollback, RecoverRollback, RollbackBranch, RollbackCompleted,
            RollbackNotActivated, RollbackPoints
    <2>2. RollbackInv' /\ ReverseInv'
      BY <1>1, <1>2, <1>4
        DEF AtRollback, EmptySlots, RollbackInv, ReverseInv, RestDisk, Releases, RollbackBranch,
            RollbackCompleted, RollbackNotActivated, RecoverRollback
    <2> QED BY <1>1, <1>2, <2>1, <2>2, RecoverRollbackSound, RollbackGoesOn DEF AtRollback
  <1> QED BY <1>3, <1>4

LEMMA ReverseDataCustody == ASSUME TypeOK, ControlInv, Custody, ReverseData PROVE Custody'
  <1>1. AtRollback
    BY RollbackHolds DEF ReverseData, RollbackPoints
  <1>2. Sound'
    BY ReverseDataSound
  <1>3. CASE Refuse
    BY <1>3, RefuseCustody
  <1>4. CASE ~Refuse
    <2>1. SameKinds /\ pc' \in RollbackPoints /\ ~forced'
      BY <1>1, <1>4, RestoreOriginalSame
        DEF AtRollback, RollbackPoints, ReverseData, RestoreOriginal
    <2>2. RollbackDisk' /\ journal'.op = "rollback"
      BY <1>1, <2>1, SameKindsDisk DEF AtRollback, SameKinds
    <2>3. RollbackInv' /\ ReverseInv'
      BY <1>1, <1>4, <2>1
        DEF AtRollback, RollbackInv, ReverseInv, RestDisk, Releases, SameKinds, ReverseData,
            RestoreOriginal
    <2> QED BY <1>2, <2>1, <2>2, <2>3, RollbackGoesOn
  <1> QED BY <1>3, <1>4

LEMMA ReverseOriginalCustody ==
  ASSUME TypeOK, ControlInv, Custody, ReverseOriginal PROVE Custody'
  <1>1. AtRollback
    BY RollbackHolds DEF ReverseOriginal, RollbackPoints
  <1>2. Sound'
    BY ReverseOriginalSound
  <1>3. CASE Refuse
    BY <1>3, RefuseCustody
  <1>4. CASE ~Refuse
    <2>1. SameKinds /\ pc' \in RollbackPoints /\ ~forced'
      BY <1>1, <1>4, RestoreOriginalSame
        DEF AtRollback, RollbackPoints, ReverseOriginal, RestoreOriginal
    <2>2. RollbackDisk' /\ journal'.op = "rollback"
      BY <1>1, <2>1, SameKindsDisk DEF AtRollback, SameKinds
    <2>3. RollbackInv' /\ ReverseInv'
      BY <1>1, <1>4, <2>1
        DEF AtRollback, RollbackInv, ReverseInv, RestDisk, Releases, SameKinds, ReverseOriginal,
            RestoreOriginal
    <2> QED BY <1>2, <2>1, <2>2, <2>3, RollbackGoesOn
  <1> QED BY <1>3, <1>4

LEMMA ReverseStartCustody == ASSUME TypeOK, ControlInv, Custody, ReverseStart PROVE Custody'
  <1>1. AtRollback /\ UNCHANGED disk
    BY RollbackHolds DEF ReverseStart, RollbackPoints
  <1>2. RollbackDisk' /\ UNCHANGED <<tree, data, journal, receipt>>
    BY <1>1 DEF AtRollback, disk
  <1>3. CASE Stop
    BY <1>1, <1>3, ReverseStartSound, SameDiskInv, StopCustody DEF Custody
  <1>4. CASE ~Stop
    <2>1. pc' \in RollbackPoints /\ ~forced'
      BY <1>1, <1>4 DEF AtRollback, ReverseStart, RollbackPoints
    <2>2. RollbackInv' /\ ReverseInv'
      BY <1>1, <1>2, <1>4 DEF AtRollback, EmptySlots, RollbackInv, ReverseInv, ReverseStart
    <2> QED BY <1>1, <1>2, <2>1, <2>2, ReverseStartSound, RollbackGoesOn DEF AtRollback
  <1> QED BY <1>3, <1>4

LEMMA DetachCandidateDataCustody ==
  ASSUME TypeOK, ControlInv, Custody, DetachCandidateData PROVE Custody'
  <1>1. AtRollback
    BY RollbackHolds DEF DetachCandidateData, RollbackPoints
  <1>2. Sound'
    BY DetachCandidateDataSound
  <1>3. CASE Refuse
    BY <1>3, RefuseCustody
  <1>4. CASE ~Refuse
    <2>1. journal'.op = "rollback" /\ ~forced' /\ pc' \in RollbackPoints
      BY <1>1, <1>4
        DEF AtRollback, RollbackPoints, DetachCandidateData, MoveDataExact, WriteState, Journal,
            disk
    <2>2. RollbackDisk'
      BY <1>1, <1>4, PlainKinds
        DEF AtRollback, EmptySlots, RollbackInv, ReverseInv, DetachCandidateData, MoveDataExact,
            WriteState, Journal, disk
    <2>3. RollbackInv' /\ ReverseInv'
      BY <1>1, <1>4, PlainKinds
        DEF AtRollback, EmptySlots, RollbackInv, ReverseInv, DetachCandidateData, MoveDataExact,
            WriteState, Journal, disk
    <2> QED BY <1>2, <2>1, <2>2, <2>3, RollbackGoesOn
  <1> QED BY <1>3, <1>4

LEMMA ReverseTargetCustody == ASSUME TypeOK, ControlInv, Custody, ReverseTarget PROVE Custody'
  <1>1. AtRollback
    BY RollbackHolds DEF ReverseTarget, RollbackPoints
  <1>2. Sound'
    BY ReverseTargetSound
  <1>3. CASE Refuse
    BY <1>3, RefuseCustody
  <1>4. CASE ~Refuse
    <2>1. journal'.op = "rollback" /\ ~forced' /\ pc' \in RollbackPoints
      BY <1>1, <1>4
        DEF AtRollback, RollbackPoints, ReverseTarget, MoveTreeExact, WriteState, Journal, disk
    <2>2. RollbackDisk'
      BY <1>1, <1>4, PlainKinds
        DEF AtRollback, EmptySlots, RollbackInv, ReverseInv, ReverseTarget, MoveTreeExact,
            WriteState, Journal, disk
    <2>3. RollbackInv' /\ ReverseInv'
      BY <1>1, <1>4, PlainKinds
        DEF AtRollback, EmptySlots, RollbackInv, ReverseInv, ReverseTarget, MoveTreeExact,
            WriteState, Journal, disk
    <2> QED BY <1>2, <2>1, <2>2, <2>3, RollbackGoesOn
  <1> QED BY <1>3, <1>4

LEMMA ReactivateNewerCustody ==
  ASSUME TypeOK, ControlInv, Custody, ReactivateNewer PROVE Custody'
  <1>1. AtRollback
    BY RollbackHolds DEF ReactivateNewer, RollbackPoints
  <1>2. Sound'
    BY ReactivateNewerSound
  <1>3. CASE Refuse
    BY <1>3, RefuseCustody
  <1>4. CASE ~Refuse
    <2>1. journal'.op = "rollback" /\ ~forced' /\ pc' \in RollbackPoints
      BY <1>1, <1>4
        DEF AtRollback, RollbackPoints, ReactivateNewer, MoveTreeExact, WriteState, Journal,
            disk
    <2>2. RollbackDisk'
      BY <1>1, <1>4, PlainKinds
        DEF AtRollback, EmptySlots, RollbackInv, ReverseInv, ReactivateNewer, MoveTreeExact,
            WriteState, Journal, disk
    <2>3. RollbackInv' /\ ReverseInv'
      BY <1>1, <1>4, PlainKinds
        DEF AtRollback, EmptySlots, RollbackInv, ReverseInv, ReactivateNewer, MoveTreeExact,
            WriteState, Journal, disk
    <2> QED BY <1>2, <2>1, <2>2, <2>3, RollbackGoesOn
  <1> QED BY <1>3, <1>4

LEMMA ReverseAttachCustody == ASSUME TypeOK, ControlInv, Custody, ReverseAttach PROVE Custody'
  <1>1. AtRollback
    BY RollbackHolds DEF ReverseAttach, RollbackPoints
  <1>2. Sound'
    BY ReverseAttachSound
  <1>3. CASE Refuse
    BY <1>3, RefuseCustody
  <1>4. CASE ~Refuse
    <2>1. journal'.op = "rollback" /\ ~forced' /\ pc' \in RollbackPoints
      BY <1>1, <1>4
        DEF AtRollback, RollbackPoints, ReverseAttach, MoveDataExact, WriteState, Journal, disk
    <2>2. RollbackDisk'
      BY <1>1, <1>4, PlainKinds
        DEF AtRollback, EmptySlots, RollbackInv, ReverseInv, ReverseAttach, MoveDataExact,
            WriteState, Journal, disk
    <2>3. RollbackInv' /\ ReverseInv'
      BY <1>1, <1>4, PlainKinds
        DEF AtRollback, EmptySlots, RollbackInv, ReverseInv, ReverseAttach, MoveDataExact,
            WriteState, Journal, disk, Releases, RestDisk
    <2> QED BY <1>2, <2>1, <2>2, <2>3, RollbackGoesOn
  <1> QED BY <1>3, <1>4

LEMMA WriteReversalCustody == ASSUME TypeOK, ControlInv, Custody, WriteReversal PROVE Custody'
  <1>0. pc \in {"rollback_reversing_candidate_data_quarantined", "rollback_reversing_data_moved",
               "rollback_reversing_target_moved", "rollback_reversed"}
    BY DEF WriteReversal, AfterReversalWrite
  <1>1. AtRollback
    BY <1>0, RollbackHolds DEF RollbackPoints
  <1>2. Sound'
    BY WriteReversalSound
  <1>3. CASE Refuse
    BY <1>3, RefuseCustody
  <1>4. CASE ~Refuse
    <2>1. journal'.op = "rollback" /\ ~forced' /\ pc' \in RollbackPoints
      BY <1>0, <1>1, <1>4
        DEF AtRollback, RollbackPoints, WriteReversal, AfterReversalWrite, WriteState, Journal,
            disk
    <2>2. RollbackDisk'
      BY <1>0, <1>1, <1>4, PlainKinds
        DEF AtRollback, EmptySlots, RollbackInv, ReverseInv, WriteReversal, AfterReversalWrite,
            WriteState, Journal, disk
    <2>3. RollbackInv' /\ ReverseInv'
      BY <1>0, <1>1, <1>4, PlainKinds
        DEF AtRollback, EmptySlots, RollbackInv, ReverseInv, WriteReversal, AfterReversalWrite,
            WriteState, Journal, disk
    <2> QED BY <1>2, <2>1, <2>2, <2>3, RollbackGoesOn
  <1> QED BY <1>3, <1>4

HIDE DEF Slots, Places, HasData, IsClient, SameFiles, SameSlots, SameBounds, Goto, CanMove,
     MoveTree, CanMoveData, MoveData, PutData, Pending, HadActive, Committed, Binds,
     ClientIn, NotRetired, Retired, Deactivated, PriorTaken, PriorLost, Unswitched,
     Replaceable, SwitchTrees, SwitchData, SwitchDisk, FirstDisk, SlotReceipt,
     CommittedDisk, UpdateDisk, RollbackDisk, Before, Between, After, Switched,
     VerificationData, Reversing, BoundBackup

-----------------------------------------------------------------------------
(* Every step keeps the custody of the data.                                *)
LEMMA UpdateStepCustody == ASSUME TypeOK, ControlInv, Custody, UpdateStep PROVE Custody'
  BY RemoveRetiredCustody, BeginUpdateCustody, StageCopyCustody, StageDoneCustody,
     WriteStagedCustody, EnsureActiveDataCustody, ProbePassesCustody, ProbeFailsCustody,
     ProbeCreatesDataCustody, BackupDatabaseCustody, WritePreparedCustody,
     RetirePreviousCustody, WritePreviousRetiredCustody, SealDataCustody, DetachDataCustody,
     WriteDataMovedCustody, DeactivateOldCustody, WriteActiveMovedCustody,
     ActivateCandidateCustody, WriteActivatedCustody, VerifyPassesCustody, VerifyFailsCustody,
     WriteAttachPendingCustody, AttachDataCustody, WriteDataAttachedCustody,
     PrepareSlotReceiptCustody, WriteSlotPreparedCustody, PublishReceiptCustody,
     WriteSlotReceiptedCustody, FinishUpdateCustody, DropRetiredCustody
    DEF UpdateStep

LEMMA RecoverUpdateStepCustody ==
  ASSUME TypeOK, ControlInv, Custody, RecoverUpdateStep PROVE Custody'
  BY RecoverUpdateCustody, RecoverReceiptCustody, RecoverRetiredCustody, RecoverFirstCustody,
     RecoverFirstDataCustody, QuarantineTargetCustody, AbandonFirstCustody,
     RecoverTargetDataCustody, RecoverPreviousDataCustody, RecoverSwapCustody,
     RecoverIncomingCustody, RecoverPriorCustody, RecoverFinishCustody
    DEF RecoverUpdateStep

LEMMA RollbackStepCustody == ASSUME TypeOK, ControlInv, Custody, RollbackStep PROVE Custody'
  BY BeginRollbackCustody, RollbackProbePassesCustody, RollbackProbeFailsCustody,
     MoveProbeDataCustody, PreserveDatabaseCustody, PickDatabaseCustody,
     WriteRollbackPreparedCustody, DetachRollbackDataCustody, WriteRollbackDataMovedCustody,
     SelectDatabaseCustody, WriteDatabaseRestoredCustody, DeactivateNewerCustody,
     WriteRollbackActiveMovedCustody, ActivatePreviousCustody, WriteRollbackActivatedCustody,
     RollbackVerifyPassesCustody, RollbackVerifyFailsCustody, WriteReversingCustody,
     AttachRollbackDataCustody, WriteRollbackDataAttachedCustody, FinishRollbackCustody
    DEF RollbackStep

LEMMA RecoverRollbackStepCustody ==
  ASSUME TypeOK, ControlInv, Custody, RecoverRollbackStep PROVE Custody'
  BY RecoverRollbackCustody, RecoverCompletedCustody, RecoverAbortedCustody,
     RecoverSelectCustody, RecoverRollbackSwapCustody, RecoverDatabaseCustody,
     RecoverSealCustody, RecoverAttachCustody, FinishRecoveredRollbackCustody
    DEF RecoverRollbackStep

LEMMA ReverseStepCustody == ASSUME TypeOK, ControlInv, Custody, ReverseStep PROVE Custody'
  BY ReverseStartCustody, DetachCandidateDataCustody, ReverseDataCustody, ReverseTargetCustody,
     ReactivateNewerCustody, WriteReversalCustody, ReverseAttachCustody, ReverseOriginalCustody,
     FinishReversalCustody
    DEF ReverseStep

LEMMA UpdateStepSound == ASSUME TypeOK, ControlInv, Custody, UpdateStep PROVE Survive
  BY RemoveRetiredSound, BeginUpdateSound, StageCopySound, StageDoneSound, WriteStagedSound,
     EnsureActiveDataSound, ProbePassesSound, ProbeFailsSound, ProbeCreatesDataSound,
     BackupDatabaseSound, WritePreparedSound, RetirePreviousSound, WritePreviousRetiredSound,
     SealDataSound, DetachDataSound, WriteDataMovedSound, DeactivateOldSound,
     WriteActiveMovedSound, ActivateCandidateSound, WriteActivatedSound, VerifyPassesSound,
     VerifyFailsSound, WriteAttachPendingSound, AttachDataSound, WriteDataAttachedSound,
     PrepareSlotReceiptSound, WriteSlotPreparedSound, PublishReceiptSound,
     WriteSlotReceiptedSound, FinishUpdateSound, DropRetiredSound
    DEF UpdateStep

LEMMA RecoverUpdateStepSound ==
  ASSUME TypeOK, ControlInv, Custody, RecoverUpdateStep PROVE Survive
  BY RecoverUpdateSound, RecoverReceiptSound, RecoverRetiredSound, RecoverFirstSound,
     RecoverFirstDataSound, QuarantineTargetSound, AbandonFirstSound, RecoverTargetDataSound,
     RecoverPreviousDataSound, RecoverSwapSound, RecoverIncomingSound, RecoverPriorSound,
     RecoverFinishSound
    DEF RecoverUpdateStep

LEMMA RollbackStepSound == ASSUME TypeOK, ControlInv, Custody, RollbackStep PROVE Survive
  BY BeginRollbackSound, RollbackProbePassesSound, RollbackProbeFailsSound, MoveProbeDataSound,
     PreserveDatabaseSound, PickDatabaseSound, WriteRollbackPreparedSound,
     DetachRollbackDataSound, WriteRollbackDataMovedSound, SelectDatabaseSound,
     WriteDatabaseRestoredSound, DeactivateNewerSound, WriteRollbackActiveMovedSound,
     ActivatePreviousSound, WriteRollbackActivatedSound, RollbackVerifyPassesSound,
     RollbackVerifyFailsSound, WriteReversingSound, AttachRollbackDataSound,
     WriteRollbackDataAttachedSound, FinishRollbackSound
    DEF RollbackStep

LEMMA RecoverRollbackStepSound ==
  ASSUME TypeOK, ControlInv, Custody, RecoverRollbackStep PROVE Survive
  BY RecoverRollbackSound, RecoverCompletedSound, RecoverAbortedSound, RecoverSelectSound,
     RecoverRollbackSwapSound, RecoverDatabaseSound, RecoverSealSound, RecoverAttachSound,
     FinishRecoveredRollbackSound
    DEF RecoverRollbackStep

LEMMA ReverseStepSound == ASSUME TypeOK, ControlInv, Custody, ReverseStep PROVE Survive
  BY ReverseStartSound, DetachCandidateDataSound, ReverseDataSound, ReverseTargetSound,
     ReactivateNewerSound, WriteReversalSound, ReverseAttachSound, ReverseOriginalSound,
     FinishReversalSound
    DEF ReverseStep

LEMMA InitCustody == Init => Custody
  <1> SUFFICES ASSUME Init PROVE Custody
    OBVIOUS
  <1>1. \A p \in Places : data[p] \in {NoData, Empty} /\ ~IsClient(data[p])
    BY PlainKinds DEF Init, IsClient
  <1>2. \A s \in Slots : s # "target" => tree[s] = NoApp
    BY DEF Init
  <1>3. \A s \in Slots : tree[s] = NoApp => ~HasData(s)
    BY PlainKinds DEF Init, HasData, Slots, Places
  <1>4. ~HasData("handoff")
    BY PlainKinds DEF Init, HasData, Places
  <1>5. Sound
    BY <1>1, <1>3 DEF Sound, EmptySlots, KnownData, ClientDataInOnePlace, Held
  <1>6. tree["target"] \in Releases
    BY DEF Init, Releases, Slots
  <1>7. RestDisk
    BY <1>1, <1>2, <1>4, <1>6 DEF RestDisk, ClientIn, Releases, Slots
  <1>8. DiskInv
    BY <1>7 DEF DiskInv, Init, Pending, NoJournal
  <1>9. ForwardInv /\ RecoverInv /\ RollbackInv /\ ReverseInv
    BY DEF Init, ForwardInv, RecoverInv, RollbackInv, ReverseInv, StagingLabels, DetachedLabels,
       ActivatedLabels, AttachedLabels, CleanLabels
  <1> QED BY <1>5, <1>8, <1>9 DEF Custody

LEMMA StutterCustody == ASSUME Custody, UNCHANGED vars PROVE Custody' /\ Survive
  <1>1. Sound' /\ Survive
    BY SameSlotsSound DEF Custody, vars, SameSlots
  <1>2. DiskInv'
    BY SameDiskInv DEF Custody, vars, disk
  <1>3. ForwardInv' /\ RecoverInv' /\ RollbackInv' /\ ReverseInv'
    BY DEF vars, Custody, ForwardInv, RecoverInv, RollbackInv, ReverseInv, RestDisk, HadActive,
       HasData, Before, Between, After, Switched, Reversing, ClientIn, Binds, NotRetired,
       Retired, Deactivated, PriorTaken, PriorLost, Unswitched, Replaceable, SlotReceipt,
       IsClient
  <1> QED BY <1>1, <1>2, <1>3 DEF Custody

LEMMA NextCustody == TypeOK /\ ControlInv /\ Custody /\ [Next]_vars => Custody' /\ Survive
  <1> SUFFICES ASSUME TypeOK, ControlInv, Custody, [Next]_vars PROVE Custody' /\ Survive
    OBVIOUS
  <1>1. CASE InvokeUpdate \/ InvokeRollback \/ InvokeRecovery \/ Crash \/ UseAtlas \/ Disturb
    <2>1. Custody'
      BY <1>1, InvokeUpdateCustody, InvokeRollbackCustody, InvokeRecoveryCustody, CrashCustody,
         UseAtlasCustody, DisturbCustody
    <2>2. Survive
      BY <1>1, InvokeUpdateSound, InvokeRollbackSound, InvokeRecoverySound, CrashSound,
         UseAtlasSound, DisturbSound
    <2> QED BY <2>1, <2>2
  <1>2. CASE Script
    <2>1. Custody'
      BY <1>2, UpdateStepCustody, RecoverUpdateStepCustody, RollbackStepCustody,
         RecoverRollbackStepCustody, ReverseStepCustody
        DEF Script
    <2>2. Survive
      BY <1>2, UpdateStepSound, RecoverUpdateStepSound, RollbackStepSound,
         RecoverRollbackStepSound, ReverseStepSound
        DEF Script
    <2> QED BY <2>1, <2>2
  <1>3. CASE UNCHANGED vars
    BY <1>3, StutterCustody
  <1> QED BY <1>1, <1>2, <1>3 DEF Next

(* Everything reachable: the types, the control and the custody of the      *)
(* data.                                                                    *)
AllInv == TypeOK /\ ControlInv /\ Custody

LEMMA AllInvAlways == Spec => []AllInv
  <1>1. Init => AllInv
    BY InitType, InitControl, InitCustody DEF AllInv
  <1>2. AllInv /\ [Next]_vars => AllInv'
    BY NextType, NextControl, NextCustody DEF AllInv
  <1> QED BY <1>1, <1>2, PTL DEF Spec

(* At no step of any operation, recovery or reversal, and after whatever    *)
(* interruptions, does a second directory with the client's data exist.     *)
THEOREM OneClientDirectory == Spec => []ClientDataInOnePlace
  <1>1. AllInv => ClientDataInOnePlace
    BY DEF AllInv, Custody, Sound
  <1> QED BY <1>1, AllInvAlways, PTL

(* No step removes, overwrites or abandons the only directory with the      *)
(* client's data, whatever the environment does.                            *)
THEOREM DataNeverLost == Spec => ClientDataNeverLost
  <1>1. AllInv /\ [Next]_vars => (Held # {} => Held' # {})
    BY NextCustody DEF AllInv, Survive, Held
  <1>2. AllInv /\ [Next]_vars => [Held # {} => Held' # {}]_vars
    BY <1>1
  <1> QED BY <1>2, AllInvAlways, PTL DEF Spec, ClientDataNeverLost

(* Stronger than DataNeverLost: with the directory survive the databases    *)
(* kept under its release-backups, and its database, unless Atlas writes it *)
(* or the step is one of the five that select or restore it.                *)
THEOREM BackupsNeverLost == Spec => [][Survive]_vars
  <1>1. AllInv /\ [Next]_vars => Survive
    BY NextCustody DEF AllInv
  <1>2. AllInv /\ [Next]_vars => [Survive]_vars
    BY <1>1
  <1> QED BY <1>2, AllInvAlways, PTL DEF Spec

(* Whenever the last journal is gone, the client's data is inside the       *)
(* active tree, that tree is whole, and nothing is left half switched.      *)
THEOREM RestAttached == Spec => []AtRestDataAttached
  <1>1. AllInv => AtRestDataAttached
    BY AppsAssumption
      DEF AllInv, Custody, DiskInv, RestDisk, AtRestDataAttached, AtRest, Held, ClientIn,
          Releases
  <1> QED BY <1>1, AllInvAlways, PTL

(* No candidate is executed with client data inside its directory, in an    *)
(* update, a rollback or the recovery of either.                            *)
THEOREM CandidatesKeptApart == Spec => []CandidateNeverBesideClientData
  <1> SUFFICES ASSUME AllInv PROVE CandidateNeverBesideClientData
    BY AllInvAlways, PTL
  <1>1. pc = "probe" => ~IsClient(data["incoming"])
    <2> SUFFICES ASSUME pc = "probe" PROVE ~IsClient(data["incoming"])
      OBVIOUS
    <2>1. journal.op = "update" /\ ~Committed
      BY ForwardFacts DEF AllInv, ForwardLabels, StagingLabels
    <2> QED BY <2>1
              DEF AllInv, Custody, DiskInv, UpdateDisk, FirstDisk, SwitchDisk, SwitchData,
                  ForwardInv, StagingLabels, ClientIn, Places, Slots
  <1>2. pc = "rb_probe" => ~IsClient(data["previous"])
    BY DEF AllInv, Custody, RollbackInv, HasData, IsClient
  <1>3. pc = "verify" => ~IsClient(data["target"])
    BY DEF AllInv, Custody, ForwardInv, ActivatedLabels, HasData, IsClient
  <1>4. pc \in {"rb_verify", "q_probe"} => ~IsClient(data["target"])
    <2> SUFFICES ASSUME pc \in {"rb_verify", "q_probe"} PROVE ~IsClient(data["target"])
      OBVIOUS
    <2>1. journal.op = "rollback" /\ HasData("handoff")
      BY RollbackPointFacts DEF AllInv, RollbackPoints, Custody, RollbackInv
    <2> QED BY <2>1
              DEF AllInv, Custody, DiskInv, RollbackDisk, VerificationData, ClientIn, Places,
                  Slots
  <1>5. pc = "r_first" => Held = {}
    BY FirstFacts
      DEF FirstLabels, AllInv, Custody, DiskInv, UpdateDisk, FirstDisk, ClientIn, Held
  <1> QED BY <1>1, <1>2, <1>3, <1>4, <1>5 DEF CandidateNeverBesideClientData

(* The only steps that end the journal of an update.                        *)
LEMMA RollbackStepLabels == RollbackStep => pc \in RollbackPoints \cup FreeLabels \/ journal.op = "rollback"
  BY DEF RollbackStep, RollbackPoints, FreeLabels, BeginRollback, RollbackProbePasses,
     RollbackProbeFails, MoveProbeData, PreserveDatabase, PickDatabase, WriteRollbackPrepared,
     DetachRollbackData, WriteRollbackDataMoved, SelectDatabase, WriteDatabaseRestored,
     DeactivateNewer, WriteRollbackActiveMoved, ActivatePrevious, WriteRollbackActivated,
     RollbackVerifyPasses, RollbackVerifyFails, WriteReversing, AttachRollbackData,
     WriteRollbackDataAttached, FinishRollback

LEMMA RecoverRollbackStepLabels == RecoverRollbackStep => pc \in RollbackPoints \cup FreeLabels \/ journal.op = "rollback"
  BY DEF RecoverRollbackStep, RollbackPoints, FreeLabels, RecoverRollback, RecoverCompleted,
     RecoverAborted, RecoverSelect, RecoverRollbackSwap, RecoverDatabase, RecoverSeal,
     RecoverAttach, FinishRecoveredRollback

LEMMA ReverseStepLabels == ReverseStep => pc \in RollbackPoints \cup FreeLabels \/ journal.op = "rollback"
  BY DEF ReverseStep, RollbackPoints, FreeLabels, AfterReversalWrite, ReverseStart,
     DetachCandidateData, ReverseData, ReverseTarget, ReactivateNewer, WriteReversal,
     ReverseAttach, ReverseOriginal, FinishReversal

LEMMA NotUpdate ==
  ASSUME ControlInv, RollbackStep \/ RecoverRollbackStep \/ ReverseStep
  PROVE  journal.op # "update"
  BY RollbackStepLabels, RecoverRollbackStepLabels, ReverseStepLabels, RollbackPointFacts,
     FreeFacts
    DEF Pending

LEMMA UpdateStepKeeps ==
  ASSUME TypeOK, UpdateStep, journal.op = "update", ~Pending'
  PROVE  FinishUpdate \/ RecoverFinish \/ AbandonFirst
  <1>1. CASE RetirePrevious \/ DetachData \/ DeactivateOld \/ ActivateCandidate \/ AttachData \/ PublishReceipt
    BY <1>1, RetirePreviousEnds, DetachDataEnds, DeactivateOldEnds, ActivateCandidateEnds,
       AttachDataEnds, PublishReceiptEnds
      DEF Ends, Pending
  <1>2. CASE RemoveRetired \/ BeginUpdate \/ StageCopy \/ StageDone
             \/ WriteStaged \/ EnsureActiveData \/ ProbePasses \/ ProbeFails
             \/ ProbeCreatesData \/ BackupDatabase \/ WritePrepared \/ WritePreviousRetired
             \/ WriteDataMoved \/ WriteActiveMoved \/ WriteActivated \/ VerifyPasses
             \/ VerifyFails \/ WriteAttachPending \/ WriteDataAttached \/ PrepareSlotReceipt
             \/ WriteSlotPrepared \/ WriteSlotReceipted \/ DropRetired
    BY <1>2
      DEF Pending, NoJournal, disk, SameFiles, WriteState, Journal, TypeOK, Refuse,
          ForceRecovery, Shred, RemoveRetired, BeginUpdate, StageCopy, StageDone, WriteStaged,
          EnsureActiveData, ProbePasses, ProbeFails, ProbeCreatesData, BackupDatabase,
          WritePrepared, WritePreviousRetired, WriteDataMoved, WriteActiveMoved, WriteActivated,
          VerifyPasses, VerifyFails, WriteAttachPending, WriteDataAttached, PrepareSlotReceipt,
          WriteSlotPrepared, WriteSlotReceipted, DropRetired
  <1>3. CASE SealData
    BY <1>3 DEF SealData, Pending, disk, TypeOK, Journal, Refuse
  <1> QED BY <1>1, <1>2, <1>3 DEF UpdateStep

LEMMA RecoverUpdateStepKeeps ==
  ASSUME TypeOK, RecoverUpdateStep, journal.op = "update", ~Pending'
  PROVE  FinishUpdate \/ RecoverFinish \/ AbandonFirst
  <1>1. CASE RecoverReceipt \/ QuarantineTarget \/ RecoverTargetData \/ RecoverPreviousData \/ RecoverSwap \/ RecoverIncoming \/ RecoverPrior
    BY <1>1, RecoverReceiptEnds, QuarantineTargetEnds, RecoverTargetDataEnds,
       RecoverPreviousDataEnds, RecoverSwapEnds, RecoverIncomingEnds, RecoverPriorEnds
      DEF Ends, Pending
  <1>2. CASE RecoverRetired \/ RecoverFirst \/ RecoverFirstData
    BY <1>2
      DEF Pending, NoJournal, disk, SameFiles, WriteState, Journal, TypeOK, Refuse,
          ForceRecovery, Shred, RecoverRetired, RecoverFirst, RecoverFirstData
  <1>3. CASE RecoverUpdate
    BY <1>3 DEF RecoverUpdate, Pending, disk
  <1> QED BY <1>1, <1>2, <1>3 DEF RecoverUpdateStep

LEMMA UpdateEnds ==
  ASSUME TypeOK, ControlInv, [Next]_vars, journal.op = "update", ~Pending'
  PROVE  FinishUpdate \/ RecoverFinish \/ AbandonFirst
  <1>1. CASE InvokeUpdate \/ InvokeRollback \/ InvokeRecovery \/ Crash \/ UseAtlas \/ Disturb \/ UNCHANGED vars
    BY <1>1
      DEF Pending, InvokeUpdate, InvokeRollback, InvokeRecovery, Invoke, Crash, UseAtlas,
          Disturb, vars
  <1> QED BY <1>1, NotUpdate, UpdateStepKeeps, RecoverUpdateStepKeeps DEF Next, Script

(* An update that ends its journal, forward or back, leaves in the active   *)
(* tree exactly the data it sealed before detaching it.                     *)
THEOREM SealedDataCommitted == Spec => UpdateCommitsSealedData
  <1> DEFINE Step == journal.op = "update" /\ ~Pending' /\ journal.sealed # NoData =>
                        data'["target"] = journal.sealed
  <1>1. AllInv /\ [Next]_vars => Step
    <2> SUFFICES ASSUME AllInv, [Next]_vars, journal.op = "update", ~Pending', journal.sealed # NoData
                 PROVE  data'["target"] = journal.sealed
      OBVIOUS
    <2>1. FinishUpdate \/ RecoverFinish \/ AbandonFirst
      BY UpdateEnds DEF AllInv
    <2>2. UNCHANGED data /\ (pc \in {"finish", "r_finish"} \/ ~HadActive)
      BY <2>1, FirstFacts
        DEF FinishUpdate, RecoverFinish, AbandonFirst, RemoveJournal, AllInv, FirstLabels
    <2>3. HadActive
      BY DEF AllInv, ControlInv
    <2> QED BY <2>2, <2>3 DEF AllInv, Custody, RecoverInv
  <1>2. AllInv /\ [Next]_vars => [Step]_vars
    BY <1>1
  <1> QED BY <1>2, AllInvAlways, PTL DEF Spec, UpdateCommitsSealedData

-----------------------------------------------------------------------------
(* The receipts.  A step either leaves them and the database the journal of *)
(* an update names alone, or is one of the five that write them.            *)
Keeps ==
    /\ UNCHANGED <<prepared, receipt>>
    /\ journal'.op = "update" =>
          \/ journal'.orig = 0
          \/ journal.op = "update" /\ UNCHANGED <<journal.run, journal.orig>>
    /\ pc' = "prepared" => pc = "prepared" /\ UNCHANGED <<journal, data["target"].db>>

LEMMA SurviveKept ==
  ASSUME Survive, NEW r, NEW b, KeptBackup(r, b) PROVE KeptBackup(r, b)'
  <1> SUFFICES ASSUME b # 0 PROVE \E q \in Places : IsClient(data'[q]) /\ <<r, b>> \in data'[q].kept
    BY DEF KeptBackup
  <1>1. PICK p \in Places : IsClient(data[p]) /\ <<r, b>> \in data[p].kept
    BY DEF KeptBackup
  <1>2. PICK q \in Places : IsClient(data'[q]) /\ data[p].kept \subseteq data'[q].kept
    BY <1>1 DEF Survive
  <1> QED BY <1>1, <1>2

LEMMA NoneKept == ASSUME NEW r PROVE KeptBackup(r, 0)
  BY DEF KeptBackup

LEMMA KeepsKept == ASSUME KeptInv, Survive, Keeps PROVE KeptInv'
  <1>1. KeptBackup(receipt.run, receipt.backup)' /\ KeptBackup(prepared.run, prepared.backup)'
    <2>1. KeptBackup(receipt.run, receipt.backup) /\ KeptBackup(prepared.run, prepared.backup)
      BY DEF KeptInv
    <2>2. receipt' = receipt /\ prepared' = prepared
      BY DEF Keeps
    <2> DEFINE rr == receipt.run  rb == receipt.backup  pr == prepared.run  pb == prepared.backup
    <2>3. KeptBackup(rr, rb)' /\ KeptBackup(pr, pb)'
      BY <2>1, <2>2, SurviveKept DEF KeptBackup, Survive
    <2> QED BY <2>3
  <1>2. journal'.op = "update" => KeptBackup(journal.run, journal.orig)'
    BY DEF Keeps, KeptInv, KeptBackup, Survive
  <1>3. (pc = "prepared" /\ HadActive)' => KeptBackup(journal.run, data["target"].db)'
    BY DEF Keeps, KeptInv, KeptBackup, Survive, HadActive
  <1> QED BY <1>1, <1>2, <1>3 DEF KeptInv
USE DEF Keeps, Stop, Refuse, Goto, SameBounds, SameFiles, disk, PutData, MoveTree, MoveData,
    WriteState, RemoveJournal, NoJournal, TypeOK, Journal

LEMMA UpdateStepReceipts ==
  ASSUME TypeOK, UpdateStep
  PROVE  Keeps \/ BackupDatabase \/ WritePrepared \/ PrepareSlotReceipt \/ PublishReceipt
  <1>1. CASE RemoveRetired \/ BeginUpdate \/ StageCopy
    BY <1>1 DEF Shred, RemoveRetired, BeginUpdate, StageCopy
  <1>2. CASE StageDone \/ WriteStaged \/ EnsureActiveData
    BY <1>2 DEF StageDone, WriteStaged, EnsureActiveData
  <1>3. CASE ProbePasses \/ ProbeFails \/ ProbeCreatesData
    BY <1>3 DEF CreatesData, Fails, Mutates, Passes, ProbePasses, ProbeFails, ProbeCreatesData
  <1>4. CASE RetirePrevious \/ WritePreviousRetired \/ SealData
    BY <1>4 DEF MoveTreeExact, RetirePrevious, WritePreviousRetired, SealData
  <1>5. CASE DetachData \/ WriteDataMoved \/ DeactivateOld
    BY <1>5 DEF MoveDataExact, MoveTreeExact, DetachData, WriteDataMoved, DeactivateOld
  <1>6. CASE WriteActiveMoved \/ ActivateCandidate \/ WriteActivated
    BY <1>6 DEF MoveTreeExact, WriteActiveMoved, ActivateCandidate, WriteActivated
  <1>7. CASE VerifyPasses \/ VerifyFails \/ WriteAttachPending
    BY <1>7
      DEF CreatesData, Fails, ForceRecovery, Mutates, VerifyPasses, VerifyFails,
          WriteAttachPending
  <1>8. CASE AttachData \/ WriteDataAttached \/ WriteSlotPrepared
    BY <1>8 DEF MoveDataExact, AttachData, WriteDataAttached, WriteSlotPrepared
  <1>9. CASE WriteSlotReceipted \/ FinishUpdate \/ DropRetired
    BY <1>9 DEF Shred, WriteSlotReceipted, FinishUpdate, DropRetired
  <1> HIDE DEF Keeps
  <1> QED BY <1>1, <1>2, <1>3, <1>4, <1>5, <1>6, <1>7, <1>8, <1>9 DEF UpdateStep

LEMMA RecoverUpdateStepReceipts ==
  ASSUME TypeOK, RecoverUpdateStep
  PROVE  Keeps \/ RecoverReceipt
  <1>1. CASE RecoverUpdate \/ RecoverRetired \/ RecoverFirst
    BY <1>1
      DEF Fails, Mutates, Passes, RecoveryBranch, Shred, RecoverUpdate, RecoverRetired,
          RecoverFirst
  <1>2. CASE RecoverFirstData \/ QuarantineTarget \/ AbandonFirst
    BY <1>2 DEF MoveTreeExact, RecoverFirstData, QuarantineTarget, AbandonFirst
  <1>3. CASE RecoverTargetData \/ RecoverPreviousData \/ RecoverSwap
    BY <1>3
      DEF MoveDataExact, MoveTreeExact, RecoverTargetData, RecoverPreviousData, RecoverSwap
  <1>4. CASE RecoverIncoming \/ RecoverPrior \/ RecoverFinish
    BY <1>4
      DEF AfterRecovery, MoveTreeExact, Shred, RecoverIncoming, RecoverPrior, RecoverFinish
  <1> HIDE DEF Keeps
  <1> QED BY <1>1, <1>2, <1>3, <1>4 DEF RecoverUpdateStep

LEMMA RollbackStepReceipts ==
  ASSUME TypeOK, RollbackStep
  PROVE  Keeps
  <1>1. CASE BeginRollback \/ RollbackProbePasses \/ RollbackProbeFails
    BY <1>1 DEF CreatesData, Fails, BeginRollback, RollbackProbePasses, RollbackProbeFails
  <1>2. CASE MoveProbeData \/ PreserveDatabase \/ PickDatabase
    BY <1>2 DEF MoveProbeData, PreserveDatabase, PickDatabase
  <1>3. CASE WriteRollbackPrepared \/ DetachRollbackData \/ WriteRollbackDataMoved
    BY <1>3 DEF MoveDataExact, WriteRollbackPrepared, DetachRollbackData, WriteRollbackDataMoved
  <1>4. CASE SelectDatabase \/ WriteDatabaseRestored \/ DeactivateNewer
    BY <1>4
      DEF EnsureSelected, MoveTreeExact, SealSelected, SelectDatabase, WriteDatabaseRestored,
          DeactivateNewer
  <1>5. CASE WriteRollbackActiveMoved \/ ActivatePrevious \/ WriteRollbackActivated
    BY <1>5
      DEF MoveTreeExact, WriteRollbackActiveMoved, ActivatePrevious, WriteRollbackActivated
  <1>6. CASE RollbackVerifyPasses \/ RollbackVerifyFails \/ WriteReversing
    BY <1>6
      DEF CreatesData, Fails, Mutates, RollbackVerifyPasses, RollbackVerifyFails, WriteReversing
  <1>7. CASE AttachRollbackData \/ WriteRollbackDataAttached \/ FinishRollback
    BY <1>7 DEF MoveDataExact, AttachRollbackData, WriteRollbackDataAttached, FinishRollback
  <1> HIDE DEF Keeps
  <1> QED BY <1>1, <1>2, <1>3, <1>4, <1>5, <1>6, <1>7 DEF RollbackStep

LEMMA RecoverRollbackStepReceipts ==
  ASSUME TypeOK, RecoverRollbackStep
  PROVE  Keeps
  <1>1. CASE RecoverRollback \/ RecoverCompleted \/ RecoverAborted
    BY <1>1 DEF AfterRecovery, RollbackBranch, RecoverRollback, RecoverCompleted, RecoverAborted
  <1>2. CASE RecoverSelect \/ RecoverRollbackSwap \/ RecoverDatabase
    BY <1>2
      DEF EnsureSelected, MoveTreeExact, RecoverSelect, RecoverRollbackSwap, RecoverDatabase
  <1>3. CASE RecoverAttach \/ FinishRecoveredRollback
    BY <1>3 DEF AfterRecovery, MoveDataExact, RecoverAttach, FinishRecoveredRollback
  <1>4. CASE RecoverSeal
    BY <1>4 DEF SealSelected, RecoverSeal
  <1> HIDE DEF Keeps
  <1> QED BY <1>1, <1>2, <1>3, <1>4 DEF RecoverRollbackStep

LEMMA ReverseStepReceipts ==
  ASSUME TypeOK, ReverseStep
  PROVE  Keeps
  <1>1. CASE ReverseStart \/ DetachCandidateData \/ ReverseData
    BY <1>1 DEF MoveDataExact, RestoreOriginal, ReverseStart, DetachCandidateData, ReverseData
  <1>2. CASE ReverseTarget \/ ReactivateNewer \/ WriteReversal
    BY <1>2 DEF AfterReversalWrite, MoveTreeExact, ReverseTarget, ReactivateNewer, WriteReversal
  <1>3. CASE ReverseAttach \/ ReverseOriginal \/ FinishReversal
    BY <1>3 DEF MoveDataExact, RestoreOriginal, ReverseAttach, ReverseOriginal, FinishReversal
  <1> HIDE DEF Keeps
  <1> QED BY <1>1, <1>2, <1>3 DEF ReverseStep
HIDE DEF Keeps, Stop, Refuse, Goto, SameBounds, SameFiles, disk, PutData, MoveTree,
    MoveData, WriteState, RemoveJournal, NoJournal, TypeOK, Journal

LEMMA WritePreparedKept ==
  ASSUME TypeOK, ControlInv, Survive, KeptInv, WritePrepared PROVE KeptInv'
  <1>1. journal.op = "update"
    BY ForwardFacts DEF WritePrepared, ForwardLabels, StagingLabels
  <1>2. UNCHANGED <<prepared, receipt, data>> /\ pc' # "prepared"
    BY DEF WritePrepared, Goto
  <1>3. journal'.run = journal.run /\ journal'.orig = (IF HadActive THEN data["target"].db ELSE 0)
    BY DEF WritePrepared, TypeOK, Journal
  <1>4. KeptBackup(journal'.run, journal'.orig)
    BY <1>3, NoneKept DEF KeptInv, WritePrepared
  <1> QED BY <1>2, <1>4 DEF KeptInv, KeptBackup

LEMMA BackupDatabaseKept ==
  ASSUME TypeOK, ControlInv, Sound, Survive, KeptInv, BackupDatabase PROVE KeptInv'
  <1>1. journal.op = "update" /\ UNCHANGED <<journal, prepared, receipt>>
    BY ForwardFacts DEF BackupDatabase, ForwardLabels, StagingLabels, SameFiles
  <1>2. KeptBackup(receipt.run, receipt.backup)' /\ KeptBackup(prepared.run, prepared.backup)'
        /\ KeptBackup(journal.run, journal.orig)'
    BY <1>1 DEF KeptInv, KeptBackup, Survive
  <1>3. ASSUME HadActive PROVE KeptBackup(journal.run, data["target"].db)'
    <2>1. data \in [Places -> Data] /\ "target" \in Places
      BY DEF TypeOK, Places, Slots
    <2>2. CASE IsClient(data["target"])
      <3>1. data["target"] \in Data
        BY <2>1
      <3>2. /\ data'["target"] = [data["target"] EXCEPT !.kept = @ \cup {<<journal.run, data["target"].db>>}]
        BY <1>3, <2>1, <2>2 DEF BackupDatabase, PutData
      <3>3. /\ IsClient(data'["target"]) /\ data'["target"].db = data["target"].db
            /\ <<journal.run, data["target"].db>> \in data'["target"].kept
        BY <2>2, <3>1, <3>2 DEF Data, IsClient
      <3> QED BY <1>1, <2>1, <3>3 DEF KeptBackup
    <2>3. CASE ~IsClient(data["target"])
      <3>1. data'["target"].db = 0
        BY <2>1, <2>3
          DEF BackupDatabase, SameSlots, Sound, KnownData, NoData, Empty, Foreign, Plain
      <3> QED BY <3>1 DEF KeptBackup
    <2> QED BY <2>2, <2>3
  <1> QED BY <1>1, <1>2, <1>3 DEF KeptInv, HadActive

LEMMA PrepareSlotReceiptKept ==
  ASSUME TypeOK, ControlInv, Survive, KeptInv, PrepareSlotReceipt PROVE KeptInv'
  <1>1. journal.op = "update" /\ UNCHANGED <<journal, receipt>> /\ pc' # "prepared"
    BY ForwardFacts DEF PrepareSlotReceipt, ForwardLabels, AttachedLabels, Goto
  <1>2. prepared'.run = journal.run /\ prepared'.backup = journal.orig
    BY DEF PrepareSlotReceipt
  <1> QED BY <1>1, <1>2 DEF KeptInv, KeptBackup, Survive

LEMMA CompleteSlotReceiptKept ==
  ASSUME Survive, KeptInv, NEW l, l # "prepared", CompleteSlotReceipt(l) PROVE KeptInv'
  <1>1. CASE UNCHANGED disk /\ pc' # "prepared"
    BY <1>1, KeepsKept DEF Keeps, disk
  <1>2. CASE receipt' = prepared /\ prepared' = NoReceipt /\ UNCHANGED journal /\ pc' # "prepared"
    BY <1>2 DEF KeptInv, KeptBackup, Survive, NoReceipt
  <1> QED BY <1>1, <1>2 DEF CompleteSlotReceipt, Refuse, Stop, Goto

LEMMA InitKept == Init => KeptInv
  BY NoneKept DEF Init, KeptInv, NoReceipt, NoJournal

LEMMA NextKept == AllInv /\ KeptInv /\ [Next]_vars => KeptInv'
  <1> SUFFICES ASSUME AllInv, KeptInv, [Next]_vars PROVE KeptInv'
    OBVIOUS
  <1>1. TypeOK /\ ControlInv /\ Sound /\ Survive
    BY NextCustody DEF AllInv, Custody
  <1>2. CASE \/ InvokeUpdate \/ InvokeRollback \/ InvokeRecovery \/ Crash \/ UseAtlas \/ Disturb
             \/ UNCHANGED vars
    <2>1. Keeps
      BY <1>1, <1>2
        DEF Keeps, InvokeUpdate, InvokeRollback, InvokeRecovery, Invoke, Crash, UseAtlas,
            Disturb, PutData, vars, TypeOK, Data, Places, Slots
    <2> QED BY <1>1, <2>1, KeepsKept
  <1>3. CASE Script
    <2>1. \/ Keeps \/ WritePrepared \/ BackupDatabase \/ PrepareSlotReceipt \/ PublishReceipt
          \/ RecoverReceipt
      BY <1>1, <1>3, UpdateStepReceipts, RecoverUpdateStepReceipts, RollbackStepReceipts,
         RecoverRollbackStepReceipts, ReverseStepReceipts
        DEF Script
    <2> QED BY <1>1, <2>1, KeepsKept, WritePreparedKept, BackupDatabaseKept,
               PrepareSlotReceiptKept, CompleteSlotReceiptKept
              DEF PublishReceipt, RecoverReceipt
  <1> QED BY <1>2, <1>3 DEF Next

LEMMA KeptAlways == Spec => []KeptInv
  <1>1. Init => KeptInv
    BY InitKept
  <1>2. AllInv /\ KeptInv /\ [Next]_vars => KeptInv'
    BY NextKept
  <1> QED BY <1>1, <1>2, AllInvAlways, PTL DEF Spec

(* When no journal is left, the published receipt binds the active and the  *)
(* retained tree, and the backup it names is among the client's own.        *)
THEOREM ReceiptBinds == Spec => []ReceiptBindsSlots
  <1>1. AllInv /\ KeptInv => ReceiptBindsSlots
    BY DEF AllInv, Custody, DiskInv, RestDisk, KeptInv, KeptBackup, ReceiptBindsSlots, AtRest,
       ClientIn, Binds
  <1> QED BY <1>1, AllInvAlways, KeptAlways, PTL

-----------------------------------------------------------------------------
(* The client's database, as a function of the data directories.            *)
DbOf(d) ==
  LET H == {p \in Places : IsClient(d[p])}
  IN  IF H = {} THEN 0 ELSE d[CHOOSE p \in H : TRUE].db

LEMMA ClientDbOf == ClientDb = DbOf(data) /\ ClientDb' = DbOf(data')
  BY DEF ClientDb, Held, DbOf

LEMMA DbOfOne ==
  ASSUME NEW d, NEW p \in Places, IsClient(d[p]), \A q \in Places : IsClient(d[q]) => q = p
  PROVE  DbOf(d) = d[p].db
  <1>1. {q \in Places : IsClient(d[q])} = {p}
    OBVIOUS
  <1>2. (CHOOSE q \in {p} : TRUE) = p
    OBVIOUS
  <1> QED BY <1>1, <1>2 DEF DbOf

LEMMA DbOfNone == ASSUME NEW d, \A q \in Places : ~IsClient(d[q]) PROVE DbOf(d) = 0
  BY DEF DbOf

LEMMA TheOneNext ==
  ASSUME ClientDataInOnePlace', NEW p \in Places, NEW q \in Places, IsClient(data'[p]),
         IsClient(data'[q])
  PROVE  p = q
  <1>1. p \in Held' /\ q \in Held'
    BY DEF Held, IsClient
  <1> QED BY <1>1 DEF ClientDataInOnePlace

LEMMA DbAt ==
  ASSUME Sound, NEW p \in Places, IsClient(data[p]) PROVE ClientDb = data[p].db
  BY ClientDbOf, DbOfOne, OnePlace DEF Sound

LEMMA DbAtNext ==
  ASSUME Sound', NEW p \in Places, IsClient(data'[p]) PROVE ClientDb' = data'[p].db
  <1>1. \A q \in Places : IsClient(data'[q]) => q = p
    BY TheOneNext DEF Sound
  <1> QED BY <1>1, ClientDbOf, DbOfOne

LEMMA DbNone ==
  /\ (\A p \in Places : ~IsClient(data[p])) => ClientDb = 0
  /\ (\A p \in Places : ~IsClient(data'[p])) => ClientDb' = 0
  BY ClientDbOf, DbOfNone

(* With the data in at most one place, its database is what that place has. *)
LEMMA DbIn ==
  ASSUME TypeOK, Sound, NEW p \in Places, ClientIn({p}) PROVE ClientDb = data[p].db
  <1>1. CASE IsClient(data[p])
    BY <1>1, DbAt
  <1>2. CASE ~IsClient(data[p])
    <2>1. \A q \in Places : ~IsClient(data[q])
      BY <1>2 DEF ClientIn
    <2>2. data[p].db = 0
      BY <1>2 DEF Sound, KnownData, NoData, Empty, Foreign, Plain
    <2> QED BY <2>1, <2>2, DbNone
  <1> QED BY <1>1, <1>2

LEMMA DbKept ==
  ASSUME Sound, Sound', Survive, ~ReplacesDb PROVE ClientDb' = ClientDb
  <1>1. CASE \E p \in Places : IsClient(data[p])
    <2>1. PICK p \in Places : IsClient(data[p])
      BY <1>1
    <2>2. PICK q \in Places : IsClient(data'[q]) /\ data'[q].db = data[p].db
      BY <2>1 DEF Survive
    <2> QED BY <2>1, <2>2, DbAt, DbAtNext
  <1>2. CASE ~\E p \in Places : IsClient(data[p])
    <2>1. \A q \in Places : ~IsClient(data'[q])
      BY <1>2 DEF Survive
    <2> QED BY <1>2, <2>1, DbNone
  <1> QED BY <1>1, <1>2

LEMMA DbTyped == ASSUME TypeOK, Sound PROVE ClientDb \in Dbs
  <1>1. CASE \E p \in Places : IsClient(data[p])
    <2>1. PICK p \in Places : IsClient(data[p])
      BY <1>1
    <2>2. data[p] \in Data
      BY DEF TypeOK
    <2> QED BY <2>1, <2>2, DbAt DEF Data
  <1>2. CASE ~\E p \in Places : IsClient(data[p])
    BY <1>2, DbNone, BoundsAssumption DEF Dbs
  <1> QED BY <1>1, <1>2

(* What the database invariant and the atomic release are about, and most   *)
(* steps leave alone.                                                       *)
Replacers == {"rb_select", "q_select", "q_database", "v_data", "v_original"}
DbLabels == {"finish", "r_finish", "rb_preserve", "rb_pick", "rollback_prepared", "rb_finish",
    "q_completed", "q_finish", "q_aborted", "v_original", "v_finish"}
Frame ==
    /\ UNCHANGED <<journal.op, journal.run, journal.active, journal.cand, journal.prior,
                   journal.orig, journal.sel>>
    /\ (Committed' <=> Committed) /\ (receipt' = receipt \/ Committed)
    /\ Pending \/ UNCHANGED <<tree["target"], tree["previous"]>>
    /\ edits' = edits
Routine ==
    /\ Frame /\ (journal.op = "update" => UNCHANGED journal.sealed)
    /\ pc \notin Replacers /\ pc' \notin DbLabels

LEMMA LabelFacts ==
  ASSUME TypeOK, ControlInv
  PROVE  /\ pc \notin FreeLabels \cup {"idle"} => Pending
         /\ pc \notin CommitLabels \cup {"idle", "recover", "finish", "r_finish"} => ~Committed
         /\ pc \in CommitLabels => Committed
         /\ pc \in {"rollback_database_restored", "q_seal"} => journal.op = "rollback"
  <1>1. pc \notin FreeLabels \cup {"idle"} => Pending
    BY DEF TypeOK, ControlInv, RollbackLabels, Pending
  <1>2. pc \in FreeLabels => ~Committed
    BY FreeFacts DEF NoJournal, Committed
  <1>3. pc \in RollbackLabels => ~Committed
    BY RollbackFacts
  <1>4. pc \in UpdateLabels \ (CommitLabels \cup {"finish", "r_finish"}) => ~Committed
    BY DEF ControlInv, UpdateLabels
  <1>5. pc \in {"rollback_database_restored", "q_seal"} => journal.op = "rollback"
    BY RollbackPointFacts DEF RollbackPoints
  <1> QED BY <1>1, <1>2, <1>3, <1>4, <1>5 DEF TypeOK, RollbackLabels, ControlInv

(* Which steps are not routine.                                             *)
USE DEF Routine, Frame, Replacers, DbLabels, Stop, Refuse, Goto, SameBounds, SameFiles,
    SameSlots, disk, PutData, MoveTree, MoveData, WriteState, TypeOK, Journal, Slots,
    Places, Committed, FreeLabels, CommitLabels

LEMMA UpdateStepRoutine ==
  ASSUME TypeOK, ControlInv, UpdateStep
  PROVE  Routine \/ BeginUpdate \/ WritePrepared \/ SealData \/ WriteDataAttached \/
         WriteSlotPrepared \/ WriteSlotReceipted \/ FinishUpdate
  <1>1. CASE RemoveRetired \/ StageCopy \/ StageDone
    BY <1>1, LabelFacts DEF Shred, RemoveRetired, StageCopy, StageDone
  <1>2. CASE WriteStaged \/ EnsureActiveData \/ ProbePasses
    BY <1>2, LabelFacts DEF Passes, WriteStaged, EnsureActiveData, ProbePasses
  <1>3. CASE ProbeFails \/ ProbeCreatesData \/ BackupDatabase
    BY <1>3, LabelFacts
      DEF CreatesData, Fails, Mutates, ProbeFails, ProbeCreatesData, BackupDatabase
  <1>4. CASE RetirePrevious \/ WritePreviousRetired \/ DetachData
    BY <1>4, LabelFacts
      DEF MoveDataExact, MoveTreeExact, RetirePrevious, WritePreviousRetired, DetachData
  <1>5. CASE WriteDataMoved \/ DeactivateOld \/ WriteActiveMoved
    BY <1>5, LabelFacts DEF MoveTreeExact, WriteDataMoved, DeactivateOld, WriteActiveMoved
  <1>6. CASE ActivateCandidate \/ WriteActivated \/ VerifyPasses
    BY <1>6, LabelFacts DEF MoveTreeExact, ActivateCandidate, WriteActivated, VerifyPasses
  <1>7. CASE VerifyFails \/ WriteAttachPending \/ AttachData
    BY <1>7, LabelFacts
      DEF CreatesData, Fails, ForceRecovery, MoveDataExact, Mutates, VerifyFails,
          WriteAttachPending, AttachData
  <1>8. CASE PrepareSlotReceipt \/ PublishReceipt \/ DropRetired
    BY <1>8, LabelFacts
      DEF CompleteSlotReceipt, Shred, PrepareSlotReceipt, PublishReceipt, DropRetired
  <1> HIDE DEF Routine
  <1> QED BY <1>1, <1>2, <1>3, <1>4, <1>5, <1>6, <1>7, <1>8 DEF UpdateStep

LEMMA RecoverUpdateStepRoutine ==
  ASSUME TypeOK, ControlInv, RecoverUpdateStep
  PROVE  Routine \/ RecoverRetired \/ RecoverFirstData \/ QuarantineTarget \/
         AbandonFirst \/ RecoverPrior \/ RecoverFinish
  <1>1. CASE RecoverReceipt \/ RecoverFirst \/ RecoverTargetData
    BY <1>1, LabelFacts
      DEF CompleteSlotReceipt, Fails, MoveDataExact, Mutates, Passes, RecoverReceipt,
          RecoverFirst, RecoverTargetData
  <1>2. CASE RecoverPreviousData \/ RecoverSwap \/ RecoverIncoming
    BY <1>2, LabelFacts
      DEF MoveDataExact, MoveTreeExact, Shred, RecoverPreviousData, RecoverSwap, RecoverIncoming
  <1>3. CASE RecoverUpdate
    BY <1>3, LabelFacts DEF RecoveryBranch, RecoverUpdate
  <1> HIDE DEF Routine
  <1> QED BY <1>1, <1>2, <1>3 DEF RecoverUpdateStep

LEMMA RollbackStepRoutine ==
  ASSUME TypeOK, ControlInv, RollbackStep
  PROVE  Routine \/ RollbackProbePasses \/ PreserveDatabase \/ PickDatabase \/
         WriteRollbackPrepared \/ SelectDatabase \/ WriteRollbackDataAttached \/
         FinishRollback
  <1>1. CASE BeginRollback \/ RollbackProbeFails \/ MoveProbeData
    BY <1>1, LabelFacts DEF CreatesData, Fails, BeginRollback, RollbackProbeFails, MoveProbeData
  <1>2. CASE DetachRollbackData \/ WriteRollbackDataMoved \/
             WriteDatabaseRestored
    BY <1>2, LabelFacts
      DEF MoveDataExact, SealSelected, DetachRollbackData, WriteRollbackDataMoved,
          WriteDatabaseRestored
  <1>3. CASE DeactivateNewer \/ WriteRollbackActiveMoved \/ ActivatePrevious
    BY <1>3, LabelFacts
      DEF MoveTreeExact, DeactivateNewer, WriteRollbackActiveMoved, ActivatePrevious
  <1>4. CASE WriteRollbackActivated \/ RollbackVerifyPasses \/
             RollbackVerifyFails
    BY <1>4, LabelFacts
      DEF CreatesData, Fails, Mutates, WriteRollbackActivated, RollbackVerifyPasses,
          RollbackVerifyFails
  <1>5. CASE WriteReversing \/ AttachRollbackData
    BY <1>5, LabelFacts DEF MoveDataExact, WriteReversing, AttachRollbackData
  <1> HIDE DEF Routine
  <1> QED BY <1>1, <1>2, <1>3, <1>4, <1>5 DEF RollbackStep

LEMMA RecoverRollbackStepRoutine ==
  ASSUME TypeOK, ControlInv, RecoverRollbackStep
  PROVE  Routine \/ RecoverRollback \/ RecoverCompleted \/ RecoverAborted \/
         RecoverSelect \/ RecoverDatabase \/ RecoverAttach \/ FinishRecoveredRollback
  <1>1. CASE RecoverRollbackSwap
    BY <1>1, LabelFacts DEF MoveTreeExact, RecoverRollbackSwap
  <1>2. CASE RecoverSeal
    BY <1>2, LabelFacts DEF SealSelected, RecoverSeal
  <1> HIDE DEF Routine
  <1> QED BY <1>1, <1>2 DEF RecoverRollbackStep

LEMMA ReverseStepRoutine ==
  ASSUME TypeOK, ControlInv, ReverseStep
  PROVE  Routine \/ ReverseData \/ ReverseAttach \/ ReverseOriginal \/ FinishReversal
  <1>1. CASE ReverseStart \/ DetachCandidateData \/ ReverseTarget
    BY <1>1, LabelFacts
      DEF MoveDataExact, MoveTreeExact, ReverseStart, DetachCandidateData, ReverseTarget
  <1>2. CASE ReactivateNewer \/ WriteReversal
    BY <1>2, LabelFacts DEF AfterReversalWrite, MoveTreeExact, ReactivateNewer, WriteReversal
  <1> HIDE DEF Routine
  <1> QED BY <1>1, <1>2 DEF ReverseStep

HIDE DEF Routine, Frame, Replacers, DbLabels, Stop, Refuse, Goto, SameBounds, SameFiles,
    SameSlots, disk, PutData, MoveTree, MoveData, WriteState, TypeOK, Journal, Slots,
    Places, Committed, FreeLabels, CommitLabels

(* A rollback that has detached the data does not come back to where it     *)
(* started, unless it reverses.                                             *)
Onward == journal'.op = "rollback" /\ NotYet' => NotYet

LEMMA RollbackPlace ==
  ASSUME TypeOK, ControlInv, Custody
  PROVE  /\ journal.op = "rollback" => journal.active \in Apps /\ journal.cand \in Apps
         /\ journal.op = "rollback" /\ tree["previous"] = NoApp => ~Before
         /\ pc \in FreeLabels => journal.op # "rollback"
         /\ pc \in {"rollback_active_moved", "rb_activate"} => Between
         /\ pc \in {"rb_verify", "q_probe", "rb_attach", "q_attach", "v_quarantine", "v_detach",
                    "v_previous"} => After
         /\ pc \in {"v_target", "v_attach"} => Reversing
         /\ pc \in {"rollback_data_moved", "rollback_database_restored", "rollback_active_moved",
                    "rollback_activated", "rollback_data_attached", "q_seal"} => ~Reversing
         /\ pc \in {"q_database"} /\ HasData("handoff") => After
  <1>1. journal.op = "rollback" => journal.active \in Apps /\ journal.cand \in Apps
    BY DEF Custody, DiskInv, RollbackDisk
  <1>2. journal.op = "rollback" /\ tree["previous"] = NoApp => ~Before
    BY <1>1, AppsAssumption DEF Before
  <1>3. pc \in FreeLabels => journal.op # "rollback"
    BY FreeFacts DEF Pending
  <1>4. /\ pc \in {"rollback_active_moved", "rb_activate"} => Between
        /\ pc \in {"rb_verify", "q_probe", "rb_attach", "q_attach"} => After
        /\ pc \in {"rollback_data_moved", "rollback_database_restored", "rollback_active_moved",
                   "rollback_activated", "rollback_data_attached", "q_seal"} => ~Reversing
        /\ pc \in {"q_database"} /\ HasData("handoff") => After
    BY DEF Custody, RollbackInv, Switched
  <1>5. /\ pc \in {"v_quarantine", "v_detach", "v_previous"} => After
        /\ pc \in {"v_target", "v_attach"} => Reversing
    BY DEF Custody, ReverseInv, Switched
  <1> QED BY <1>1, <1>2, <1>3, <1>4, <1>5

USE DEF Onward, NotYet, Before, Between, After, Reversing, HasData, Stop, Refuse, Goto,
    SameBounds, SameFiles, SameSlots, disk, PutData, MoveTree, MoveData, WriteState,
    RemoveJournal, NoJournal, TypeOK, Journal, Slots, Places, NoData, Empty, Foreign, Plain,
    CanMove, CanMoveData, FreeLabels, Data

LEMMA RollbackStepOnward ==
  ASSUME TypeOK, ControlInv, Custody, RollbackStep
  PROVE  Onward \/ WriteRollbackPrepared
  <1>1. CASE BeginRollback
    BY <1>1, RollbackPlace, AppsAssumption DEF BeginRollback
  <1>2. CASE RollbackProbePasses
    BY <1>2, RollbackPlace, AppsAssumption DEF RollbackProbePasses
  <1>3. CASE RollbackProbeFails
    BY <1>3, RollbackPlace, AppsAssumption DEF CreatesData, Fails, RollbackProbeFails
  <1>4. CASE MoveProbeData
    BY <1>4, RollbackPlace, AppsAssumption DEF MoveProbeData
  <1>5. CASE PreserveDatabase
    BY <1>5, RollbackPlace, AppsAssumption DEF PreserveDatabase
  <1>6. CASE PickDatabase
    BY <1>6, RollbackPlace, AppsAssumption DEF PickDatabase
  <1>7. CASE DetachRollbackData
    BY <1>7, RollbackPlace, AppsAssumption DEF MoveDataExact, DetachRollbackData
  <1>8. CASE WriteRollbackDataMoved
    BY <1>8, RollbackPlace, AppsAssumption DEF WriteRollbackDataMoved
  <1>9. CASE SelectDatabase
    BY <1>9, RollbackPlace, AppsAssumption DEF EnsureSelected, SelectDatabase
  <1>10. CASE WriteDatabaseRestored
    BY <1>10, RollbackPlace, AppsAssumption DEF SealSelected, WriteDatabaseRestored
  <1>11. CASE DeactivateNewer
    BY <1>11, RollbackPlace, AppsAssumption DEF MoveTreeExact, DeactivateNewer
  <1>12. CASE WriteRollbackActiveMoved
    BY <1>12, RollbackPlace, AppsAssumption DEF WriteRollbackActiveMoved
  <1>13. CASE ActivatePrevious
    BY <1>13, RollbackPlace, AppsAssumption DEF MoveTreeExact, ActivatePrevious
  <1>14. CASE WriteRollbackActivated
    BY <1>14, RollbackPlace, AppsAssumption DEF WriteRollbackActivated
  <1>15. CASE RollbackVerifyPasses
    BY <1>15, RollbackPlace, AppsAssumption DEF RollbackVerifyPasses
  <1>16. CASE RollbackVerifyFails
    BY <1>16, RollbackPlace, AppsAssumption DEF CreatesData, Fails, Mutates, RollbackVerifyFails
  <1>17. CASE WriteReversing
    BY <1>17, RollbackPlace, AppsAssumption DEF WriteReversing
  <1>18. CASE AttachRollbackData
    BY <1>18, RollbackPlace, AppsAssumption DEF MoveDataExact, AttachRollbackData
  <1>19. CASE WriteRollbackDataAttached
    BY <1>19, RollbackPlace, AppsAssumption DEF WriteRollbackDataAttached
  <1>20. CASE FinishRollback
    BY <1>20, RollbackPlace, AppsAssumption DEF FinishRollback
  <1> HIDE DEF Onward
  <1> QED BY <1>1, <1>2, <1>3, <1>4, <1>5, <1>6, <1>7, <1>8, <1>9, <1>10, <1>11, <1>12, <1>13,
             <1>14, <1>15, <1>16, <1>17, <1>18, <1>19, <1>20
    DEF RollbackStep

LEMMA RecoverRollbackStepOnward ==
  ASSUME TypeOK, ControlInv, Custody, RecoverRollbackStep
  PROVE  Onward
  <1>1. CASE RecoverRollback
    BY <1>1, RollbackPlace, AppsAssumption DEF RollbackBranch, RecoverRollback
  <1>2. CASE RecoverCompleted
    BY <1>2, RollbackPlace, AppsAssumption DEF AfterRecovery, RecoverCompleted
  <1>3. CASE RecoverAborted
    BY <1>3, RollbackPlace, AppsAssumption DEF AfterRecovery, RecoverAborted
  <1>4. CASE RecoverSelect
    BY <1>4, RollbackPlace, AppsAssumption DEF EnsureSelected, RecoverSelect
  <1>5. CASE RecoverRollbackSwap
    BY <1>5, RollbackPlace, AppsAssumption DEF MoveTreeExact, RecoverRollbackSwap
  <1>6. CASE RecoverDatabase
    BY <1>6, RollbackPlace, AppsAssumption DEF EnsureSelected, RecoverDatabase
  <1>7. CASE RecoverSeal
    BY <1>7, RollbackPlace, AppsAssumption DEF SealSelected, RecoverSeal
  <1>8. CASE RecoverAttach
    BY <1>8, RollbackPlace, AppsAssumption DEF MoveDataExact, RecoverAttach
  <1>9. CASE FinishRecoveredRollback
    BY <1>9, RollbackPlace, AppsAssumption DEF AfterRecovery, FinishRecoveredRollback
  <1> HIDE DEF Onward
  <1> QED BY <1>1, <1>2, <1>3, <1>4, <1>5, <1>6, <1>7, <1>8, <1>9 DEF RecoverRollbackStep

LEMMA ReverseStepOnward ==
  ASSUME TypeOK, ControlInv, Custody, ReverseStep
  PROVE  Onward
  <1>1. CASE ReverseStart
    BY <1>1, RollbackPlace, AppsAssumption DEF ReverseStart
  <1>2. CASE DetachCandidateData
    BY <1>2, RollbackPlace, AppsAssumption DEF MoveDataExact, DetachCandidateData
  <1>3. CASE ReverseData
    BY <1>3, RollbackPlace, AppsAssumption DEF RestoreOriginal, ReverseData
  <1>4. CASE ReverseTarget
    BY <1>4, RollbackPlace, AppsAssumption DEF MoveTreeExact, ReverseTarget
  <1>5. CASE ReactivateNewer
    BY <1>5, RollbackPlace, AppsAssumption DEF MoveTreeExact, ReactivateNewer
  <1>6. CASE WriteReversal
    BY <1>6, RollbackPlace, AppsAssumption DEF AfterReversalWrite, WriteReversal
  <1>7. CASE ReverseAttach
    BY <1>7, RollbackPlace, AppsAssumption DEF MoveDataExact, ReverseAttach
  <1>8. CASE ReverseOriginal
    BY <1>8, RollbackPlace, AppsAssumption DEF RestoreOriginal, ReverseOriginal
  <1>9. CASE FinishReversal
    BY <1>9, RollbackPlace, AppsAssumption DEF FinishReversal
  <1> HIDE DEF Onward
  <1> QED BY <1>1, <1>2, <1>3, <1>4, <1>5, <1>6, <1>7, <1>8, <1>9 DEF ReverseStep

HIDE DEF Onward, NotYet, Before, Between, After, Reversing, HasData, Stop, Refuse, Goto,
    SameBounds, SameFiles, SameSlots, disk, PutData, MoveTree, MoveData, WriteState,
    RemoveJournal, NoJournal, TypeOK, Journal, Slots, Places, NoData, Empty, Foreign, Plain,
    CanMove, CanMoveData, FreeLabels, Data

(* The database while the journal stays what it is.                         *)
LEMMA SameDb ==
  ASSUME TypeOK, ControlInv, Survive, DbInv, Frame, ClientDb' = ClientDb,
         journal.op = "update" => UNCHANGED journal.sealed, Onward
  PROVE  SealedDb' /\ (journal'.op = "rollback" => DbRollback')
  <1>1. SealedDb'
    BY DEF SealedDb, Frame, DbInv
  <1>2. ASSUME journal'.op = "rollback" PROVE DbRollback'
    <2>1. DbRollback /\ journal.op = "rollback"
      BY <1>2 DEF Frame, DbInv
    <2>2. receipt' = receipt
      BY <2>1 DEF Frame, ControlInv
    <2>3. NotYet' => ClientDb' = journal'.orig
      BY <1>2, <2>1 DEF Onward, DbRollback, Frame
    <2>4. KeptBackup(journal.run, journal.orig) => KeptBackup(journal.run, journal.orig)'
      BY DEF Frame, KeptBackup, Survive
    <2> QED BY <2>1, <2>2, <2>3, <2>4 DEF DbRollback, Frame
  <1> QED BY <1>1, <1>2

LEMMA KeptData ==
  ASSUME Sound, Sound', Survive, edits' = edits, pc \notin Replacers PROVE ClientDb' = ClientDb
  BY DbKept DEF ReplacesDb, Replacers

LEMMA StillData == ASSUME UNCHANGED data PROVE ClientDb' = ClientDb
  BY ClientDbOf

LEMMA NotLanded ==
  ASSUME pc' \notin DbLabels PROVE LandedDb'
  BY DEF LandedDb, DbLabels

LEMMA RoutineDb ==
  ASSUME TypeOK, ControlInv, Sound, Sound', Survive, DbInv, Routine, Onward PROVE DbInv'
  <1>1. ClientDb' = ClientDb
    BY KeptData DEF Routine, Frame
  <1> QED BY <1>1, SameDb, NotLanded DEF Routine, DbInv

(* The steps of an update that write the journal, or end it.                *)
LEMMA OpenedDb ==
  ASSUME journal'.op = "none" \/ (journal'.op = "update" /\ journal'.sealed = NoData),
         pc' \notin DbLabels
  PROVE  DbInv'
  BY NotLanded DEF DbInv, SealedDb

LEMMA QuietDb ==
  ASSUME TypeOK, ControlInv, Survive, DbInv, UNCHANGED disk, pc' \notin DbLabels PROVE DbInv'
  <1>1. ClientDb' = ClientDb
    BY StillData DEF disk
  <1>2. KeptBackup(journal.run, journal.orig) => KeptBackup(journal.run, journal.orig)'
    BY DEF disk, KeptBackup
  <1> QED BY <1>1, <1>2, NotLanded
            DEF DbInv, SealedDb, DbRollback, NotYet, Before, Reversing, HasData, disk

LEMMA BeginUpdateDb == ASSUME TypeOK, ControlInv, Survive, DbInv, BeginUpdate PROVE DbInv'
  <1>1. CASE journal'.op = "update" /\ journal'.sealed = NoData /\ pc' = "stage"
    BY <1>1, OpenedDb DEF DbLabels
  <1>2. CASE Refuse
    BY <1>2, QuietDb DEF Refuse, Stop, DbLabels
  <1> QED BY <1>1, <1>2 DEF BeginUpdate, NoJournal

LEMMA WritePreparedDb == ASSUME TypeOK, ControlInv, Custody, WritePrepared PROVE DbInv'
  <1>1. journal.op = "update" /\ journal.sealed = NoData
    BY ForwardFacts DEF WritePrepared, ForwardLabels, StagingLabels, Custody, ForwardInv
  <1>2. journal'.op = "update" /\ journal'.sealed = NoData
    BY <1>1 DEF WritePrepared, TypeOK, Journal
  <1>3. pc' \in {"retire", "seal"}
    BY DEF WritePrepared, Goto
  <1> QED BY <1>2, <1>3, OpenedDb DEF DbLabels

LEMMA SealDataDb == ASSUME TypeOK, ControlInv, Survive, DbInv, SealData PROVE DbInv'
  <1>1. CASE UNCHANGED disk /\ pc' \in {"idle", "data_moved"}
    BY <1>1, QuietDb DEF DbLabels
  <1>2. CASE /\ data["target"].db = journal.orig /\ pc' = "detach"
             /\ journal' = [journal EXCEPT !.phase = "prepared", !.sealed = data["target"]]
    <2>1. /\ journal'.op = journal.op /\ journal'.orig = journal.orig
          /\ journal'.sealed.db = journal.orig
      BY <1>2 DEF TypeOK, Journal
    <2>2. journal.op = "update"
      BY ForwardFacts DEF SealData, ForwardLabels
    <2> QED BY <1>2, <2>1, <2>2, NotLanded DEF DbInv, SealedDb, DbLabels
  <1> QED BY <1>1, <1>2 DEF SealData, Refuse, Stop, Goto, disk

LEMMA WriteSlotPreparedDb ==
  ASSUME TypeOK, ControlInv, DbInv, WriteSlotPrepared PROVE DbInv'
  <1>1. journal.op = "update" /\ pc' = "receipt"
    BY ForwardFacts DEF WriteSlotPrepared, ForwardLabels, AttachedLabels, Goto
  <1>2. UNCHANGED <<journal.op, journal.sealed, journal.orig>>
    BY DEF WriteSlotPrepared, WriteState, TypeOK, Journal
  <1> QED BY <1>1, <1>2, NotLanded DEF DbInv, SealedDb, DbLabels

LEMMA RemovedDb == ASSUME RemoveJournal, pc' \notin DbLabels PROVE DbInv'
  BY OpenedDb DEF RemoveJournal, NoJournal

LEMMA AfterRemoval ==
  ASSUME NEW o, AfterRecovery(o) PROVE pc' \notin DbLabels
  BY DEF AfterRecovery, Stop, Goto, DbLabels

LEMMA UpdateEndsDb ==
  ASSUME FinishUpdate \/ RecoverFinish \/ AbandonFirst PROVE DbInv'
  <1>1. RemoveJournal /\ pc' \notin DbLabels
    BY AfterRemoval DEF FinishUpdate, RecoverFinish, AbandonFirst, Goto, Stop, DbLabels
  <1> QED BY <1>1, RemovedDb

(* The steps after which an operation is about to remove its journal.       *)
LEMMA LanderDb ==
  ASSUME TypeOK, ControlInv, Sound, Sound', Survive, DbInv, Frame, pc \notin Replacers, Onward,
         UNCHANGED journal.sealed, LandedDb'
  PROVE  DbInv'
  <1>1. ClientDb' = ClientDb
    BY KeptData DEF Frame
  <1> QED BY <1>1, SameDb DEF DbInv

(* Writing a phase under which an update is committed if it was before.     *)
Rephased(ph) ==
  /\ journal' = [journal EXCEPT !.phase = ph]
  /\ Committed <=> ph \in {"rollback_slot_prepared", "rollback_slot_receipted"}

LEMMA JournalFrame ==
  ASSUME TypeOK, Pending, receipt' = receipt, edits' = edits,
         UNCHANGED journal \/ \E ph \in Phases : Rephased(ph)
  PROVE  Frame /\ UNCHANGED journal.sealed
  <1>1. CASE UNCHANGED journal
    BY <1>1 DEF Frame, Committed
  <1>2. ASSUME NEW ph \in Phases, Rephased(ph) PROVE Frame /\ UNCHANGED journal.sealed
    <2>1. /\ UNCHANGED <<journal.op, journal.run, journal.active, journal.cand, journal.prior,
                         journal.orig, journal.sel, journal.sealed>>
          /\ journal'.phase = ph
      BY <1>2 DEF TypeOK, Journal, Rephased
    <2> QED BY <1>2, <2>1 DEF Frame, Committed, Rephased
  <1> QED BY <1>1, <1>2

LEMMA NotOnward == ASSUME journal'.op # "rollback" PROVE Onward
  BY DEF Onward

LEMMA UpdateLander ==
  ASSUME TypeOK, ControlInv, Sound, Sound', Survive, DbInv, journal.op = "update", pc \notin
         Replacers,
         Frame, UNCHANGED journal.sealed, LandedDb'
  PROVE  DbInv'
  BY NotOnward, LanderDb DEF Frame

LEMMA FinishLands ==
  ASSUME pc' \in {"finish", "r_finish"},
         HadActive' => IF Committed' THEN receipt' = SlotReceipt'
                       ELSE tree'["target"] = journal'.active /\ tree'["previous"] = journal'.prior
  PROVE  LandedDb'
  BY DEF LandedDb

LEMMA WriteDataAttachedDb ==
  ASSUME TypeOK, ControlInv, Sound, Sound', Survive, DbInv, WriteDataAttached PROVE DbInv'
  <1>1. journal.op = "update" /\ ~Committed /\ Pending /\ pc \notin Replacers
    BY ForwardFacts DEF WriteDataAttached, ForwardLabels, AttachedLabels, Pending, Replacers
  <1>2. CASE Refuse
    BY <1>2, QuietDb DEF Refuse, Stop, DbLabels
  <1>3. CASE WriteState("data_attached") /\ Goto(IF HadActive THEN "slot" ELSE "finish")
    <2>1. Frame /\ UNCHANGED journal.sealed
      BY <1>1, <1>3, JournalFrame DEF WriteState, Goto, SameBounds, Phases, Rephased
    <2>2. CASE HadActive
      BY <1>3, <2>2, NotLanded, <2>1, <1>1, UpdateLander DEF Goto, DbLabels
    <2>3. CASE ~HadActive
      <3>1. ~HadActive'
        BY <2>1, <2>3 DEF Frame, HadActive
      <3>2. LandedDb'
        BY <3>1, <1>3, <2>3, FinishLands DEF Goto
      <3> QED BY <3>2, <2>1, <1>1, UpdateLander
    <2> QED BY <2>2, <2>3
  <1> QED BY <1>2, <1>3 DEF WriteDataAttached

LEMMA WriteSlotReceiptedDb ==
  ASSUME TypeOK, ControlInv, Custody, Sound', Survive, DbInv, WriteSlotReceipted PROVE DbInv'
  <1>1. journal.op = "update" /\ Committed /\ Pending /\ pc \notin Replacers
    BY CommitFacts DEF WriteSlotReceipted, CommitLabels, Pending, Replacers
  <1>2. Frame /\ UNCHANGED journal.sealed
    BY <1>1, JournalFrame DEF WriteSlotReceipted, WriteState, Goto, SameBounds, Phases, Rephased
  <1>3. receipt' = receipt /\ receipt = SlotReceipt /\ SlotReceipt' = SlotReceipt
    BY <1>2 DEF Custody, ForwardInv, WriteSlotReceipted, WriteState, Frame, SlotReceipt
  <1>4. LandedDb'
    BY <1>1, <1>2, <1>3, FinishLands DEF WriteSlotReceipted, Goto, Frame
  <1> QED BY <1>1, <1>2, <1>4, UpdateLander DEF Custody

LEMMA RecoverRetiredDb ==
  ASSUME TypeOK, ControlInv, Custody, Sound', Survive, DbInv, RecoverRetired PROVE DbInv'
  <1>1. journal.op = "update" /\ Committed /\ Pending /\ pc \notin Replacers
    BY CommitFacts DEF RecoverRetired, CommitLabels, Pending, Replacers
  <1>2. CASE pc' \notin DbLabels
    <2>1. Frame /\ UNCHANGED journal.sealed
      BY <1>1, JournalFrame
        DEF RecoverRetired, Shred, Refuse, Stop, Goto, SameBounds, SameFiles, disk
    <2> QED BY <1>1, <1>2, <2>1, NotLanded, UpdateLander DEF Custody
  <1>3. CASE UNCHANGED disk /\ Goto("r_finish")
    <2>1. Frame /\ UNCHANGED journal.sealed
      BY <1>1, <1>3, JournalFrame DEF Goto, SameBounds, disk
    <2>2. receipt' = receipt /\ receipt = SlotReceipt /\ SlotReceipt' = SlotReceipt
      BY <1>3 DEF Custody, ForwardInv, RecoverRetired, disk, SlotReceipt
    <2>3. LandedDb'
      BY <1>1, <1>3, <2>1, <2>2, FinishLands DEF Goto, Frame
    <2> QED BY <1>1, <2>1, <2>3, UpdateLander DEF Custody
  <1> QED BY <1>2, <1>3 DEF RecoverRetired, Refuse, Stop, Goto, DbLabels

(* A first install has no older release to compare with.                    *)
LEMMA FirstLands ==
  ASSUME TypeOK, ControlInv, Sound, Sound', Survive, DbInv, pc \in FirstLabels, UNCHANGED
         <<journal, receipt, edits>>
  PROVE  pc' \in {"r_finish"} \/ pc' \notin DbLabels => DbInv'
  <1>1. journal.op = "update" /\ Pending /\ ~HadActive /\ pc \notin Replacers
    BY FirstFacts DEF FirstLabels, Pending, Replacers
  <1>2. Frame /\ UNCHANGED journal.sealed
    BY <1>1, JournalFrame
  <1>3. ~HadActive'
    BY <1>1, <1>2 DEF Frame, HadActive
  <1> QED BY <1>1, <1>2, <1>3, FinishLands, NotLanded, UpdateLander

LEMMA FirstStepsDb ==
  ASSUME TypeOK, ControlInv, Sound, Sound', Survive, DbInv, RecoverFirstData \/ QuarantineTarget
  PROVE  DbInv'
  <1>1. pc \in FirstLabels /\ UNCHANGED <<journal, receipt, edits>>
    BY DEF RecoverFirstData, QuarantineTarget, MoveTreeExact, SameFiles, Goto, Refuse, Stop,
       SameBounds, disk, FirstLabels
  <1>2. pc' \in {"r_finish"} \/ pc' \notin DbLabels
    BY DEF RecoverFirstData, QuarantineTarget, MoveTreeExact, Goto, Refuse, Stop, DbLabels
  <1> QED BY <1>1, <1>2, FirstLands

LEMMA RecoverPriorDb ==
  ASSUME TypeOK, ControlInv, Custody, Sound', Survive, DbInv, RecoverPrior PROVE DbInv'
  <1>1. journal.op = "update" /\ ~Committed /\ Pending /\ pc \notin Replacers
    BY CleanFacts DEF RecoverPrior, CleanLabels, Pending, Replacers
  <1>2. CASE Refuse
    BY <1>2, QuietDb DEF Refuse, Stop, DbLabels
  <1>3. CASE ~Refuse
    <2>1. pc' = "r_finish" /\ UNCHANGED <<journal, receipt, edits>>
      BY <1>3 DEF RecoverPrior, MoveTreeExact, Goto, SameBounds, SameFiles, disk
    <2>2. Frame /\ UNCHANGED journal.sealed
      BY <1>1, <2>1, JournalFrame
    <2>3. ASSUME HadActive PROVE tree'["target"] = journal.active /\ tree'["previous"] = journal.prior
      <3>1. Unswitched
        BY <2>3 DEF Custody, RecoverInv, RecoverPrior, CleanLabels
      <3>2. CASE UNCHANGED tree /\ tree["retired"] = NoApp
        <4>1. journal.prior = NoApp \/ tree["previous"] = journal.prior
          BY <1>3, <3>2 DEF RecoverPrior, MoveTreeExact, CanMove
        <4> QED BY <3>1, <3>2, <4>1 DEF Unswitched, NotRetired, Retired, PriorLost
      <3>3. CASE MoveTree("retired", "previous") /\ tree["retired"] = journal.prior
        BY <3>1, <3>3 DEF MoveTree, Unswitched, TypeOK, Slots
      <3> QED BY <1>3, <3>2, <3>3 DEF RecoverPrior, MoveTreeExact, disk
    <2>4. LandedDb'
      BY <1>1, <2>1, <2>2, <2>3, FinishLands DEF Frame, HadActive
    <2> QED BY <1>1, <2>2, <2>4, UpdateLander DEF Custody
  <1> QED BY <1>2, <1>3

(* A rollback before its journal is written.                                *)
LEMMA RollbackOpens ==
  ASSUME ~Pending, UNCHANGED <<journal, receipt>>,
         pc' \in {"rb_preserve", "rb_pick", "rollback_prepared"},
         req'.restore => data'["target"].db # 0 /\ receipt.backup # 0,
         (pc' # "rb_preserve" /\ req'.restore) => KeptBackup(run, data["target"].db)'
  PROVE  DbInv'
  <1>1. SealedDb' /\ journal'.op # "rollback"
    BY DEF SealedDb, Pending
  <1>2. LandedDb'
    BY DEF LandedDb
  <1> QED BY <1>1, <1>2 DEF DbInv

LEMMA RollbackProbePassesDb ==
  ASSUME TypeOK, ControlInv, Survive, DbInv, RollbackProbePasses PROVE DbInv'
  <1>1. ~Pending /\ UNCHANGED <<journal, receipt, data>>
    BY FreeFacts DEF RollbackProbePasses, FreeLabels, disk
  <1>2. CASE pc' = "idle"
    BY <1>2, QuietDb DEF RollbackProbePasses, DbLabels
  <1>3. CASE Goto("rollback_prepared") /\ ~req.restore
    BY <1>1, <1>3, RollbackOpens DEF Goto
  <1>4. CASE Goto("rb_preserve") /\ data["target"].db # 0 /\ receipt.backup # 0
    BY <1>1, <1>4, RollbackOpens DEF Goto
  <1> QED BY <1>2, <1>3, <1>4 DEF RollbackProbePasses, BoundBackup, Stop

LEMMA PreserveDatabaseDb ==
  ASSUME TypeOK, ControlInv, Custody, DbInv, PreserveDatabase PROVE DbInv'
  <1>1. ~Pending /\ UNCHANGED <<journal, receipt, req, run>> /\ pc' = "rb_pick"
    BY FreeFacts DEF PreserveDatabase, FreeLabels, SameFiles, Goto, SameBounds
  <1>2. IsClient(data["target"]) /\ data["target"] \in Data /\ "target" \in Places
    BY DEF Custody, RollbackInv, PreserveDatabase, TypeOK, Places, Slots
  <1>3. data'["target"] = [data["target"] EXCEPT !.kept = @ \cup {<<run, data["target"].db>>}]
    BY <1>2 DEF PreserveDatabase, PutData, TypeOK
  <1>4. /\ IsClient(data'["target"]) /\ data'["target"].db = data["target"].db
        /\ <<run, data["target"].db>> \in data'["target"].kept
    BY <1>2, <1>3 DEF Data, IsClient
  <1>5. req.restore => data["target"].db # 0 /\ receipt.backup # 0
    BY DEF DbInv, LandedDb, PreserveDatabase
  <1>6. KeptBackup(run, data["target"].db)'
    BY <1>1, <1>2, <1>4 DEF KeptBackup
  <1> QED BY <1>1, <1>4, <1>5, <1>6, RollbackOpens

LEMMA PickDatabaseDb ==
  ASSUME TypeOK, ControlInv, Custody, Survive, DbInv, PickDatabase PROVE DbInv'
  <1>1. ~Pending /\ UNCHANGED <<journal, receipt, req, run>> /\ pc' = "rollback_prepared"
    BY FreeFacts DEF PickDatabase, FreeLabels, SameFiles, Goto, SameBounds
  <1>2. data["target"] \in Data /\ "target" \in Places
    BY DEF TypeOK, Places, Slots
  <1>3. data'["target"] = [data["target"] EXCEPT !.pick = receipt.backup]
    BY <1>2 DEF PickDatabase, PutData, TypeOK
  <1>4. data'["target"].db = data["target"].db
    BY <1>2, <1>3 DEF Data
  <1>5. req.restore => /\ data["target"].db # 0 /\ receipt.backup # 0
                       /\ KeptBackup(run, data["target"].db)
    BY DEF DbInv, LandedDb, PickDatabase
  <1>6. req.restore => KeptBackup(run, data["target"].db)'
    BY <1>1, <1>4, <1>5 DEF KeptBackup, Survive
  <1> QED BY <1>1, <1>4, <1>5, <1>6, RollbackOpens

LEMMA WriteRollbackPreparedDb ==
  ASSUME TypeOK, ControlInv, Custody, Survive, DbInv, WriteRollbackPrepared PROVE DbInv'
  <1> DEFINE d == data["target"].db
  <1>1. ~Pending /\ UNCHANGED <<tree, data, receipt>> /\ pc' = "rb_detach"
    BY FreeFacts DEF WriteRollbackPrepared, FreeLabels, Goto
  <1>2. /\ journal'.op = "rollback" /\ journal'.run = run /\ journal'.orig = d
        /\ journal'.sel = IF req.restore THEN receipt.backup ELSE d
    BY DEF WriteRollbackPrepared, NoJournal
  <1>3. ClientDb = d /\ ClientDb' = d
    BY <1>1, DbIn, StillData DEF Custody, DiskInv, RestDisk, Places, Slots
  <1>4. req.restore => d # 0 /\ receipt.backup # 0 /\ KeptBackup(run, d)
    BY DEF DbInv, LandedDb, WriteRollbackPrepared
  <1>5. req.restore => KeptBackup(journal.run, journal.orig)'
    BY <1>1, <1>2, <1>4 DEF KeptBackup
  <1>6. DbRollback'
    BY <1>1, <1>2, <1>3, <1>4, <1>5 DEF DbRollback
  <1>7. SealedDb' /\ LandedDb'
    BY <1>1, <1>2, NotLanded DEF SealedDb, DbLabels
  <1> QED BY <1>6, <1>7 DEF DbInv

(* A rollback under its journal.                                            *)
LEMMA RollbackLands ==
  ASSUME pc' \in {"rb_finish", "q_completed", "q_finish", "q_aborted", "v_original",
         "v_finish"},
         pc' \in {"rb_finish", "q_completed", "q_finish"} => Switched',
         pc' \in {"q_aborted", "v_original", "v_finish"} => Before',
         pc' \in {"q_aborted", "v_finish"} => ClientDb' = journal'.orig
  PROVE  LandedDb'
  BY DEF LandedDb

LEMMA IsBefore ==
  ASSUME Custody, journal.op = "rollback", tree["target"] = journal.active,
         tree["previous"] = journal.cand
  PROVE  Before
  BY AppsAssumption DEF Custody, DiskInv, RollbackDisk, Before, Between, After
SameTrees == UNCHANGED <<tree["target"], tree["previous"], tree["failed"], journal.active, journal.cand>>

LEMMA TreesStay == ASSUME SameTrees PROVE (Before => Before') /\ (Switched => Switched')
  BY DEF SameTrees, Before, After, Switched

LEMMA WriteRollbackDataAttachedDb ==
  ASSUME TypeOK, ControlInv, Custody, Sound', Survive, DbInv, Onward, WriteRollbackDataAttached
  PROVE  DbInv'
  <1>1. journal.op = "rollback" /\ ~Committed /\ Pending /\ pc \notin Replacers
    BY RollbackPointFacts DEF WriteRollbackDataAttached, RollbackPoints, Pending, Replacers
  <1>2. Frame /\ UNCHANGED journal.sealed
    BY <1>1, JournalFrame
      DEF WriteRollbackDataAttached, WriteState, Goto, SameBounds, Phases, Rephased
  <1>3. Switched'
    BY <1>2, TreesStay
      DEF Custody, RollbackInv, WriteRollbackDataAttached, WriteState, SameTrees, Frame
  <1>4. LandedDb'
    BY <1>3, RollbackLands DEF WriteRollbackDataAttached, Goto
  <1> QED BY <1>1, <1>2, <1>4, LanderDb DEF Custody

LEMMA RecoverRollbackDb ==
  ASSUME TypeOK, ControlInv, Custody, Survive, DbInv, RecoverRollback PROVE DbInv'
  <1>1. CASE pc' \notin DbLabels
    BY <1>1, QuietDb DEF RecoverRollback
  <1>2. CASE pc' \in DbLabels
    <2>1. journal.op = "rollback" /\ UNCHANGED disk
      BY DEF RecoverRollback
    <2>2. \/ pc' = "q_completed" /\ RollbackCompleted
          \/ pc' = "q_aborted" /\ RollbackNotActivated /\ ~Reversing
      BY <1>2 DEF RecoverRollback, RollbackBranch, Stop, Goto, DbLabels
    <2>3. pc' = "q_completed" => Switched'
      BY <2>1, <2>2 DEF RollbackCompleted, Switched, After, disk
    <2>4. pc' = "q_aborted" => Before /\ NotYet
      BY <2>1, <2>2, IsBefore DEF RollbackNotActivated, NotYet
    <2>5. pc' = "q_aborted" => Before' /\ ClientDb' = journal'.orig
      <3>1. Before /\ NotYet => Before' /\ ClientDb = journal.orig
        BY <2>1 DEF Before, disk, DbInv, DbRollback
      <3> QED BY <2>1, <2>4, <3>1, StillData DEF disk
    <2>6. LandedDb'
      BY <2>2, <2>3, <2>5, RollbackLands
    <2>7. SealedDb' /\ (journal'.op = "rollback" => DbRollback')
      <3>1. ClientDb' = ClientDb
        BY <2>1, StillData DEF disk
      <3>2. KeptBackup(journal.run, journal.orig) => KeptBackup(journal.run, journal.orig)'
        BY <2>1 DEF disk, KeptBackup
      <3> QED BY <2>1, <3>1, <3>2
                DEF DbInv, SealedDb, DbRollback, NotYet, Before, Reversing, HasData, disk
    <2> QED BY <2>6, <2>7 DEF DbInv
  <1> QED BY <1>1, <1>2

LEMMA RecoverAbortedDb ==
  ASSUME TypeOK, ControlInv, Custody, Sound', Survive, DbInv, Onward, RecoverAborted PROVE
         DbInv'
  <1>1. CASE RemoveJournal
    BY <1>1, AfterRemoval, RemovedDb, QuietDb
      DEF RecoverAborted, Goto, SameFiles, RemoveJournal, NoJournal
  <1>2. CASE SameFiles /\ Goto("q_aborted") /\ UNCHANGED tree
    <2>1. journal.op = "rollback" /\ Pending /\ pc = "q_aborted" /\ pc \notin Replacers
      BY RollbackPointFacts DEF RecoverAborted, RollbackPoints, Pending, Replacers
    <2>2. Frame /\ UNCHANGED journal.sealed
      BY <1>2, <2>1, JournalFrame DEF SameFiles, Goto, SameBounds
    <2>3. ClientDb' = ClientDb
      BY <2>1, <2>2, KeptData DEF Custody, Frame
    <2>4. Before' /\ ClientDb' = journal'.orig
      BY <1>2, <2>1, <2>2, <2>3, TreesStay DEF DbInv, LandedDb, SameTrees, Frame
    <2>5. LandedDb'
      BY <1>2, <2>4, RollbackLands DEF Goto
    <2> QED BY <2>1, <2>2, <2>5, LanderDb DEF Custody
  <1> QED BY <1>1, <1>2 DEF RecoverAborted, PutData

LEMMA RecoverAttachDb ==
  ASSUME TypeOK, ControlInv, Custody, Sound', Survive, DbInv, Onward, RecoverAttach PROVE DbInv'
  <1>1. journal.op = "rollback" /\ Pending /\ pc = "q_attach" /\ pc \notin Replacers
    BY RollbackPointFacts DEF RecoverAttach, RollbackPoints, Pending, Replacers
  <1>2. CASE Refuse
    BY <1>2, QuietDb DEF Refuse, Stop, DbLabels
  <1>3. CASE UNCHANGED <<journal, receipt, tree>> /\ Goto("q_finish")
    <2>1. Frame /\ UNCHANGED journal.sealed
      BY <1>1, <1>3, JournalFrame DEF Goto, SameBounds
    <2>2. Switched'
      BY <1>1, <1>3, TreesStay DEF Custody, RollbackInv, SameTrees
    <2>3. LandedDb'
      BY <1>3, <2>2, RollbackLands DEF Goto
    <2> QED BY <1>1, <2>1, <2>3, LanderDb DEF Custody
  <1> QED BY <1>2, <1>3 DEF RecoverAttach, MoveDataExact, MoveData, SameFiles, disk

LEMMA ReverseAttachDb ==
  ASSUME TypeOK, ControlInv, Custody, Sound', Survive, DbInv, Onward, ReverseAttach PROVE DbInv'
  <1>1. journal.op = "rollback" /\ Pending /\ pc \notin Replacers
    BY RollbackPointFacts DEF ReverseAttach, RollbackPoints, Pending, Replacers
  <1>2. CASE Refuse
    BY <1>2, QuietDb DEF Refuse, Stop, DbLabels
  <1>3. CASE ~Refuse
    <2>1. UNCHANGED <<journal, receipt, tree>> /\ Goto("v_original")
      BY <1>3 DEF ReverseAttach, MoveDataExact, MoveData, SameFiles, disk
    <2>2. Frame /\ UNCHANGED journal.sealed
      BY <1>1, <2>1, JournalFrame DEF Goto, SameBounds
    <2>3. Before'
      BY <1>1, <1>3, <2>1, IsBefore, TreesStay DEF ReverseAttach, SameTrees
    <2>4. LandedDb'
      BY <2>1, <2>3, RollbackLands DEF Goto
    <2> QED BY <1>1, <2>2, <2>4, LanderDb DEF Custody
  <1> QED BY <1>2, <1>3

(* The five steps that may replace the database.                            *)
LEMMA Plainly ==
  ASSUME TypeOK, Sound, NEW p \in Places, ~IsClient(data[p])
  PROVE  data[p].db = 0 /\ data[p].pick = 0 /\ data[p].kept = {}
  BY DEF Sound, KnownData, NoData, Empty, Foreign, Plain

LEMMA PutDb ==
  ASSUME TypeOK, Sound', NEW p \in Places, IsClient(data[p]), NEW d \in Data, PutData(p, d),
         IsClient(d)
  PROVE  ClientDb' = d.db
  <1>1. data'[p] = d
    BY DEF PutData, TypeOK
  <1> QED BY <1>1, DbAtNext

LEMMA SelectedDb ==
  ASSUME TypeOK, ControlInv, Custody, Sound', Survive, DbInv, Onward, journal.op = "rollback",
         ~NotYet,
         NEW p \in Places, NEW l, l \notin DbLabels, EnsureSelected(p, l)
  PROVE  DbInv'
  <1>1. CASE UNCHANGED disk
    BY <1>1, QuietDb DEF EnsureSelected, Refuse, Stop, Goto, DbLabels
  <1>2. CASE /\ data[p].pick = journal.sel /\ journal.sel # 0 /\ SameFiles /\ Goto(l)
             /\ PutData(p, [data[p] EXCEPT !.db = journal.sel, !.pick = 0])
    <2>1. IsClient(data[p])
      BY <1>2, Plainly DEF Custody
    <2> DEFINE d == [data[p] EXCEPT !.db = journal.sel, !.pick = 0]
    <2>2. data[p] \in Data /\ journal.sel \in Dbs /\ 0 \in Dbs
      BY BoundsAssumption DEF TypeOK, Journal, Dbs
    <2>3. d \in Data /\ IsClient(d) /\ d.db = journal.sel
      BY <2>1, <2>2 DEF Data, IsClient
    <2>4. ClientDb' = journal.sel
      BY <1>2, <2>1, <2>3, PutDb
    <2>5. UNCHANGED <<journal, receipt>> /\ pc' \notin DbLabels
      BY <1>2 DEF SameFiles, Goto
    <2>6. ~NotYet'
      BY <2>5 DEF Onward
    <2>7. KeptBackup(journal.run, journal.orig) => KeptBackup(journal.run, journal.orig)'
      BY <2>5 DEF KeptBackup, Survive
    <2>8. DbRollback'
      BY <2>4, <2>5, <2>6, <2>7 DEF DbRollback, DbInv
    <2> QED BY <2>5, <2>8, NotLanded DEF DbInv, SealedDb
  <1> QED BY <1>1, <1>2 DEF EnsureSelected, Refuse

LEMMA DetachedYet ==
  ASSUME TypeOK, ControlInv, Custody, journal.op = "rollback", HasData("handoff") PROVE ~NotYet
  BY DEF Custody, DiskInv, RollbackDisk, NotYet

LEMMA SelectStepsDb ==
  ASSUME TypeOK, ControlInv, Custody, Sound', Survive, DbInv, Onward, SelectDatabase \/
         RecoverSelect
  PROVE  DbInv'
  <1>1. journal.op = "rollback" /\ HasData("handoff") /\ "handoff" \in Places
    BY RollbackPointFacts
      DEF SelectDatabase, RecoverSelect, RollbackPoints, Custody, RollbackInv, Places
  <1>2. \E l : l \notin DbLabels /\ EnsureSelected("handoff", l)
    <2>1. "rollback_database_restored" \notin DbLabels /\ "q_swap" \notin DbLabels
      BY DEF DbLabels
    <2> QED BY <2>1 DEF SelectDatabase, RecoverSelect
  <1> QED BY <1>1, <1>2, DetachedYet, SelectedDb

LEMMA RecoverDatabaseDb ==
  ASSUME TypeOK, ControlInv, Custody, Sound', Survive, DbInv, Onward, RecoverDatabase PROVE
         DbInv'
  <1>1. CASE Refuse
    BY <1>1, QuietDb DEF Refuse, Stop, DbLabels
  <1>2. CASE HasData(VerificationData) /\ EnsureSelected(VerificationData, "q_seal")
    <2>1. journal.op = "rollback"
      BY RollbackPointFacts DEF RecoverDatabase, RollbackPoints
    <2>2. HasData("handoff") /\ VerificationData = "handoff" /\ "handoff" \in Places
      BY <1>2 DEF Custody, RollbackInv, RecoverDatabase, VerificationData, Places
    <2>3. EnsureSelected("handoff", "q_seal") /\ "q_seal" \notin DbLabels
      BY <1>2, <2>2 DEF DbLabels
    <2> QED BY <2>1, <2>2, <2>3, DetachedYet, SelectedDb
  <1> QED BY <1>1, <1>2 DEF RecoverDatabase

(* Restore-OriginalRollbackDatabase.                                        *)
LEMMA RestoredDb ==
  ASSUME TypeOK, Custody, Sound', DbInv, journal.op = "rollback", NEW p \in Places,
         CanRestoreOriginal(p), PutData(p, OriginalData(p))
  PROVE  ClientDb' = journal.orig
  <1>1. CASE journal.orig = 0
    <2>1. ClientDb = journal.orig
      BY <1>1 DEF DbInv, DbRollback
    <2>2. data' = data
      BY <1>1 DEF PutData, OriginalData, TypeOK
    <2> QED BY <2>1, <2>2, StillData
  <1>2. CASE journal.orig # 0
    <2>1. IsClient(data[p])
      <3>1. CASE ~IsClient(data[p])
        <4>1. data[p].db = 0 /\ data[p].kept = {}
          BY <3>1, Plainly DEF Custody
        <4> QED BY <1>2, <4>1 DEF CanRestoreOriginal
      <3> QED BY <3>1
    <2> DEFINE d == [data[p] EXCEPT !.db = journal.orig]
    <2>2. data[p] \in Data /\ journal.orig \in Dbs
      BY DEF TypeOK, Journal
    <2>3. d \in Data /\ IsClient(d) /\ d.db = journal.orig
      BY <2>1, <2>2 DEF Data, IsClient
    <2>4. PutData(p, d)
      BY <1>2 DEF OriginalData
    <2> QED BY <2>1, <2>3, <2>4, PutDb
  <1> QED BY <1>1, <1>2

LEMMA OriginalDb ==
  ASSUME TypeOK, Survive, DbInv, journal.op = "rollback", ClientDb' = journal.orig,
         UNCHANGED <<journal, receipt>>, LandedDb'
  PROVE  DbInv'
  <1>1. KeptBackup(journal.run, journal.orig) => KeptBackup(journal.run, journal.orig)'
    BY DEF KeptBackup, Survive
  <1>2. DbRollback'
    BY <1>1 DEF DbRollback, DbInv
  <1> QED BY <1>2 DEF DbInv, SealedDb

LEMMA ReverseDataDb ==
  ASSUME TypeOK, ControlInv, Custody, Sound', Survive, DbInv, ReverseData PROVE DbInv'
  <1>1. journal.op = "rollback"
    BY RollbackPointFacts DEF ReverseData, RollbackPoints
  <1>2. CASE Refuse
    BY <1>2, QuietDb DEF Refuse, Stop, DbLabels
  <1>3. CASE ~Refuse
    <2>1. \E p \in Places, l \in {"v_previous", "v_detach"} : RestoreOriginal(p, l)
      BY <1>3 DEF ReverseData, Places, Slots
    <2>2. PICK p \in Places, l \in {"v_previous", "v_detach"} : RestoreOriginal(p, l)
      BY <2>1
    <2>3. /\ CanRestoreOriginal(p) /\ PutData(p, OriginalData(p))
          /\ UNCHANGED <<journal, receipt>> /\ pc' = l
      BY <1>3, <2>2 DEF RestoreOriginal, SameFiles, Goto
    <2>4. ClientDb' = journal.orig
      BY <1>1, <2>3, RestoredDb, Plainly DEF Custody
    <2>5. LandedDb'
      BY <2>3, NotLanded DEF DbLabels
    <2> QED BY <1>1, <2>3, <2>4, <2>5, OriginalDb
  <1> QED BY <1>2, <1>3

LEMMA ReverseOriginalDb ==
  ASSUME TypeOK, ControlInv, Custody, Sound', Survive, DbInv, ReverseOriginal PROVE DbInv'
  <1>1. journal.op = "rollback" /\ "target" \in Places
    BY RollbackPointFacts DEF ReverseOriginal, RollbackPoints, Places, Slots
  <1>2. CASE Refuse
    BY <1>2, QuietDb DEF Refuse, Stop, DbLabels
  <1>3. CASE ~Refuse
    <2>1. /\ CanRestoreOriginal("target") /\ PutData("target", OriginalData("target"))
          /\ UNCHANGED <<journal, receipt, tree>> /\ pc' = "v_finish" /\ pc = "v_original"
      BY <1>3 DEF ReverseOriginal, RestoreOriginal, PutData, SameFiles, Goto
    <2>2. ClientDb' = journal.orig
      BY <1>1, <2>1, RestoredDb, Plainly DEF Custody
    <2>3. Before'
      BY <2>1, TreesStay DEF DbInv, LandedDb, SameTrees
    <2>4. LandedDb'
      BY <2>1, <2>2, <2>3, RollbackLands
    <2> QED BY <1>1, <2>1, <2>2, <2>4, OriginalDb
  <1> QED BY <1>2, <1>3

(* Every step.                                                              *)
LEMMA UpdateStepLabels == UpdateStep => pc \in UpdateLabels \cup FreeLabels \/ journal.op = "update"
  BY DEF UpdateStep, UpdateLabels, ForwardLabels, StagingLabels, DetachedLabels,
     ActivatedLabels, AttachedLabels, CommitLabels, FirstLabels, BackLabels, CleanLabels,
     FreeLabels, RemoveRetired, BeginUpdate, StageCopy, StageDone, WriteStaged,
     EnsureActiveData, ProbePasses, ProbeFails, ProbeCreatesData, BackupDatabase, WritePrepared,
     RetirePrevious, WritePreviousRetired, SealData, DetachData, WriteDataMoved, DeactivateOld,
     WriteActiveMoved, ActivateCandidate, WriteActivated, VerifyPasses, VerifyFails,
     WriteAttachPending, AttachData, WriteDataAttached, PrepareSlotReceipt, WriteSlotPrepared,
     PublishReceipt, WriteSlotReceipted, FinishUpdate, DropRetired

LEMMA RecoverUpdateStepLabels == RecoverUpdateStep => pc \in UpdateLabels \cup FreeLabels \/ journal.op = "update"
  BY DEF RecoverUpdateStep, UpdateLabels, ForwardLabels, StagingLabels, DetachedLabels,
     ActivatedLabels, AttachedLabels, CommitLabels, FirstLabels, BackLabels, CleanLabels,
     FreeLabels, RecoverUpdate, RecoverReceipt, RecoverRetired, RecoverFirst, RecoverFirstData,
     QuarantineTarget, AbandonFirst, RecoverTargetData, RecoverPreviousData, RecoverSwap,
     RecoverIncoming, RecoverPrior, RecoverFinish

LEMMA NotRollback ==
  ASSUME ControlInv, UpdateStep \/ RecoverUpdateStep PROVE journal.op # "rollback"
  BY UpdateStepLabels, RecoverUpdateStepLabels, FreeFacts DEF ControlInv, Pending

LEMMA UpdateRoutineDb ==
  ASSUME TypeOK, ControlInv, Custody, Sound', Survive, DbInv, UpdateStep \/ RecoverUpdateStep,
         Routine
  PROVE  DbInv'
  <1>1. Onward
    BY NotRollback, NotOnward DEF Routine, Frame
  <1> QED BY <1>1, RoutineDb DEF Custody
LEMMA UpdateStepDb ==
  ASSUME TypeOK, ControlInv, Custody, Sound', Survive, DbInv, UpdateStep PROVE DbInv'
  BY UpdateRoutineDb, UpdateStepRoutine, BeginUpdateDb, WritePreparedDb, SealDataDb,
     WriteDataAttachedDb, WriteSlotPreparedDb, WriteSlotReceiptedDb, UpdateEndsDb
    DEF Custody
LEMMA RecoverUpdateStepDb ==
  ASSUME TypeOK, ControlInv, Custody, Sound', Survive, DbInv, RecoverUpdateStep PROVE DbInv'
  BY UpdateRoutineDb, RecoverUpdateStepRoutine, RecoverRetiredDb, FirstStepsDb, UpdateEndsDb,
     RecoverPriorDb
    DEF Custody

LEMMA RollbackEndsDb ==
  ASSUME TypeOK, ControlInv, Survive, DbInv,
         RecoverCompleted \/ FinishRecoveredRollback \/ FinishRollback \/ FinishReversal
  PROVE  DbInv'
  <1>1. CASE RemoveJournal /\ pc' \notin DbLabels
    BY <1>1, RemovedDb
  <1>2. CASE Refuse
    BY <1>2, QuietDb DEF Refuse, Stop, DbLabels
  <1> QED BY <1>1, <1>2, AfterRemoval
            DEF RecoverCompleted, FinishRecoveredRollback, FinishRollback, FinishReversal, Stop,
                DbLabels
LEMMA RollbackStepDb ==
  ASSUME TypeOK, ControlInv, Custody, Sound', Survive, DbInv, RollbackStep PROVE DbInv'
  BY RoutineDb, RollbackStepRoutine, RollbackStepOnward, RollbackProbePassesDb,
     PreserveDatabaseDb, PickDatabaseDb, WriteRollbackPreparedDb, SelectStepsDb,
     WriteRollbackDataAttachedDb, RollbackEndsDb
    DEF Custody
LEMMA RecoverRollbackStepDb ==
  ASSUME TypeOK, ControlInv, Custody, Sound', Survive, DbInv, RecoverRollbackStep PROVE DbInv'
  BY RoutineDb, RecoverRollbackStepRoutine, RecoverRollbackStepOnward, RecoverRollbackDb,
     RollbackEndsDb, RecoverAbortedDb, SelectStepsDb, RecoverDatabaseDb, RecoverAttachDb
    DEF Custody
LEMMA ReverseStepDb ==
  ASSUME TypeOK, ControlInv, Custody, Sound', Survive, DbInv, ReverseStep PROVE DbInv'
  BY RoutineDb, ReverseStepRoutine, ReverseStepOnward, ReverseDataDb, ReverseAttachDb,
     ReverseOriginalDb, RollbackEndsDb
    DEF Custody

LEMMA InitDb == Init => DbInv
  BY DEF Init, DbInv, SealedDb, LandedDb, NoJournal

LEMMA NextDb ==
  ASSUME "disturbance" \notin Hazards, AllInv, DbInv, [Next]_vars PROVE DbInv'
  <1>1. TypeOK /\ ControlInv /\ Custody /\ Custody' /\ Survive
    BY NextCustody DEF AllInv
  <1>2. Sound'
    BY <1>1 DEF Custody
  <1>3. CASE InvokeUpdate \/ InvokeRollback \/ InvokeRecovery \/ Crash
    <2>1. UNCHANGED disk /\ pc' \in {"idle", "main", "recover"}
      BY <1>3 DEF InvokeUpdate, InvokeRollback, InvokeRecovery, Invoke, Crash, disk
    <2> QED BY <1>1, <2>1, QuietDb DEF DbLabels
  <1>4. CASE UseAtlas
    BY <1>4, OpenedDb DEF UseAtlas, Pending, DbLabels
  <1>5. CASE Script
    BY <1>1, <1>2, <1>5, UpdateStepDb, RecoverUpdateStepDb, RollbackStepDb,
       RecoverRollbackStepDb, ReverseStepDb
      DEF Script
  <1>6. CASE UNCHANGED vars
    BY <1>6, StillData
      DEF vars, DbInv, SealedDb, DbRollback, LandedDb, NotYet, Before, After, Switched,
          Reversing, HasData, HadActive, Committed, SlotReceipt, KeptBackup
  <1> QED BY <1>3, <1>4, <1>5, <1>6 DEF Next, Disturb

-----------------------------------------------------------------------------
(* The database a rollback replaces is kept.                                *)
LEMMA DbAlways == ASSUME "disturbance" \notin Hazards PROVE Spec => []DbInv
  <1>1. Init => DbInv
    BY InitDb
  <1>2. AllInv /\ DbInv /\ [Next]_vars => DbInv'
    BY NextDb
  <1> QED BY <1>1, <1>2, AllInvAlways, PTL DEF Spec

(* The journal stays what it is at the labels where the database may be     *)
(* replaced.                                                                *)
LEMMA UpdateStepReplacer ==
  ASSUME TypeOK, ControlInv, UpdateStep, pc \in Replacers PROVE UNCHANGED journal
  BY UpdateStepRoutine
    DEF Routine, Replacers, EnsureSelected, RestoreOriginal, MoveTreeExact, MoveDataExact,
        Refuse, SameFiles, disk, BeginUpdate, WritePrepared, SealData, WriteDataAttached,
        WriteSlotPrepared, WriteSlotReceipted, FinishUpdate

LEMMA RecoverUpdateStepReplacer ==
  ASSUME TypeOK, ControlInv, RecoverUpdateStep, pc \in Replacers PROVE UNCHANGED journal
  BY RecoverUpdateStepRoutine
    DEF Routine, Replacers, EnsureSelected, RestoreOriginal, MoveTreeExact, MoveDataExact,
        Refuse, SameFiles, disk, RecoverRetired, RecoverFirstData, QuarantineTarget,
        AbandonFirst, RecoverPrior, RecoverFinish

LEMMA RollbackStepReplacer ==
  ASSUME TypeOK, ControlInv, RollbackStep, pc \in Replacers PROVE UNCHANGED journal
  BY RollbackStepRoutine
    DEF Routine, Replacers, EnsureSelected, RestoreOriginal, MoveTreeExact, MoveDataExact,
        Refuse, SameFiles, disk, RollbackProbePasses, PreserveDatabase, PickDatabase,
        WriteRollbackPrepared, SelectDatabase, WriteRollbackDataAttached, FinishRollback

LEMMA RecoverRollbackStepReplacer ==
  ASSUME TypeOK, ControlInv, RecoverRollbackStep, pc \in Replacers PROVE UNCHANGED journal
  BY RecoverRollbackStepRoutine
    DEF Routine, Replacers, EnsureSelected, RestoreOriginal, MoveTreeExact, MoveDataExact,
        Refuse, SameFiles, disk, RecoverRollback, RecoverCompleted, RecoverAborted,
        RecoverSelect, RecoverDatabase, RecoverAttach, FinishRecoveredRollback

LEMMA ReverseStepReplacer ==
  ASSUME TypeOK, ControlInv, ReverseStep, pc \in Replacers PROVE UNCHANGED journal
  BY ReverseStepRoutine
    DEF Routine, Replacers, EnsureSelected, RestoreOriginal, MoveTreeExact, MoveDataExact,
        Refuse, SameFiles, disk, ReverseData, ReverseAttach, ReverseOriginal, FinishReversal

LEMMA ReplacerStep ==
  ASSUME TypeOK, ControlInv, [Next]_vars, pc \in Replacers PROVE UNCHANGED journal
  <1>1. CASE Script
    BY <1>1, UpdateStepReplacer, RecoverUpdateStepReplacer, RollbackStepReplacer,
       RecoverRollbackStepReplacer, ReverseStepReplacer
      DEF Script
  <1>2. CASE \/ InvokeUpdate \/ InvokeRollback \/ InvokeRecovery \/ Crash \/ UseAtlas \/ Disturb
             \/ UNCHANGED vars
    BY <1>2
      DEF InvokeUpdate, InvokeRollback, InvokeRecovery, Invoke, Crash, UseAtlas, Disturb, vars
  <1> QED BY <1>1, <1>2 DEF Next

LEMMA ReplacerFacts ==
  ASSUME TypeOK, ControlInv, pc \in Replacers PROVE journal.op = "rollback"
  BY RollbackPointFacts DEF Replacers, RollbackPoints

(* A step that replaces the client's database, other than Atlas itself,     *)
(* leaves a copy of what it replaces among the client's backups.            *)
THEOREM DatabaseKept ==
  ASSUME "disturbance" \notin Hazards PROVE Spec => ReplacedDatabaseIsKept
  <1> DEFINE Copied == \E p \in Held' : \E k \in data'[p].kept : k[2] = ClientDb
             Step == ClientDb' # ClientDb /\ edits' = edits => Copied
  <1>1. AllInv /\ KeptInv /\ DbInv /\ [Next]_vars => Step
    <2> SUFFICES ASSUME AllInv, KeptInv, DbInv, [Next]_vars, ClientDb' # ClientDb, edits' = edits
                 PROVE  Copied
      OBVIOUS
    <2>1. /\ TypeOK /\ ControlInv /\ Custody /\ Custody' /\ Survive /\ Sound /\ Sound'
          /\ DbInv'
      BY NextCustody, NextDb DEF AllInv, Custody
    <2>2. pc \in Replacers
      BY <2>1, KeptData
    <2>3. journal.op = "rollback" /\ UNCHANGED journal
      BY <2>1, <2>2, ReplacerFacts, ReplacerStep
    <2>4. ClientDb \in {journal.orig, journal.sel} /\ ClientDb' \in {journal.orig, journal.sel}
      BY <2>1, <2>3 DEF DbInv, DbRollback
    <2>5. /\ journal.orig # 0 /\ journal.sel # 0 /\ journal.sel = receipt.backup
          /\ KeptBackup(journal.run, journal.orig)
      BY <2>3, <2>4 DEF DbInv, DbRollback
    <2>6. \E r : KeptBackup(r, ClientDb)
      BY <2>4, <2>5 DEF KeptInv
    <2>7. PICK r : KeptBackup(r, ClientDb)
      BY <2>6
    <2>8. PICK p \in Places : IsClient(data[p]) /\ <<r, ClientDb>> \in data[p].kept
      BY <2>4, <2>5, <2>7 DEF KeptBackup
    <2>9. PICK q \in Places : IsClient(data'[q]) /\ data[p].kept \subseteq data'[q].kept
      BY <2>1, <2>8 DEF Survive
    <2>10. q \in Held' /\ <<r, ClientDb>> \in data'[q].kept
      BY <2>8, <2>9 DEF Held, IsClient
    <2> QED BY <2>10
  <1>2. AllInv /\ KeptInv /\ DbInv /\ [Next]_vars => [Step]_vars
    BY <1>1
  <1> QED BY <1>2, AllInvAlways, KeptAlways, DbAlways, PTL DEF Spec, ReplacedDatabaseIsKept

-----------------------------------------------------------------------------
(* The transaction implements the atomic one.  Most steps are none of its   *)
(* steps: what the mapping reads of the disk stays, and so does the         *)
(* client's database, or a rollback is under way that will decide it.       *)
Stutter == UNCHANGED Release!vars

LEMMA Stutters ==
  ASSUME TypeOK, ControlInv, Frame, journal.op # "rollback" => ClientDb' = ClientDb PROVE
         Stutter
  <1>1. journal'.op = journal.op /\ (Pending' <=> Pending)
    BY DEF Frame, Pending
  <1>2. ~Pending => ~Committed
    BY DEF ControlInv, NoJournal, Committed
  <1>3. CASE ~Pending
    BY <1>1, <1>2, <1>3 DEF Stutter, Release!vars, Frame, Pending
  <1>4. CASE Pending
    BY <1>1, <1>4 DEF Stutter, Release!vars, Frame
  <1> QED BY <1>3, <1>4

LEMMA DiskStutters == ASSUME UNCHANGED disk PROVE Stutter
  <1>1. ClientDb' = ClientDb
    BY StillData DEF disk
  <1> QED BY <1>1 DEF Stutter, Release!vars, disk, Pending, Committed

LEMMA FrameStutters ==
  ASSUME TypeOK, ControlInv, Sound, Sound', Survive, Frame PROVE Stutter
  <1>1. journal.op # "rollback" => ClientDb' = ClientDb
    BY ReplacerFacts, KeptData DEF Frame
  <1> QED BY <1>1, Stutters

(* Which steps are none of the atomic ones.                                 *)
USE DEF Frame, Stop, Refuse, Goto, SameBounds, SameFiles, SameSlots, disk, PutData,
    MoveTree, MoveData, WriteState, TypeOK, Journal, Slots, Places, Committed, FreeLabels,
    CommitLabels

LEMMA UpdateStepFrame ==
  ASSUME TypeOK, ControlInv, UpdateStep
  PROVE  Frame \/ UNCHANGED disk \/ BeginUpdate \/ WritePrepared \/ WriteSlotPrepared \/
         FinishUpdate
  <1>1. CASE SealData
    BY <1>1, LabelFacts DEF SealData
  <1>2. CASE WriteDataAttached
    BY <1>2, LabelFacts DEF WriteDataAttached
  <1>3. CASE WriteSlotReceipted
    BY <1>3, LabelFacts DEF WriteSlotReceipted
  <1> HIDE DEF Frame, disk
  <1> QED BY <1>1, <1>2, <1>3, UpdateStepRoutine DEF Routine

LEMMA RecoverUpdateStepFrame ==
  ASSUME TypeOK, ControlInv, RecoverUpdateStep
  PROVE  Frame \/ UNCHANGED disk \/ AbandonFirst \/ RecoverFinish
  <1>1. CASE RecoverRetired
    BY <1>1, LabelFacts DEF Shred, RecoverRetired
  <1>2. CASE RecoverFirstData
    BY <1>2, LabelFacts DEF RecoverFirstData
  <1>3. CASE QuarantineTarget
    BY <1>3, LabelFacts DEF MoveTreeExact, QuarantineTarget
  <1>4. CASE RecoverPrior
    BY <1>4, LabelFacts DEF MoveTreeExact, RecoverPrior
  <1> HIDE DEF Frame, disk
  <1> QED BY <1>1, <1>2, <1>3, <1>4, RecoverUpdateStepRoutine DEF Routine

LEMMA RollbackStepFrame ==
  ASSUME TypeOK, ControlInv, RollbackStep
  PROVE  Frame \/ UNCHANGED disk \/ WriteRollbackPrepared \/ FinishRollback
  <1>1. CASE RollbackProbePasses
    BY <1>1, LabelFacts DEF RollbackProbePasses
  <1>2. CASE PreserveDatabase
    BY <1>2, LabelFacts DEF PreserveDatabase
  <1>3. CASE PickDatabase
    BY <1>3, LabelFacts DEF PickDatabase
  <1>4. CASE SelectDatabase
    BY <1>4, LabelFacts DEF EnsureSelected, SelectDatabase
  <1>5. CASE WriteRollbackDataAttached
    BY <1>5, LabelFacts DEF WriteRollbackDataAttached
  <1> HIDE DEF Frame, disk
  <1> QED BY <1>1, <1>2, <1>3, <1>4, <1>5, RollbackStepRoutine DEF Routine

LEMMA RecoverRollbackStepFrame ==
  ASSUME TypeOK, ControlInv, RecoverRollbackStep
  PROVE  Frame \/ UNCHANGED disk \/ RecoverCompleted \/ RecoverAborted \/
         FinishRecoveredRollback
  <1>1. CASE RecoverRollback
    BY <1>1, LabelFacts DEF RollbackBranch, RecoverRollback
  <1>2. CASE RecoverSelect
    BY <1>2, LabelFacts DEF EnsureSelected, RecoverSelect
  <1>3. CASE RecoverDatabase
    BY <1>3, LabelFacts DEF EnsureSelected, RecoverDatabase
  <1>4. CASE RecoverAttach
    BY <1>4, LabelFacts DEF MoveDataExact, RecoverAttach
  <1> HIDE DEF Frame, disk
  <1> QED BY <1>1, <1>2, <1>3, <1>4, RecoverRollbackStepRoutine DEF Routine

LEMMA ReverseStepFrame ==
  ASSUME TypeOK, ControlInv, ReverseStep
  PROVE  Frame \/ UNCHANGED disk \/ FinishReversal
  <1>1. CASE ReverseData
    BY <1>1, LabelFacts DEF RestoreOriginal, ReverseData
  <1>2. CASE ReverseAttach
    BY <1>2, LabelFacts DEF MoveDataExact, ReverseAttach
  <1>3. CASE ReverseOriginal
    BY <1>3, LabelFacts DEF RestoreOriginal, ReverseOriginal
  <1> HIDE DEF Frame, disk
  <1> QED BY <1>1, <1>2, <1>3, ReverseStepRoutine DEF Routine

HIDE DEF Frame, Stop, Refuse, Goto, SameBounds, SameFiles, SameSlots, disk, PutData,
    MoveTree, MoveData, WriteState, TypeOK, Journal, Slots, Places, Committed, FreeLabels,
    CommitLabels

(* What the mapping reads, by the journal.                                  *)
LEMMA MappedFree ==
  /\ ~Pending => Release!vars = <<tree["target"], tree["previous"], ClientDb,
                                  IF Committed THEN journal.orig ELSE receipt.backup>>
  /\ ~Pending' => Release!vars' = <<tree'["target"], tree'["previous"], ClientDb',
                                    IF Committed' THEN journal'.orig ELSE receipt'.backup>>
  BY DEF Release!vars, Pending

LEMMA MappedUpdate ==
  /\ journal.op = "update" /\ ~Committed =>
        Release!vars = <<journal.active, journal.prior, ClientDb, receipt.backup>>
  /\ journal'.op = "update" /\ ~Committed' =>
        Release!vars' = <<journal'.active, journal'.prior, ClientDb', receipt'.backup>>
  BY DEF Release!vars, Pending

LEMMA MappedCommitted ==
  /\ journal.op = "update" /\ Committed =>
        Release!vars = <<journal.cand, journal.active, ClientDb, journal.orig>>
  /\ journal'.op = "update" /\ Committed' =>
        Release!vars' = <<journal'.cand, journal'.active, ClientDb', journal'.orig>>
  BY DEF Release!vars, Pending

LEMMA MappedRollback ==
  /\ journal.op = "rollback" /\ ~Committed =>
        Release!vars = <<journal.active, journal.cand, journal.orig, receipt.backup>>
  /\ journal'.op = "rollback" /\ ~Committed' =>
        Release!vars' = <<journal'.active, journal'.cand, journal'.orig, receipt'.backup>>
  BY DEF Release!vars, Pending

(* The steps that write what the mapping reads.                             *)
LEMMA BeginUpdateMapped ==
  ASSUME TypeOK, ControlInv, Sound, Sound', Survive, BeginUpdate PROVE Stutter
  <1>1. CASE Refuse
    BY <1>1, DiskStutters DEF Refuse
  <1>2. CASE ~Refuse
    <2>1. ~Pending /\ journal = NoJournal
      BY FreeFacts DEF BeginUpdate, FreeLabels
    <2>2. ~Committed
      BY <2>1 DEF NoJournal, Committed
    <2>3. /\ journal'.op = "update" /\ ~Committed' /\ receipt' = receipt /\ edits' = edits
          /\ journal'.active = tree["target"] /\ journal'.prior = tree["previous"]
      BY <1>2 DEF BeginUpdate, NoJournal, Committed
    <2>4. ClientDb' = ClientDb
      BY <2>3, KeptData DEF BeginUpdate, Replacers
    <2> QED BY <2>1, <2>2, <2>3, <2>4, MappedFree, MappedUpdate DEF Stutter
  <1> QED BY <1>1, <1>2

LEMMA WritePreparedMapped == ASSUME TypeOK, ControlInv, WritePrepared PROVE Stutter
  <1>1. journal.op = "update" /\ ~Committed
    BY ForwardFacts DEF WritePrepared, ForwardLabels, StagingLabels
  <1>2. /\ UNCHANGED <<journal.op, journal.active, journal.prior>> /\ journal'.phase = "prepared"
        /\ UNCHANGED <<data, receipt>>
    BY DEF WritePrepared, TypeOK, Journal
  <1>3. ~Committed' /\ ClientDb' = ClientDb
    BY <1>2, StillData DEF Committed
  <1> QED BY <1>1, <1>2, <1>3, MappedUpdate DEF Stutter

LEMMA WriteRollbackPreparedMapped ==
  ASSUME TypeOK, ControlInv, Custody, WriteRollbackPrepared PROVE Stutter
  <1>1. ~Pending /\ journal = NoJournal /\ UNCHANGED <<tree, data, receipt>>
    BY FreeFacts DEF WriteRollbackPrepared, FreeLabels
  <1>2. ~Committed
    BY <1>1 DEF NoJournal, Committed
  <1>3. /\ journal'.op = "rollback" /\ ~Committed' /\ journal'.orig = data["target"].db
        /\ journal'.active = tree["target"] /\ journal'.cand = tree["previous"]
    BY DEF WriteRollbackPrepared, NoJournal, Committed
  <1>4. ClientDb = data["target"].db
    BY <1>1, DbIn DEF Custody, DiskInv, RestDisk, Places, Slots
  <1> QED BY <1>1, <1>2, <1>3, <1>4, MappedFree, MappedRollback DEF Stutter

(* An update commits with the rollback-slot receipt.                        *)
LEMMA WriteSlotPreparedMapped ==
  ASSUME TypeOK, ControlInv, Custody, DbInv, WriteSlotPrepared PROVE Release!Update
  <1>1. journal.op = "update" /\ ~Committed /\ HadActive /\ journal.cand \in Apps
    BY ForwardFacts DEF WriteSlotPrepared, ForwardLabels, AttachedLabels, ControlInv
  <1>2. /\ UNCHANGED <<journal.op, journal.active, journal.cand, journal.orig>>
        /\ journal'.phase = "rollback_slot_prepared" /\ UNCHANGED <<data, receipt>>
    BY DEF WriteSlotPrepared, WriteState, TypeOK, Journal
  <1>3. Committed' /\ ClientDb' = ClientDb
    BY <1>2, StillData DEF Committed
  <1>4. data["target"] = journal.sealed /\ journal.sealed # NoData
    BY DEF Custody, ForwardInv, WriteSlotPrepared, AttachedLabels, HasData, NoData, Plain
  <1>5. ClientDb = data["target"].db
    <2>1. ClientIn({}) \/ IsClient(data["target"])
      BY <1>1, <1>4 DEF Custody, DiskInv, UpdateDisk, SwitchDisk, SwitchData
    <2>2. ClientIn({"target"}) \/ IsClient(data["target"])
      BY <2>1 DEF ClientIn
    <2> QED BY <2>2, DbIn, DbAt DEF Custody, Places, Slots
  <1>6. ClientDb = journal.orig
    BY <1>1, <1>4, <1>5 DEF DbInv, SealedDb
  <1> QED BY <1>1, <1>2, <1>3, <1>6 DEF Release!Update, Pending, HadActive

(* The journal is removed.                                                  *)
LEMMA RemovalFacts ==
  ASSUME RemoveJournal
  PROVE  /\ ~Pending' /\ UNCHANGED <<tree, data, receipt>> /\ ClientDb' = ClientDb
         /\ Release!vars' = <<tree["target"], tree["previous"], ClientDb, receipt.backup>>
  <1>1. ~Pending' /\ ~Committed' /\ UNCHANGED <<tree, data, receipt>>
    BY DEF RemoveJournal, NoJournal, Pending, Committed
  <1>2. ClientDb' = ClientDb
    BY <1>1, StillData
  <1> QED BY <1>1, <1>2, MappedFree

LEMMA UpdateRemoves ==
  ASSUME TypeOK, ControlInv, Custody, DbInv, RemoveJournal, pc \in {"finish", "r_finish"}
  PROVE  Stutter \/ Release!Install
  <1>1. journal.op = "update" /\ UpdateDisk /\ RestDisk
    BY DEF ControlInv, UpdateLabels, Custody, DiskInv, RecoverInv
  <1>5. ~Committed'
    BY DEF RemoveJournal, NoJournal, Committed
  <1>2. CASE HadActive /\ Committed
    <2>1. CommittedDisk /\ receipt = SlotReceipt
      BY <1>1, <1>2 DEF UpdateDisk, DbInv, LandedDb
    <2> QED BY <1>1, <1>2, <2>1, RemovalFacts, MappedCommitted
              DEF Stutter, CommittedDisk, SlotReceipt
  <1>3. CASE HadActive /\ ~Committed
    <2>1. tree["target"] = journal.active /\ tree["previous"] = journal.prior
      BY <1>3 DEF DbInv, LandedDb
    <2> QED BY <1>1, <1>3, <2>1, RemovalFacts, MappedUpdate DEF Stutter
  <1>4. CASE ~HadActive
    <2>1. ~Committed /\ journal.active = NoApp /\ journal.prior = NoApp /\ tree["previous"] = NoApp
      BY <1>1, <1>4 DEF ControlInv, UpdateDisk, FirstDisk, HadActive
    <2>2. CASE tree["target"] = NoApp
      BY <1>1, <2>1, <2>2, RemovalFacts, MappedUpdate DEF Stutter
    <2>3. CASE tree["target"] \in Apps
      BY <1>1, <2>1, <2>3, <1>5, RemovalFacts DEF Release!Install, Pending
    <2> QED BY <1>1, <2>2, <2>3 DEF RestDisk, Releases
  <1> QED BY <1>2, <1>3, <1>4

LEMMA AbandonMapped == ASSUME TypeOK, ControlInv, Custody, AbandonFirst PROVE Stutter
  <1>1. journal.op = "update" /\ ~Committed /\ journal.active = NoApp
    BY FirstFacts DEF AbandonFirst, FirstLabels, HadActive
  <1>2. journal.prior = NoApp /\ tree["previous"] = NoApp /\ tree["target"] = NoApp
    BY <1>1 DEF Custody, DiskInv, UpdateDisk, FirstDisk, HadActive, RecoverInv, AbandonFirst
  <1> QED BY <1>1, <1>2, RemovalFacts, MappedUpdate DEF Stutter, AbandonFirst

(* A rollback takes effect, with the database it found or the one it        *)
(* selected.                                                                *)
LEMMA RollbackRemoves ==
  ASSUME TypeOK, ControlInv, Custody, DbInv, RemoveJournal, journal.op = "rollback", Switched
  PROVE  Release!Rollback
  <1>1. ~Committed /\ journal.cand \in Apps /\ journal.cand # NoApp
    BY AppsAssumption DEF ControlInv, Custody, DiskInv, RollbackDisk
  <1>2. /\ ClientDb \in {journal.orig, journal.sel}
        /\ journal.sel # journal.orig => journal.sel # 0 /\ journal.sel = receipt.backup
    BY DEF DbInv, DbRollback
  <1>3. tree["target"] = journal.cand /\ tree["previous"] = NoApp
    BY DEF Switched, After
  <1>4. ~Committed'
    BY DEF RemoveJournal, NoJournal, Committed
  <1> QED BY <1>1, <1>2, <1>3, <1>4, RemovalFacts DEF Release!Rollback, Pending

LEMMA ReversalRemoves ==
  ASSUME TypeOK, ControlInv, RemoveJournal, journal.op = "rollback", Before, ClientDb =
         journal.orig
  PROVE  Stutter
  <1>1. ~Committed
    BY DEF ControlInv
  <1> QED BY <1>1, RemovalFacts, MappedRollback DEF Stutter, Before

(* Atlas itself writes the database.                                        *)
LEMMA UseAtlasMapped == ASSUME TypeOK, ControlInv, Sound', UseAtlas PROVE Release!Write
  <1>1. ~Pending /\ journal = NoJournal /\ UNCHANGED <<journal, tree, receipt>> /\ tree["target"] # NoApp
    BY DEF UseAtlas, ControlInv, PutData
  <1>2. ~Committed /\ ~Pending' /\ ~Committed'
    BY <1>1 DEF NoJournal, Committed, Pending
  <1>3. "target" \in Places /\ data["target"] \in Data
    BY DEF TypeOK, Places, Slots
  <1>4. data'["target"] = [data["target"] EXCEPT !.kind = "client", !.db = edits + 1]
    BY <1>3 DEF UseAtlas, PutData, TypeOK
  <1>5. IsClient(data'["target"]) /\ data'["target"].db = edits + 1
    BY <1>3, <1>4 DEF Data, IsClient
  <1>6. ClientDb' = edits + 1
    BY <1>3, <1>5, DbAtNext
  <1>7. edits + 1 \in 1..MaxDb
    BY BoundsAssumption DEF UseAtlas, TypeOK, Dbs
  <1> QED BY <1>1, <1>2, <1>6, <1>7 DEF Release!Write, Pending

(* Every step.                                                              *)
Mapped == Release!Next \/ Stutter

LEMMA FrameMapped ==
  ASSUME TypeOK, ControlInv, Custody, Sound', Survive, Frame \/ UNCHANGED disk PROVE Mapped
  BY FrameStutters, DiskStutters DEF Custody, Mapped

LEMMA UpdateStepMapped ==
  ASSUME TypeOK, ControlInv, Custody, Sound', Survive, DbInv, UpdateStep PROVE Mapped
  <1>1. CASE FinishUpdate
    BY <1>1, UpdateRemoves DEF FinishUpdate, Mapped, Release!Next
  <1>2. CASE BeginUpdate \/ WritePrepared \/ WriteSlotPrepared
    BY <1>2, BeginUpdateMapped, WritePreparedMapped, WriteSlotPreparedMapped
      DEF Mapped, Release!Next, Custody
  <1> QED BY <1>1, <1>2, UpdateStepFrame, FrameMapped

LEMMA RecoverUpdateStepMapped ==
  ASSUME TypeOK, ControlInv, Custody, Sound', Survive, DbInv, RecoverUpdateStep PROVE Mapped
  <1>1. CASE RecoverFinish
    BY <1>1, UpdateRemoves DEF RecoverFinish, Mapped, Release!Next
  <1>2. CASE AbandonFirst
    BY <1>2, AbandonMapped DEF Mapped
  <1> QED BY <1>1, <1>2, RecoverUpdateStepFrame, FrameMapped

LEMMA RollbackStepMapped ==
  ASSUME TypeOK, ControlInv, Custody, Sound', Survive, DbInv, RollbackStep PROVE Mapped
  <1>1. CASE FinishRollback
    <2>1. journal.op = "rollback" /\ RemoveJournal /\ pc = "rb_finish"
      BY <1>1, RollbackPointFacts DEF FinishRollback, RollbackPoints
    <2>2. Switched
      BY <2>1 DEF DbInv, LandedDb
    <2> QED BY <2>1, <2>2, RollbackRemoves DEF Mapped, Release!Next
  <1>2. CASE WriteRollbackPrepared
    BY <1>2, WriteRollbackPreparedMapped DEF Mapped
  <1> QED BY <1>1, <1>2, RollbackStepFrame, FrameMapped

LEMMA RecoverRollbackStepMapped ==
  ASSUME TypeOK, ControlInv, Custody, Sound', Survive, DbInv, RecoverRollbackStep PROVE Mapped
  <1>1. CASE RecoverCompleted \/ FinishRecoveredRollback
    <2>1. journal.op = "rollback" /\ Switched
      BY <1>1, RollbackPointFacts
        DEF RecoverCompleted, FinishRecoveredRollback, RollbackPoints, DbInv, LandedDb
    <2>2. RemoveJournal \/ UNCHANGED disk
      BY <1>1 DEF RecoverCompleted, FinishRecoveredRollback, Refuse
    <2> QED BY <2>1, <2>2, RollbackRemoves, FrameMapped DEF Mapped, Release!Next
  <1>2. CASE RecoverAborted
    <2>1. journal.op = "rollback" /\ Before /\ ClientDb = journal.orig /\ Pending
      BY <1>2, RollbackPointFacts DEF RecoverAborted, RollbackPoints, DbInv, LandedDb, Pending
    <2>2. CASE RemoveJournal
      BY <2>1, <2>2, ReversalRemoves DEF Mapped
    <2>3. CASE UNCHANGED <<journal, receipt, edits>>
      BY <2>1, <2>3, JournalFrame, FrameMapped
    <2> QED BY <1>2, <2>2, <2>3 DEF RecoverAborted, SameFiles, Goto, SameBounds
  <1> QED BY <1>1, <1>2, RecoverRollbackStepFrame, FrameMapped

LEMMA ReverseStepMapped ==
  ASSUME TypeOK, ControlInv, Custody, Sound', Survive, DbInv, ReverseStep PROVE Mapped
  <1>1. CASE FinishReversal
    <2>1. journal.op = "rollback" /\ Before /\ ClientDb = journal.orig /\ RemoveJournal
      BY <1>1, RollbackPointFacts DEF FinishReversal, RollbackPoints, DbInv, LandedDb
    <2> QED BY <2>1, ReversalRemoves DEF Mapped
  <1> QED BY <1>1, ReverseStepFrame, FrameMapped

LEMMA NextMapped ==
  ASSUME "disturbance" \notin Hazards, AllInv, DbInv, [Next]_vars PROVE Mapped
  <1>1. TypeOK /\ ControlInv /\ Custody /\ Survive /\ Sound'
    BY NextCustody DEF AllInv, Custody
  <1>2. CASE InvokeUpdate \/ InvokeRollback \/ InvokeRecovery \/ Crash \/ UNCHANGED vars
    <2>1. UNCHANGED disk
      BY <1>2 DEF InvokeUpdate, InvokeRollback, InvokeRecovery, Invoke, Crash, vars, disk
    <2> QED BY <1>1, <2>1, FrameMapped
  <1>3. CASE UseAtlas
    BY <1>1, <1>3, UseAtlasMapped DEF Mapped, Release!Next
  <1>4. CASE Script
    BY <1>1, <1>4, UpdateStepMapped, RecoverUpdateStepMapped, RollbackStepMapped,
       RecoverRollbackStepMapped, ReverseStepMapped
      DEF Script
  <1> QED BY <1>2, <1>3, <1>4 DEF Next, Disturb

LEMMA InitMapped == Init => Release!Init
  <1> SUFFICES ASSUME Init PROVE Release!Init
    OBVIOUS
  <1>1. ~Pending /\ ~Committed /\ journal.op = "none" /\ receipt.backup = 0
    BY DEF Init, NoJournal, NoReceipt, Pending, Committed
  <1>2. tree["target"] \in Apps \cup {NoApp} /\ tree["previous"] = NoApp
    BY DEF Init, Slots
  <1>3. ClientDb = 0
    <2>1. \A p \in Places : ~IsClient(data[p])
      BY DEF Init, NoData, Empty, Plain, IsClient
    <2> QED BY <2>1, DbNone
  <1> QED BY <1>1, <1>2, <1>3 DEF Release!Init

(* An update and a rollback are single steps to the operator: whatever is   *)
(* interrupted, refused, recovered or reversed, the active release, the one *)
(* a rollback returns to, the database and its copy go through a history of *)
(* the atomic release.                                                      *)
THEOREM ReleaseImplemented ==
  ASSUME "disturbance" \notin Hazards PROVE Spec => ImplementsAtomicRelease
  <1>1. Init => Release!Init
    BY InitMapped
  <1>2. AllInv /\ DbInv /\ [Next]_vars => [Release!Next]_(Release!vars)
    BY NextMapped DEF Mapped, Stutter
  <1> QED BY <1>1, <1>2, AllInvAlways, DbAlways, PTL
            DEF Spec, ImplementsAtomicRelease, Release!Spec
=============================================================================
