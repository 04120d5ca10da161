------------------------- MODULE SnapshotStoreProofs ------------------------
(***************************************************************************)
(* The two parts of the snapshot store's boot.  Carriage upgrade: a        *)
(* projection was prepared from the bytes that were sealed, and no seal    *)
(* and no completed projection is made again, for any number of processes, *)
(* snapshots and changes behind the program's back.  Copies: a rotation    *)
(* leaves Keep newer names above what it unlinks, for any number of        *)
(* processes, whatever the clock does; a folder with a campaign in it is   *)
(* never left without one; and a boot that says the store is copied leaves *)
(* a copy as new as what it opened.                                        *)
(***************************************************************************)
EXTENDS CarriageUpgrade, StoreBackups, FiniteSetTheorems, WellFoundedInduction, TLAPS

(* Before the migration no row has a marker, and a process past its own    *)
(* migration has seen it done.                                             *)
Unmarked == schema # "v2" => \A i \in DOMAIN rows : rows[i].version = "unmarked"
OpenedIsMigrated == \A p \in Procs : proc[p].pc \notin {"off", "inspected"} => schema = "v2"

IInv == CarriageTypeOK /\ Unmarked /\ OpenedIsMigrated /\ PartsAreOfTheSeal

-----------------------------------------------------------------------------
LEMMA InitInv == CarriageInit => IInv
<1> SUFFICES ASSUME CarriageInit PROVE IInv
  OBVIOUS
<1>1. CarriageTypeOK
  <2>1. DOMAIN rows = 1 .. Stored /\ 1 .. Stored \subseteq Ids /\ Stored \in 0 .. MaxId
    BY CarriageAssumption DEF CarriageInit, Ids
  <2>2. 0 \in Edits /\ 0 \in 0 .. MaxId /\ 0 \in 0 .. MaxKills /\ 0 \in 0 .. MaxDeletes
    BY CarriageAssumption DEF Edits
  <2>3. rows \in [DOMAIN rows -> CarriageRow]
    BY <2>2 DEF CarriageInit, CarriageRow, Part, Unsealed
  <2>4. proc \in [Procs -> Process]
    BY <2>2 DEF CarriageInit, Process, Closed, Phases, Refusals
  <2>5. used \in [kills : 0 .. MaxKills, deletes : 0 .. MaxDeletes, tampers : 0 .. MaxTampers]
    BY CarriageAssumption DEF CarriageInit
  <2> QED BY <2>1, <2>3, <2>4, <2>5 DEF CarriageInit, CarriageTypeOK
<1>2. Unmarked /\ OpenedIsMigrated /\ PartsAreOfTheSeal
  BY DEF CarriageInit, Unmarked, OpenedIsMigrated, PartsAreOfTheSeal, Closed
<1> QED BY <1>1, <1>2 DEF IInv

(* Moving a process, refusing it or ending it keeps its type.              *)
LEMMA Moves ==
  ASSUME CarriageTypeOK, NEW p \in Procs
  PROVE  /\ \A phase \in Phases : Goto(p, phase) => proc' \in [Procs -> Process]
         /\ \A why \in Refusals : Refuse(p, why) => proc' \in [Procs -> Process]
         /\ Closed \in Process
<1>1. 0 \in Edits /\ 0 \in 0 .. MaxId
  BY CarriageAssumption DEF Edits
<1>2. Closed \in Process
  BY <1>1 DEF Closed, Process, Phases, Refusals
<1>3. \A why \in Refusals : [Closed EXCEPT !.refused = why] \in Process
  BY <1>1 DEF Closed, Process, Phases, Refusals
<1>4. \A phase \in Phases : [proc[p] EXCEPT !.pc = phase] \in Process
  BY DEF CarriageTypeOK, Process
<1> QED BY <1>2, <1>3, <1>4 DEF CarriageTypeOK, Goto, Refuse

-----------------------------------------------------------------------------
LEMMA OpenInv == ASSUME IInv, NEW p \in Procs, Open(p) PROVE IInv'
<1>0. CarriageTypeOK /\ Unmarked /\ OpenedIsMigrated /\ PartsAreOfTheSeal
  BY DEF IInv
<1>1. CASE Inspect(p)
  <2>1. [Closed EXCEPT !.pc = "inspected", !.rawOnly = (schema = "raw")] \in Process
    BY <1>0, Moves DEF Process, Closed, Phases
  <2>2. proc' \in [Procs -> Process]
    BY <1>0, <1>1, <2>1 DEF Inspect, CarriageTypeOK
  <2>3. UNCHANGED <<schema, rows, lastId, used>>
    BY <1>1 DEF Inspect
  <2>4. OpenedIsMigrated'
    BY <1>0, <1>1, <2>3 DEF Inspect, OpenedIsMigrated, CarriageTypeOK, Closed
  <2> QED BY <1>0, <2>2, <2>3, <2>4 DEF IInv, CarriageTypeOK, Unmarked, PartsAreOfTheSeal
<1>2. CASE MigrateRaw(p) /\ \E i \in DOMAIN rows : rows[i].seal # Unsealed
  <2>1. Refuse(p, "reseal") /\ UNCHANGED <<schema, rows, lastId, used>>
    BY <1>2 DEF MigrateRaw, AlreadySealed
  <2>2. proc' \in [Procs -> Process]
    BY <1>0, <2>1, Moves DEF Refusals
  <2>3. OpenedIsMigrated'
    BY <1>0, <2>1 DEF OpenedIsMigrated, CarriageTypeOK, Refuse, Closed
  <2> QED BY <1>0, <2>1, <2>2, <2>3 DEF IInv, CarriageTypeOK, Unmarked, PartsAreOfTheSeal
<1>3. CASE MigrateRaw(p) /\ \A i \in DOMAIN rows : rows[i].seal = Unsealed
  <2>1. /\ schema' = "v2"
        /\ rows' = [i \in DOMAIN rows |->
                      [rows[i] EXCEPT !.seal = rows[i].source,
                         !.version = IF schema = "raw" THEN "pending" ELSE @]]
        /\ Goto(p, "resume")
        /\ UNCHANGED <<lastId, used>>
    BY <1>3 DEF MigrateRaw, AlreadySealed
  <2>2. proc' \in [Procs -> Process]
    BY <1>0, <2>1, Moves DEF Phases
  <2>3. DOMAIN rows' = DOMAIN rows
    BY <2>1
  <2>4. \A i \in DOMAIN rows : rows[i] \in CarriageRow
    BY <1>0 DEF CarriageTypeOK
  <2>5. \A i \in DOMAIN rows : rows[i].parts = {} /\ rows[i].version # "ready"
    <3> SUFFICES ASSUME NEW i \in DOMAIN rows PROVE rows[i].parts = {}
      BY <1>0 DEF PartsAreOfTheSeal
    <3>1. rows[i].seal = Unsealed /\ rows[i].parts \subseteq Part
      BY <1>3, <2>4 DEF CarriageRow
    <3>2. \A part \in rows[i].parts : part.of = Unsealed /\ part.of \in Edits
      BY <1>0, <3>1 DEF PartsAreOfTheSeal, Part
    <3>3. Unsealed \notin Edits
      BY CarriageAssumption DEF Edits, Unsealed
    <3> QED BY <3>2, <3>3
  <2>6. \A i \in DOMAIN rows : /\ rows'[i].source = rows[i].source
                               /\ rows'[i].seal = rows[i].source
                               /\ rows'[i].parts = {}
                               /\ rows'[i].version # "ready"
                               /\ rows'[i] \in CarriageRow
    BY <2>1, <2>4, <2>5 DEF CarriageRow
  <2>7. CarriageTypeOK'
    <3>1. rows' \in [DOMAIN rows' -> CarriageRow]
      BY <2>1, <2>3, <2>6
    <3> QED BY <1>0, <2>1, <2>2, <2>3, <3>1 DEF CarriageTypeOK
  <2>8. PartsAreOfTheSeal'
    BY <2>3, <2>6 DEF PartsAreOfTheSeal
  <2> QED BY <2>1, <2>7, <2>8 DEF IInv, Unmarked, OpenedIsMigrated
<1>4. CASE MigrateOther(p)
  <2>1. schema' = "v2" /\ Goto(p, "resume") /\ UNCHANGED <<lastId, used>>
    BY <1>4 DEF MigrateOther
  <2>2. proc' \in [Procs -> Process]
    BY <1>0, <2>1, Moves DEF Phases
  <2>3. CASE schema = "v1"
    <3>1. rows' = [i \in DOMAIN rows |-> [rows[i] EXCEPT !.version = "superseded"]]
      BY <1>4, <2>3 DEF MigrateOther
    <3>2. \A i \in DOMAIN rows : rows[i] \in CarriageRow /\ rows[i].version = "unmarked"
      BY <1>0, <2>3 DEF CarriageTypeOK, Unmarked
    <3>3. \A i \in DOMAIN rows : /\ rows'[i] \in CarriageRow
                                 /\ rows'[i].version = "superseded"
                                 /\ rows'[i].seal = rows[i].seal
                                 /\ rows'[i].parts = rows[i].parts
      BY <3>1, <3>2 DEF CarriageRow
    <3>4. DOMAIN rows' = DOMAIN rows /\ rows' \in [DOMAIN rows' -> CarriageRow]
      BY <3>1, <3>3
    <3>5. PartsAreOfTheSeal'
      BY <1>0, <3>2, <3>3, <3>4 DEF PartsAreOfTheSeal
    <3> QED BY <1>0, <2>1, <2>2, <3>4, <3>5 DEF IInv, CarriageTypeOK, Unmarked, OpenedIsMigrated
  <2>4. CASE schema # "v1"
    <3>1. rows' = rows
      BY <1>4, <2>4 DEF MigrateOther
    <3> QED BY <1>0, <2>1, <2>2, <3>1
            DEF IInv, CarriageTypeOK, Unmarked, OpenedIsMigrated, PartsAreOfTheSeal
  <2> QED BY <2>3, <2>4
<1> QED BY <1>1, <1>2, <1>3, <1>4 DEF Open

(* A step that changes nothing but where a process of a migrated store is. *)
LEMMA OnlyMoves ==
  ASSUME IInv, NEW p \in Procs, proc[p].pc \notin {"off", "inspected"},
         proc' \in [Procs -> Process], UNCHANGED <<schema, rows, lastId, used>>
  PROVE  IInv'
<1>1. schema = "v2"
  BY DEF IInv, OpenedIsMigrated
<1> QED BY <1>1 DEF IInv, CarriageTypeOK, Unmarked, OpenedIsMigrated, PartsAreOfTheSeal

LEMMA ResumeInv == ASSUME IInv, NEW p \in Procs, Resume(p) PROVE IInv'
<1>0. CarriageTypeOK /\ Unmarked /\ OpenedIsMigrated /\ PartsAreOfTheSeal
  BY DEF IInv
<1>a. proc[p] \in Process /\ proc \in [Procs -> Process]
  BY <1>0 DEF CarriageTypeOK
<1>b. \A i \in DOMAIN rows : rows[i] \in CarriageRow /\ i \in Ids
  BY <1>0 DEF CarriageTypeOK
<1>1. CASE PickPending(p)
  <2>1. proc[p].pc = "resume" /\ UNCHANGED <<schema, rows, lastId, used>>
    BY <1>1 DEF PickPending
  <2>2. [Closed EXCEPT !.pc = "serving"] \in Process
    BY <1>0, Moves DEF Process, Closed, Phases
  <2>3. \A i \in DOMAIN rows : [proc[p] EXCEPT !.pc = "bind", !.after = i] \in Process
    <3>1. \A i \in DOMAIN rows : i \in 0 .. MaxId
      BY <1>b, CarriageAssumption DEF Ids
    <3>2. "bind" \in Phases
      BY DEF Phases
    <3> QED BY <1>a, <3>1, <3>2 DEF Process
  <2>4. proc' \in [Procs -> Process]
    BY <1>1, <1>a, <2>2, <2>3 DEF PickPending, PendingAfter
  <2> QED BY <2>1, <2>4, OnlyMoves
<1>2. CASE BindSource(p)
  <2>1. proc[p].pc = "bind" /\ UNCHANGED <<schema, rows, lastId, used>>
    BY <1>2 DEF BindSource
  <2>2. \A i \in DOMAIN rows : [proc[p] EXCEPT !.pc = "parts", !.held = rows[i].source] \in Process
    BY <1>a, <1>b DEF Process, Phases, CarriageRow
  <2>3. \/ Refuse(p, "missing") \/ Refuse(p, "unsealed")
        \/ \E i \in DOMAIN rows :
             proc' = [proc EXCEPT ![p].pc = "parts", ![p].held = rows[i].source]
    BY <1>2 DEF BindSource
  <2>4. proc' \in [Procs -> Process]
    BY <1>0, <1>a, <2>2, <2>3, Moves DEF Refusals
  <2> QED BY <2>1, <2>4, OnlyMoves
<1>3. CASE NoPartsYet(p)
  <2>1. proc[p].pc = "parts" /\ UNCHANGED <<schema, rows, lastId, used>>
    BY <1>3 DEF NoPartsYet
  <2>2. Refuse(p, "partial") \/ Goto(p, "stage")
    BY <1>3 DEF NoPartsYet
  <2>3. proc' \in [Procs -> Process]
    BY <1>0, <2>2, Moves DEF Refusals, Phases
  <2> QED BY <2>1, <2>3, OnlyMoves
<1>4. CASE Stage(p)
  <2>1. proc[p].pc = "stage" /\ UNCHANGED <<schema, rows, lastId, used>>
    BY <1>4 DEF Stage
  <2>2. Refuse(p, "limit") \/ Goto(p, "resume") \/ Goto(p, "publish")
    BY <1>4 DEF Stage
  <2>3. proc' \in [Procs -> Process]
    BY <1>0, <2>2, Moves DEF Refusals, Phases
  <2> QED BY <2>1, <2>3, OnlyMoves
<1>5. CASE Publish(p) /\ rows' = rows
  <2>1. proc[p].pc = "publish" /\ UNCHANGED <<schema, rows, lastId, used>>
    BY <1>5 DEF Publish
  <2>2. Refuse(p, "changed") \/ Goto(p, "resume")
    BY <1>5 DEF Publish
  <2>3. proc' \in [Procs -> Process]
    BY <1>0, <2>2, Moves DEF Refusals, Phases
  <2> QED BY <2>1, <2>3, OnlyMoves
<1>6. CASE Publish(p) /\ rows' # rows
  <2> DEFINE i == proc[p].after
  <2>1. /\ proc[p].pc = "publish"
        /\ Publishable(p)
        /\ rows' = [rows EXCEPT ![i].version = "ready",
                      ![i].parts = {[of |-> proc[p].held, under |-> rows[i].seal]}]
        /\ Goto(p, "resume")
        /\ UNCHANGED <<schema, lastId, used>>
    BY <1>6 DEF Publish
  <2>2. /\ i \in DOMAIN rows
        /\ rows[i].source = proc[p].held
        /\ rows[i].seal = proc[p].held
    BY <2>1 DEF Publishable, SourceAsHeld, Sealed
  <2>3. proc[p].held \in Edits
    BY <1>a DEF Process
  <2>4. DOMAIN rows' = DOMAIN rows
    BY <2>1
  <2>5. \A j \in DOMAIN rows : j # i => rows'[j] = rows[j]
    BY <2>1
  <2>6. /\ rows'[i].seal = rows[i].seal
        /\ rows'[i].version = "ready"
        /\ rows'[i].parts = {[of |-> rows[i].seal, under |-> rows[i].seal]}
        /\ rows'[i].source = rows[i].source
        /\ rows'[i] \in CarriageRow
    <3> DEFINE part == [of |-> proc[p].held, under |-> rows[i].seal]
    <3>1. part \in Part /\ part = [of |-> rows[i].seal, under |-> rows[i].seal]
      BY <2>2, <2>3 DEF Part
    <3>2. rows'[i] = [rows[i] EXCEPT !.version = "ready", !.parts = {part}]
      BY <2>1, <2>2
    <3> HIDE DEF part
    <3>3. rows[i] \in CarriageRow
      BY <1>b, <2>2
    <3>4. /\ rows'[i].seal = rows[i].seal
          /\ rows'[i].source = rows[i].source
          /\ rows'[i].version = "ready"
          /\ rows'[i].parts = {part}
      BY <3>2, <3>3 DEF CarriageRow
    <3>5. \A row \in CarriageRow, ps \in SUBSET Part :
            [row EXCEPT !.version = "ready", !.parts = ps] \in CarriageRow
      BY DEF CarriageRow
    <3>6. {part} \in SUBSET Part
      BY <3>1
    <3>7. rows'[i] \in CarriageRow
      BY <3>2, <3>3, <3>5, <3>6
    <3> QED BY <3>1, <3>4, <3>7
  <2>7. rows' \in [DOMAIN rows' -> CarriageRow]
    BY <1>0, <1>b, <2>1, <2>4, <2>5, <2>6 DEF CarriageTypeOK
  <2>8. proc' \in [Procs -> Process]
    BY <1>0, <2>1, Moves DEF Phases
  <2>9. schema = "v2"
    BY <1>0, <2>1 DEF OpenedIsMigrated
  <2>10. PartsAreOfTheSeal'
    BY <1>0, <2>4, <2>5, <2>6 DEF PartsAreOfTheSeal
  <2> HIDE DEF i
  <2> QED BY <1>0, <2>1, <2>4, <2>7, <2>8, <2>9, <2>10
          DEF IInv, CarriageTypeOK, Unmarked, OpenedIsMigrated
<1> QED BY <1>1, <1>2, <1>3, <1>4, <1>5, <1>6 DEF Resume

LEMMA ServeInv == ASSUME IInv, NEW p \in Procs, Serve(p) PROVE IInv'
<1>0. CarriageTypeOK /\ Unmarked /\ OpenedIsMigrated /\ PartsAreOfTheSeal
  BY DEF IInv
<1>1. proc[p].pc = "serving" /\ UNCHANGED <<schema, proc>>
  BY DEF Serve, AddSnapshot, DeleteSnapshot
<1>2. schema = "v2"
  BY <1>0, <1>1 DEF OpenedIsMigrated
<1>3. CASE AddSnapshot(p)
  <2>1. lastId + 1 \in Ids /\ lastId + 1 \in 0 .. MaxId /\ 0 \in Edits
    BY <1>0, <1>3, CarriageAssumption DEF AddSnapshot, CarriageTypeOK, Ids, Edits
  <2>2. /\ DOMAIN rows' = DOMAIN rows \cup {lastId + 1}
        /\ \A j \in DOMAIN rows : rows'[j] = rows[j]
        /\ lastId + 1 \notin DOMAIN rows =>
             rows'[lastId + 1] = [source |-> 0, seal |-> 0, version |-> "ready",
                                  parts |-> {[of |-> 0, under |-> 0]}]
        /\ rows' = [j \in DOMAIN rows' |-> rows'[j]]
    BY <1>3 DEF AddSnapshot
  <2>3. \A j \in DOMAIN rows' : rows'[j] \in CarriageRow
    BY <1>0, <2>1, <2>2 DEF CarriageTypeOK, CarriageRow, Part
  <2>4. CarriageTypeOK'
    BY <1>0, <1>1, <1>3, <2>1, <2>2, <2>3 DEF CarriageTypeOK, AddSnapshot
  <2>5. PartsAreOfTheSeal'
    <3> SUFFICES ASSUME NEW j \in DOMAIN rows'
                 PROVE  /\ rows'[j].version = "ready" <=> rows'[j].parts # {}
                        /\ rows'[j].parts \subseteq {[of |-> rows'[j].seal, under |-> rows'[j].seal]}
      BY DEF PartsAreOfTheSeal
    <3>1. CASE j \in DOMAIN rows
      BY <1>0, <2>2, <3>1 DEF PartsAreOfTheSeal
    <3>2. CASE j \notin DOMAIN rows
      <4>1. rows'[j] = [source |-> 0, seal |-> 0, version |-> "ready",
                        parts |-> {[of |-> 0, under |-> 0]}]
        BY <2>2, <3>2
      <4> DEFINE made == [of |-> 0, under |-> 0]
      <4>2. rows'[j].parts = {made} /\ rows'[j].seal = 0 /\ rows'[j].version = "ready"
        BY <4>1
      <4>3. made = [of |-> rows'[j].seal, under |-> rows'[j].seal]
        BY <4>2
      <4> HIDE DEF made
      <4> QED BY <4>2, <4>3
    <3> QED BY <3>1, <3>2
  <2> QED BY <1>1, <1>2, <2>4, <2>5 DEF IInv, Unmarked, OpenedIsMigrated
<1>4. CASE DeleteSnapshot(p)
  <2>1. PICK i \in DOMAIN rows : rows' = [j \in DOMAIN rows \ {i} |-> rows[j]]
    BY <1>4 DEF DeleteSnapshot
  <2>2. rows' \in [DOMAIN rows' -> CarriageRow] /\ DOMAIN rows' \subseteq Ids
    BY <1>0, <2>1 DEF CarriageTypeOK
  <2>3. used' \in [kills : 0 .. MaxKills, deletes : 0 .. MaxDeletes, tampers : 0 .. MaxTampers]
    BY <1>0, <1>4, CarriageAssumption DEF DeleteSnapshot, CarriageTypeOK
  <2>4. CarriageTypeOK'
    BY <1>0, <1>1, <1>4, <2>2, <2>3 DEF CarriageTypeOK, DeleteSnapshot
  <2>5. PartsAreOfTheSeal'
    BY <1>0, <2>1 DEF PartsAreOfTheSeal
  <2> QED BY <1>1, <1>2, <2>4, <2>5 DEF IInv, Unmarked, OpenedIsMigrated
<1> QED BY <1>3, <1>4 DEF Serve

LEMMA KillInv == ASSUME IInv, NEW p \in Procs, KillBoot(p) PROVE IInv'
<1>0. CarriageTypeOK /\ Unmarked /\ OpenedIsMigrated /\ PartsAreOfTheSeal
  BY DEF IInv
<1>1. used' \in [kills : 0 .. MaxKills, deletes : 0 .. MaxDeletes, tampers : 0 .. MaxTampers]
  BY <1>0, CarriageAssumption DEF KillBoot, CarriageTypeOK
<1>2. proc' \in [Procs -> Process]
  BY <1>0, Moves DEF KillBoot, CarriageTypeOK
<1>3. OpenedIsMigrated'
  BY <1>0 DEF KillBoot, OpenedIsMigrated, CarriageTypeOK, Closed
<1> QED BY <1>0, <1>1, <1>2, <1>3 DEF KillBoot, IInv, CarriageTypeOK, Unmarked, PartsAreOfTheSeal

LEMMA TamperInv == ASSUME IInv, Tamper PROVE IInv'
<1>0. CarriageTypeOK /\ Unmarked /\ OpenedIsMigrated /\ PartsAreOfTheSeal
  BY DEF IInv
<1>1. PICK i \in DOMAIN rows : rows' = [rows EXCEPT ![i].source = used.tampers + 1]
  BY DEF Tamper
<1>2. /\ used.tampers + 1 \in Edits
      /\ used' \in [kills : 0 .. MaxKills, deletes : 0 .. MaxDeletes, tampers : 0 .. MaxTampers]
  BY <1>0, CarriageAssumption DEF Tamper, CarriageTypeOK, Edits
<1>3. \A j \in DOMAIN rows : /\ rows'[j].seal = rows[j].seal
                             /\ rows'[j].version = rows[j].version
                             /\ rows'[j].parts = rows[j].parts
                             /\ rows'[j] \in CarriageRow
  BY <1>0, <1>1, <1>2 DEF CarriageTypeOK, CarriageRow
<1>4. DOMAIN rows' = DOMAIN rows /\ rows' \in [DOMAIN rows' -> CarriageRow]
  BY <1>0, <1>1, <1>3 DEF CarriageTypeOK
<1>5. CarriageTypeOK'
  BY <1>0, <1>2, <1>4 DEF CarriageTypeOK, Tamper
<1>6. PartsAreOfTheSeal' /\ Unmarked' /\ OpenedIsMigrated'
  BY <1>0, <1>3, <1>4 DEF PartsAreOfTheSeal, Unmarked, OpenedIsMigrated, Tamper
<1> QED BY <1>5, <1>6 DEF IInv

LEMMA NextInv == IInv /\ [CarriageNext]_carriageVars => IInv'
<1> SUFFICES ASSUME IInv, [CarriageNext]_carriageVars PROVE IInv'
  OBVIOUS
<1>1. CASE UNCHANGED carriageVars
  BY <1>1 DEF carriageVars, IInv, CarriageTypeOK, Unmarked, OpenedIsMigrated, PartsAreOfTheSeal
<1>2. CASE CarriageNext
  BY <1>2, OpenInv, ResumeInv, ServeInv, KillInv, TamperInv DEF CarriageNext
<1> QED BY <1>1, <1>2

-----------------------------------------------------------------------------
(* The strengthened invariant holds in every state.                        *)
THEOREM Invariance == CarriageSpec => []IInv
BY InitInv, NextInv, PTL DEF CarriageSpec

(* Every reachable state is of the declared type.                          *)
THEOREM TypeCorrect == CarriageSpec => []CarriageTypeOK
<1>1. IInv => CarriageTypeOK
  BY DEF IInv
<1> QED BY Invariance, <1>1, PTL

(* A stored projection was prepared from the sealed bytes and is bound to  *)
(* their seal, and the marker and the parts come together.                 *)
THEOREM ProjectionsAreOfTheSeal == CarriageSpec => []PartsAreOfTheSeal
<1>1. IInv => PartsAreOfTheSeal
  BY DEF IInv
<1> QED BY Invariance, <1>1, PTL

(* No seal is taken twice, and a completed or superseded snapshot is not   *)
(* prepared again, in any step of any process.                             *)
THEOREM SealedOnce == CarriageSpec => NeverResealed
<1> DEFINE Kept(i) ==
      /\ rows[i].seal # Unsealed => rows'[i].seal = rows[i].seal
      /\ rows[i].version \in {"ready", "superseded"} =>
           rows'[i].version = rows[i].version /\ rows'[i].parts = rows[i].parts
<1>1. ASSUME IInv, [CarriageNext]_carriageVars, NEW i \in DOMAIN rows \cap (DOMAIN rows)'
      PROVE  Kept(i)
  <2>0. CarriageTypeOK /\ Unmarked /\ rows[i] \in CarriageRow
    BY <1>1 DEF IInv, CarriageTypeOK
  <2>1. CASE UNCHANGED carriageVars
    BY <2>1 DEF carriageVars
  <2>2. ASSUME NEW p \in Procs, Open(p) PROVE Kept(i)
    <3>1. CASE Inspect(p)
      BY <3>1 DEF Inspect
    <3>2. CASE MigrateRaw(p)
      <4>1. CASE rows' = rows
        BY <4>1
      <4>2. CASE rows' # rows
        <5>1. /\ \A j \in DOMAIN rows : rows[j].seal = Unsealed
              /\ rows' = [j \in DOMAIN rows |->
                            [rows[j] EXCEPT !.seal = rows[j].source,
                               !.version = IF schema = "raw" THEN "pending" ELSE @]]
          BY <3>2, <4>2 DEF MigrateRaw, AlreadySealed
        <5>2. rows[i].seal = Unsealed
          BY <5>1
        <5>3. schema = "raw" => rows[i].version = "unmarked"
          BY <2>0 DEF Unmarked
        <5>4. /\ rows'[i].version = IF schema = "raw" THEN "pending" ELSE rows[i].version
              /\ rows'[i].parts = rows[i].parts
          BY <2>0, <5>1 DEF CarriageRow
        <5> QED BY <5>2, <5>3, <5>4
      <4> QED BY <4>1, <4>2
    <3>3. CASE MigrateOther(p) /\ schema = "v1"
      <4>1. rows' = [j \in DOMAIN rows |-> [rows[j] EXCEPT !.version = "superseded"]]
        BY <3>3 DEF MigrateOther
      <4>2. rows[i].version = "unmarked"
        BY <2>0, <3>3 DEF Unmarked
      <4>3. rows'[i].seal = rows[i].seal
        BY <2>0, <4>1 DEF CarriageRow
      <4> QED BY <4>2, <4>3
    <3>4. CASE MigrateOther(p) /\ schema # "v1"
      BY <3>4 DEF MigrateOther
    <3> QED BY <2>2, <3>1, <3>2, <3>3, <3>4 DEF Open
  <2>3. ASSUME NEW p \in Procs, Resume(p) PROVE Kept(i)
    <3>1. CASE rows' = rows
      BY <3>1
    <3>2. CASE rows' # rows
      <4> DEFINE k == proc[p].after
      <4>1. Publish(p)
        BY <2>3, <3>2 DEF Resume, PickPending, BindSource, NoPartsYet, Stage
      <4>2. Publishable(p) /\ rows' = [rows EXCEPT ![k].version = "ready",
                  ![k].parts = {[of |-> proc[p].held, under |-> rows[k].seal]}]
        BY <3>2, <4>1 DEF Publish
      <4>3. rows[k].version = "pending"
        BY <4>2 DEF Publishable
      <4>4. i # k => rows'[i] = rows[i]
        BY <4>2
      <4>5. rows'[i].seal = rows[i].seal
        BY <2>0, <4>2 DEF CarriageRow
      <4> HIDE DEF k
      <4> QED BY <4>3, <4>4, <4>5
    <3> QED BY <3>1, <3>2
  <2>4. ASSUME NEW p \in Procs, Serve(p) PROVE Kept(i)
    <3>1. rows'[i] = rows[i]
      BY <1>1, <2>4 DEF Serve, AddSnapshot, DeleteSnapshot
    <3> QED BY <3>1
  <2>5. ASSUME NEW p \in Procs, KillBoot(p) PROVE Kept(i)
    BY <2>5 DEF KillBoot
  <2>6. CASE Tamper
    <3>1. PICK j \in DOMAIN rows : rows' = [rows EXCEPT ![j].source = used.tampers + 1]
      BY <2>6 DEF Tamper
    <3>2. /\ rows'[i].seal = rows[i].seal
          /\ rows'[i].version = rows[i].version
          /\ rows'[i].parts = rows[i].parts
      BY <2>0, <3>1 DEF CarriageRow
    <3> QED BY <3>2
  <2> QED BY <1>1, <2>1, <2>2, <2>3, <2>4, <2>5, <2>6 DEF CarriageNext
<1>2. IInv /\ [CarriageNext]_carriageVars =>
        [\A i \in DOMAIN rows \cap (DOMAIN rows)' : Kept(i)]_carriageVars
  BY <1>1
<1>3. [][CarriageNext]_carriageVars /\ []IInv => [][\A i \in DOMAIN rows \cap (DOMAIN rows)' : Kept(i)]_carriageVars
  BY <1>2, PTL
<1> QED BY <1>3, Invariance, PTL DEF CarriageSpec, NeverResealed

-----------------------------------------------------------------------------
(* The copies of the store: types.                                         *)

LEMMA Bounds ==
    /\ Keep \in Nat /\ Keep >= 1 /\ PerSecond \in Nat /\ PerSecond >= 1
    /\ MaxClock \in Nat /\ MaxBack \in Nat /\ MaxFaults \in Nat
    /\ Instant = 0 .. MaxClock /\ Instant \subseteq Nat /\ NoDate \notin Instant
    /\ Parked = MaxClock + 1 /\ Parked \notin Instant
    /\ Nothing \in Content
BY BackupAssumption DEF Instant, NoDate, Parked, Nothing, Content

(* A nonempty set of instants has a first and a last.                      *)
LEMMA Least == ASSUME NEW S, S \subseteq Nat, S # {} PROVE \E n \in S : \A m \in S : n <= m
<1> DEFINE R == {ss \in Nat \X Nat : ss[1] < ss[2]}
<1>1. IsWellFoundedOn(R, Nat)
  BY NatLessThanWellFounded DEF OpToRel
<1>2. \A m, n \in Nat : <<m, n>> \in R <=> m < n
  BY SMT
<1> HIDE DEF R
<1>3. PICK n \in S : \A m \in S : ~ (<<m, n>> \in R)
  BY <1>1, WFMin, Zenon
<1>4. ASSUME NEW m \in S PROVE n <= m
  <2>1. m \in Nat /\ n \in Nat
    OBVIOUS
  <2>2. ~ (m < n)
    BY <1>2, <1>3, <2>1, Zenon
  <2> QED BY <2>1, <2>2
<1> QED BY <1>4

LEMMA MinIn == ASSUME NEW S, S \subseteq Instant, S # {} PROVE Min(S) \in S
<1>1. \E n \in S : \A m \in S : n <= m
  BY Least, Bounds
<1> QED BY <1>1 DEF Min

LEMMA Greatest ==
    ASSUME NEW S, S \subseteq Instant, S # {}
    PROVE  Max(S) \in S /\ \A m \in S : Max(S) >= m
<1> DEFINE T == {MaxClock - n : n \in S}
<1>1. T \subseteq Nat /\ T # {}
  BY Bounds
<1>2. PICK t \in T : \A m \in T : t <= m
  BY <1>1, Least
<1>3. PICK n \in S : t = MaxClock - n
  BY <1>2
<1>4. ASSUME NEW m \in S PROVE n >= m
  <2>1. t <= MaxClock - m
    BY <1>2
  <2>2. m \in Nat /\ n \in Nat /\ m <= MaxClock /\ n <= MaxClock
    BY Bounds
  <2> QED BY <1>3, <2>1, <2>2, Bounds
<1> QED BY <1>4 DEF Max

LEMMA MaxIn == ASSUME NEW S, S \subseteq Instant, S # {} PROVE Max(S) \in S
BY Greatest

LEMMA MaxAbove == ASSUME NEW S, S \subseteq Instant, NEW n \in S PROVE n <= Max(S)
<1>1. Max(S) \in S /\ Max(S) >= n
  BY Greatest
<1> QED BY <1>1, Bounds

LEMMA StampInstant == ASSUME NEW t \in Instant PROVE StampOf(t) \in Instant
BY Bounds DEF StampOf

LEMMA OursAreInstants == BackupsTypeOK => OurBackups \subseteq Instant
BY DEF BackupsTypeOK, OurBackups

(* The states of a boot.                                                   *)
LEMMA IdleBoot == NoBoot \in BootState
BY Bounds DEF NoBoot, BootState, BootPhases, Outcomes

LEMMA BootFields ==
    ASSUME NEW s \in BootState
    PROVE  /\ s.pc \in BootPhases /\ s.mtime \in Instant \cup {NoDate} /\ s.opened \in Content
           /\ s.stamp \in Instant /\ s.copy \in Content /\ s.copied \in Instant
           /\ s.doomed \in SUBSET Instant /\ s.outcome \in Outcomes
BY DEF BootState

LEMMA Opened ==
    ASSUME NEW t \in Instant \cup {NoDate}, NEW c \in Content
    PROVE  [NoBoot EXCEPT !.pc = "check", !.mtime = t, !.opened = c] \in BootState
BY IdleBoot DEF BootState, BootPhases

LEMMA InPhase ==
    ASSUME NEW s \in BootState, NEW p \in BootPhases
    PROVE  [s EXCEPT !.pc = p] \in BootState
BY DEF BootState

LEMMA Concluded ==
    ASSUME NEW c \in Content, NEW p \in BootPhases, NEW o \in Outcomes
    PROVE  [NoBoot EXCEPT !.pc = p, !.opened = c, !.outcome = o] \in BootState
BY IdleBoot DEF BootState

LEMMA EndType ==
    ASSUME BackupsTypeOK, NEW b \in Boots, NEW p \in BootPhases, NEW o \in Outcomes, Become(b, p, o)
    PROVE  boot' \in [Boots -> BootState]
<1>1. boot[b].opened \in Content
  BY BootFields DEF BackupsTypeOK
<1>2. [NoBoot EXCEPT !.pc = p, !.opened = boot[b].opened, !.outcome = o] \in BootState
  BY <1>1, Concluded
<1> QED BY <1>2 DEF BackupsTypeOK, Become

LEMMA PhaseType ==
    ASSUME BackupsTypeOK, NEW b \in Boots, NEW p \in BootPhases, EnterPhase(b, p)
    PROVE  boot' \in [Boots -> BootState]
<1>1. boot[b] \in BootState
  BY DEF BackupsTypeOK
<1>2. [boot[b] EXCEPT !.pc = p] \in BootState
  BY <1>1, InPhase
<1>3. boot' = [boot EXCEPT ![b] = [boot[b] EXCEPT !.pc = p]]
  BY DEF EnterPhase, BackupsTypeOK
<1> QED BY <1>2, <1>3 DEF BackupsTypeOK

(* The rest of the state.                                                  *)
Rest ==
    /\ clock \in Instant /\ edits \in Nat /\ dbfile \in Stores
    /\ DOMAIN files \subseteq Instant \cup {Parked}
    /\ \A n \in DOMAIN files : files[n] \in [has : Content, mtime : Instant]
    /\ faults \in [back : 0 .. MaxBack, file : 0 .. MaxFaults, beside : BOOLEAN]
LEMMA Parts == BackupsTypeOK <=> Rest /\ boot \in [Boots -> BootState]
BY DEF BackupsTypeOK, Rest
LEMMA StoreFields ==
    ASSUME NEW d \in Stores
    PROVE  d.has \in Content /\ d.mtime \in Instant \cup {NoDate}
BY DEF Stores

LEMMA InitType == BackupsInit => BackupsTypeOK
<1> SUFFICES ASSUME BackupsInit PROVE BackupsTypeOK
  OBVIOUS
<1>1. boot \in [Boots -> BootState]
  BY IdleBoot DEF BackupsInit
<1>2. Rest
  BY Bounds DEF BackupsInit, Rest, Stores
<1> QED BY <1>1, <1>2, Parts

(* One lemma per action.                                                   *)
LEMMA OpenStoreType == ASSUME BackupsTypeOK, NEW b \in Boots, OpenStore(b) PROVE BackupsTypeOK'
<1>1. dbfile.has \in Content /\ dbfile.mtime \in Instant \cup {NoDate}
  BY StoreFields DEF BackupsTypeOK
<1>2. [NoBoot EXCEPT !.pc = "check", !.mtime = dbfile.mtime, !.opened = dbfile.has] \in BootState
  BY <1>1, Opened
<1>3. boot' \in [Boots -> BootState]
  BY <1>2 DEF OpenStore, BackupsTypeOK
<1>4. faults' \in [back : 0 .. MaxBack, file : 0 .. MaxFaults, beside : BOOLEAN]
  BY DEF OpenStore, BackupsTypeOK
<1> QED BY <1>3, <1>4 DEF OpenStore, BackupsTypeOK

LEMMA QuickCheckType == ASSUME BackupsTypeOK, NEW b \in Boots, QuickCheck(b) PROVE BackupsTypeOK'
<1>1. boot' \in [Boots -> BootState]
  <2>1. /\ "schema" \in BootPhases /\ "count" \in BootPhases
        /\ "unverified" \in Outcomes /\ "first" \in Outcomes
    BY DEF BootPhases, Outcomes
  <2>2. CASE Become(b, "schema", "unverified")
    BY <2>1, <2>2, EndType
  <2>3. CASE Become(b, "schema", "first")
    BY <2>1, <2>3, EndType
  <2>4. CASE boot' = [boot EXCEPT ![b] = NoBoot]
    BY <2>4, IdleBoot DEF BackupsTypeOK
  <2>5. CASE EnterPhase(b, "count")
    BY <2>1, <2>5, PhaseType
  <2> QED BY <2>2, <2>3, <2>4, <2>5, Zenon DEF QuickCheck, End
<1> QED BY <1>1 DEF BackupsTypeOK, QuickCheck

LEMMA CountCampaignsType ==
    ASSUME BackupsTypeOK, NEW b \in Boots, CountCampaigns(b) PROVE BackupsTypeOK'
<1>1. boot' \in [Boots -> BootState]
  <2>1. "schema" \in BootPhases /\ "choose" \in BootPhases /\ "empty" \in Outcomes
    BY DEF BootPhases, Outcomes
  <2>2. CASE EnterPhase(b, "choose")
    BY <2>1, <2>2, PhaseType
  <2>3. CASE Become(b, "schema", "empty")
    BY <2>1, <2>3, EndType
  <2> QED BY <2>2, <2>3, Zenon DEF CountCampaigns, End
<1> QED BY <1>1 DEF BackupsTypeOK, CountCampaigns

LEMMA ChooseCopyType == ASSUME BackupsTypeOK, NEW b \in Boots, ChooseCopy(b) PROVE BackupsTypeOK'
<1>1. boot' \in [Boots -> BootState]
  <2>1. CASE Become(b, "schema", "fresh")
    <3>1. "schema" \in BootPhases /\ "fresh" \in Outcomes
      BY DEF BootPhases, Outcomes
    <3> QED BY <2>1, <3>1, EndType
  <2>2. CASE boot' = [boot EXCEPT ![b].pc = "copy", ![b].stamp = StampOf(clock)]
    <3>1. StampOf(clock) \in Instant /\ boot[b] \in BootState
      BY StampInstant DEF BackupsTypeOK
    <3>2. [boot[b] EXCEPT !.pc = "copy", !.stamp = StampOf(clock)] \in BootState
      BY <3>1 DEF BootState, BootPhases
    <3>3. boot' = [boot EXCEPT ![b] = [boot[b] EXCEPT !.pc = "copy", !.stamp = StampOf(clock)]]
      BY <2>2 DEF BackupsTypeOK
    <3> QED BY <3>2, <3>3 DEF BackupsTypeOK
  <2> QED BY <2>1, <2>2, Zenon DEF ChooseCopy, End
<1> QED BY <1>1 DEF BackupsTypeOK, ChooseCopy

LEMMA TakeCopyType == ASSUME BackupsTypeOK, NEW b \in Boots, TakeCopy(b) PROVE BackupsTypeOK'
<1>1. boot' \in [Boots -> BootState]
  <2>1. CASE boot' = [boot EXCEPT ![b].pc = "publish", ![b].copy = dbfile.has, ![b].copied = clock]
    <3>1. dbfile.has \in Content /\ clock \in Instant /\ boot[b] \in BootState
      BY StoreFields DEF BackupsTypeOK
    <3>2. [boot[b] EXCEPT !.pc = "publish", !.copy = dbfile.has, !.copied = clock] \in BootState
      BY <3>1 DEF BootState, BootPhases
    <3>3. boot' = [boot EXCEPT ![b] = [boot[b] EXCEPT !.pc = "publish", !.copy = dbfile.has,
                                                      !.copied = clock]]
      BY <2>1 DEF BackupsTypeOK
    <3> QED BY <3>2, <3>3 DEF BackupsTypeOK
  <2>2. CASE Become(b, "list", "failed")
    <3>1. "list" \in BootPhases /\ "failed" \in Outcomes
      BY DEF BootPhases, Outcomes
    <3> QED BY <2>2, <3>1, EndType
  <2> QED BY <2>1, <2>2, Zenon DEF TakeCopy, Rotate
<1> QED BY <1>1 DEF BackupsTypeOK, TakeCopy

LEMMA PublishCopyType == ASSUME BackupsTypeOK, NEW b \in Boots, PublishCopy(b) PROVE BackupsTypeOK'
<1>1. boot' \in [Boots -> BootState]
  <2>1. Become(b, "list", "copied") \/ Become(b, "list", "failed")
    BY DEF PublishCopy, Rotate
  <2>2. "list" \in BootPhases /\ {"copied", "failed"} \subseteq Outcomes
    BY DEF BootPhases, Outcomes
  <2> QED BY <2>1, <2>2, EndType
<1>2. /\ DOMAIN files' \subseteq Instant \cup {Parked}
      /\ \A n \in DOMAIN files' : files'[n] \in [has : Content, mtime : Instant]
  <2>1. boot[b].stamp \in Instant /\ boot[b].copy \in Content /\ boot[b].copied \in Instant
    BY BootFields DEF BackupsTypeOK
  <2>2. [has |-> boot[b].copy, mtime |-> boot[b].copied] \in [has : Content, mtime : Instant]
    BY <2>1
  <2>3. files' = files \/ files' = Published(b)
    BY DEF PublishCopy
  <2>4. CASE files' = Published(b)
    BY <2>1, <2>2, <2>4 DEF BackupsTypeOK, Published
  <2> QED BY <2>3, <2>4 DEF BackupsTypeOK
<1> QED BY <1>1, <1>2 DEF BackupsTypeOK, PublishCopy

LEMMA ListRotationType == ASSUME BackupsTypeOK, NEW b \in Boots, ListRotation(b) PROVE BackupsTypeOK'
<1>1. boot' \in [Boots -> BootState]
  <2>1. BeyondKeep \in SUBSET Instant /\ boot[b] \in BootState
    BY OursAreInstants DEF BeyondKeep, BackupsTypeOK
  <2>2. [boot[b] EXCEPT !.pc = "unlink", !.doomed = BeyondKeep] \in BootState
    BY <2>1 DEF BootState, BootPhases
  <2>3. boot' = [boot EXCEPT ![b] = [boot[b] EXCEPT !.pc = "unlink", !.doomed = BeyondKeep]]
    BY DEF BackupsTypeOK, ListRotation
  <2> QED BY <2>2, <2>3 DEF BackupsTypeOK
<1> QED BY <1>1 DEF BackupsTypeOK, ListRotation

LEMMA UnlinkType == ASSUME BackupsTypeOK, NEW b \in Boots, Unlink(b) PROVE BackupsTypeOK'
<1>1. boot[b] \in BootState /\ boot[b].doomed \subseteq Instant /\ boot[b].outcome \in Outcomes
  BY BootFields DEF BackupsTypeOK
<1>2. CASE boot[b].doomed # {} /\ \E old \in {Min(boot[b].doomed)} :
             /\ files' = [n \in DOMAIN files \ {old} |-> files[n]]
             /\ boot' = [boot EXCEPT ![b].doomed = @ \ {old}]
  <2>1. PICK old \in {Min(boot[b].doomed)} :
             /\ files' = [n \in DOMAIN files \ {old} |-> files[n]]
             /\ boot' = [boot EXCEPT ![b].doomed = @ \ {old}]
    BY <1>2
  <2>2. [boot[b] EXCEPT !.doomed = @ \ {old}] \in BootState
    BY <1>1 DEF BootState
  <2>3. boot' = [boot EXCEPT ![b] = [boot[b] EXCEPT !.doomed = @ \ {old}]]
    BY <2>1 DEF BackupsTypeOK
  <2>4. boot' \in [Boots -> BootState]
    BY <2>2, <2>3 DEF BackupsTypeOK
  <2> QED BY <2>1, <2>4 DEF BackupsTypeOK, Unlink
<1>3. CASE Become(b, "schema", boot[b].outcome) /\ UNCHANGED files
  <2>1. "schema" \in BootPhases
    BY DEF BootPhases
  <2>2. boot' \in [Boots -> BootState]
    BY <1>1, <1>3, <2>1, EndType, Zenon
  <2> QED BY <1>3, <2>2 DEF BackupsTypeOK, Unlink
<1> QED BY <1>2, <1>3 DEF Unlink, End

LEMMA CommitType ==
    ASSUME BackupsTypeOK, NEW h \in BOOLEAN, CommitStore(h)
    PROVE  clock' \in Instant /\ edits' \in Nat /\ dbfile' \in Stores
<1>1. clock + 1 \in Instant /\ edits + 1 \in Nat
  BY Bounds DEF BackupsTypeOK, CommitStore
<1>2. [edit |-> edits + 1, holds |-> h] \in Content
  BY <1>1 DEF Content
<1> QED BY <1>1, <1>2 DEF CommitStore, Stores

LEMMA CreateSchemaType == ASSUME BackupsTypeOK, NEW b \in Boots, CreateSchema(b) PROVE BackupsTypeOK'
<1>1. [NoBoot EXCEPT !.pc = "serving"] \in BootState
  BY IdleBoot, InPhase DEF BootPhases
<1>2. boot' \in [Boots -> BootState]
  BY <1>1 DEF BackupsTypeOK, CreateSchema
<1>3. clock' \in Instant /\ edits' \in Nat /\ dbfile' \in Stores
  <2>1. CASE CommitStore(FALSE)
    BY <2>1, CommitType
  <2>2. CASE UNCHANGED <<clock, edits, dbfile>>
    BY <2>2 DEF BackupsTypeOK
  <2> QED BY <2>1, <2>2 DEF CreateSchema
<1> QED BY <1>2, <1>3 DEF BackupsTypeOK, CreateSchema

LEMMA WorkOnType == ASSUME BackupsTypeOK, NEW b \in Boots, WorkOn(b) PROVE BackupsTypeOK'
<1>1. clock' \in Instant /\ edits' \in Nat /\ dbfile' \in Stores
  BY CommitType DEF WorkOn
<1> QED BY <1>1 DEF BackupsTypeOK, WorkOn

LEMMA LeaveType == ASSUME BackupsTypeOK, NEW b \in Boots, Leave(b) PROVE BackupsTypeOK'
<1>1. boot' \in [Boots -> BootState]
  BY IdleBoot DEF BackupsTypeOK, Leave
<1> QED BY <1>1 DEF BackupsTypeOK, Leave

LEMMA SetClockBackType == ASSUME BackupsTypeOK, SetClockBack PROVE BackupsTypeOK'
<1>1. clock' \in Instant
  BY Bounds DEF BackupsTypeOK, SetClockBack
<1>2. faults' \in [back : 0 .. MaxBack, file : 0 .. MaxFaults, beside : BOOLEAN]
  BY Bounds DEF BackupsTypeOK, SetClockBack
<1> QED BY <1>1, <1>2 DEF BackupsTypeOK, SetClockBack

LEMMA DamageType == ASSUME BackupsTypeOK, Damage PROVE BackupsTypeOK'
<1>1. dbfile' \in Stores
  BY Bounds DEF BackupsTypeOK, Damage, Stores
<1>2. faults' \in [back : 0 .. MaxBack, file : 0 .. MaxFaults, beside : BOOLEAN]
  BY Bounds DEF BackupsTypeOK, Damage
<1>3. boot' \in [Boots -> BootState]
  BY IdleBoot DEF Damage
<1> QED BY <1>1, <1>2, <1>3 DEF BackupsTypeOK, Damage

LEMMA RestoreType == ASSUME BackupsTypeOK, Restore PROVE BackupsTypeOK'
<1>1. Max(OurBackups) \in DOMAIN files
  BY MaxIn, OursAreInstants DEF Restore, OurBackups
<1>2. files[Max(OurBackups)].has \in Content /\ files[Max(OurBackups)].mtime \in Instant
  BY <1>1 DEF BackupsTypeOK
<1>3. dbfile' \in Stores
  BY <1>2 DEF BackupsTypeOK, Restore, Stores
<1> QED BY <1>3 DEF BackupsTypeOK, Restore

-----------------------------------------------------------------------------
(* A boot unlinks what Keep newer names stand above.                       *)

Above(n) == {m \in OurBackups : m > n}
Condemned == \A b \in Boots : \A n \in boot[b].doomed : Cardinality(Above(n)) >= Keep

LEMMA AboveFinite ==
    /\ BackupsTypeOK => \A n : IsFiniteSet(Above(n))
    /\ BackupsTypeOK' => \A n : IsFiniteSet(Above(n)')
<1>1. IsFiniteSet(Instant)
  BY Bounds, FS_Interval
<1>2. ASSUME BackupsTypeOK, NEW n PROVE IsFiniteSet(Above(n))
  <2>1. Above(n) \subseteq Instant
    BY <1>2 DEF Above, BackupsTypeOK, OurBackups
  <2> QED BY <1>1, <2>1, FS_Subset
<1>3. ASSUME BackupsTypeOK', NEW n PROVE IsFiniteSet(Above(n)')
  <2>1. Above(n)' \subseteq Instant
    BY <1>3 DEF Above, BackupsTypeOK, OurBackups
  <2> QED BY <1>1, <2>1, FS_Subset
<1> QED BY <1>2, <1>3

LEMMA EnoughAbove ==
    ASSUME BackupsTypeOK', NEW n, NEW S, S \subseteq Above(n)', Cardinality(S) >= Keep
    PROVE  Cardinality(Above(n)') >= Keep
<1>1. IsFiniteSet(Above(n)')
  BY AboveFinite
<1>2. IsFiniteSet(S) /\ Cardinality(S) <= Cardinality(Above(n)')
  BY <1>1, FS_Subset
<1>3. Cardinality(S) \in Nat /\ Cardinality(Above(n)') \in Nat
  BY <1>1, <1>2, FS_CardinalityType
<1> QED BY <1>2, <1>3, Bounds

(* A step that unlinks nothing and condemns nothing.                       *)
LEMMA KeepsAll ==
    ASSUME BackupsTypeOK', Condemned, OurBackups \subseteq OurBackups',
           \A b \in Boots : boot'[b].doomed \subseteq boot[b].doomed
    PROVE  Condemned'
<1> SUFFICES ASSUME NEW b \in Boots, NEW n \in boot'[b].doomed
             PROVE  Cardinality(Above(n)') >= Keep
  BY DEF Condemned
<1>1. Above(n) \subseteq Above(n)' /\ Cardinality(Above(n)) >= Keep
  BY DEF Above, Condemned
<1> QED BY <1>1, EnoughAbove

LEMMA UnlinkKeeps ==
    ASSUME BackupsTypeOK, BackupsTypeOK', Condemned, NEW b \in Boots, Unlink(b)
    PROVE  /\ Condemned'
           /\ \A n \in OurBackups : n \in OurBackups' \/ Cardinality(Above(n)') >= Keep
<1>1. boot[b].doomed \subseteq Instant
  BY BootFields DEF BackupsTypeOK
<1>2. ASSUME NEW old, old = Min(boot[b].doomed), boot[b].doomed # {},
             files' = [n \in DOMAIN files \ {old} |-> files[n]],
             boot' = [boot EXCEPT ![b].doomed = @ \ {old}]
      PROVE  /\ Condemned'
             /\ \A n \in OurBackups : n \in OurBackups' \/ Cardinality(Above(n)') >= Keep
  <2>1. old \in boot[b].doomed /\ old \in Instant
    BY <1>1, <1>2, MinIn
  <2>2. Cardinality(Above(old)) >= Keep
    BY <2>1 DEF Condemned
  <2>3. OurBackups' = OurBackups \ {old} /\ OurBackups \subseteq Instant
    BY <1>2, OursAreInstants DEF OurBackups
  <2>4. Above(old) \subseteq Above(old)'
    BY <2>1, <2>3, Bounds DEF Above
  <2>5. Cardinality(Above(old)') >= Keep
    BY <2>2, <2>4, EnoughAbove
  <2>6. ASSUME NEW c \in Boots, NEW n \in boot'[c].doomed PROVE Cardinality(Above(n)') >= Keep
    <3>1. n \in boot[c].doomed /\ n \in Instant
      BY <1>2, <2>6, BootFields DEF BackupsTypeOK
    <3>2. Cardinality(Above(n)) >= Keep
      BY <3>1 DEF Condemned
    <3>3. CASE old > n
      <4>1. ASSUME NEW m \in Above(old) PROVE m \in Above(n)'
        <5>1. m \in Nat /\ n \in Nat /\ old \in Nat /\ m > old /\ m \in OurBackups
          BY <2>1, <2>3, <3>1, Bounds DEF Above
        <5>2. m > n /\ m # old
          BY <3>3, <5>1
        <5> QED BY <2>3, <5>1, <5>2 DEF Above
      <4> QED BY <2>2, <4>1, EnoughAbove
    <3>4. CASE ~ (old > n)
      <4>1. Above(n) \subseteq Above(n)'
        BY <2>3, <3>4 DEF Above
      <4> QED BY <3>2, <4>1, EnoughAbove
    <3> QED BY <3>3, <3>4
  <2> QED BY <2>3, <2>5, <2>6 DEF Condemned
<1>3. CASE Become(b, "schema", boot[b].outcome) /\ UNCHANGED files
  <2>1. OurBackups' = OurBackups
    BY <1>3 DEF OurBackups
  <2>2. \A c \in Boots : boot'[c].doomed \subseteq boot[c].doomed
    BY <1>3 DEF Become, BackupsTypeOK, NoBoot
  <2> QED BY <2>1, <2>2, KeepsAll
<1> QED BY <1>2, <1>3 DEF Unlink, End

LEMMA ListKeeps ==
    ASSUME BackupsTypeOK, BackupsTypeOK', Condemned, NEW b \in Boots, ListRotation(b)
    PROVE  Condemned'
<1>1. OurBackups' = OurBackups
  BY DEF ListRotation, OurBackups
<1>2. ASSUME NEW c \in Boots, NEW n \in boot'[c].doomed PROVE Cardinality(Above(n)) >= Keep
  <2>1. n \in boot[c].doomed \/ n \in BeyondKeep
    BY <1>2 DEF ListRotation, BackupsTypeOK
  <2> QED BY <2>1 DEF Condemned, BeyondKeep, Above
<1> QED BY <1>1, <1>2 DEF Condemned, Above

(* The other steps.                                                        *)
LEMMA EndsEmpty ==
    ASSUME BackupsTypeOK, NEW b \in Boots, NEW p, NEW o, Become(b, p, o)
    PROVE  \A c \in Boots : boot'[c] = boot[c] \/ boot'[c].doomed = {}
BY DEF Become, NoBoot, BackupsTypeOK

LEMMA PhaseSame ==
    ASSUME BackupsTypeOK, NEW b \in Boots, NEW p, EnterPhase(b, p)
    PROVE  \A c \in Boots : boot'[c].doomed = boot[c].doomed
BY DEF EnterPhase, BackupsTypeOK, BootState

LEMMA OthersKeep ==
    ASSUME BackupsTypeOK, BackupsTypeOK', Condemned,
           \/ \E b \in Boots : \/ OpenStore(b) \/ QuickCheck(b) \/ CountCampaigns(b) \/ ChooseCopy(b)
                               \/ TakeCopy(b) \/ PublishCopy(b) \/ CreateSchema(b) \/ WorkOn(b)
                               \/ Leave(b)
           \/ SetClockBack \/ Damage \/ Restore
    PROVE  OurBackups \subseteq OurBackups' /\ Condemned'
<1>1. OurBackups \subseteq OurBackups'
  BY DEF OurBackups, OpenStore, QuickCheck, CountCampaigns, ChooseCopy, TakeCopy, PublishCopy,
     CreateSchema, WorkOn, Leave, SetClockBack, Damage, Restore, Published
<1>2. CASE SetClockBack \/ Damage \/ Restore
  <2>1. \A c \in Boots : boot'[c] = boot[c] \/ boot'[c].doomed = {}
    BY <1>2 DEF SetClockBack, Damage, Restore, NoBoot
  <2> QED BY <1>1, <2>1, KeepsAll
<1>3. ASSUME NEW b \in Boots,
             \/ OpenStore(b) \/ QuickCheck(b) \/ CountCampaigns(b) \/ ChooseCopy(b) \/ TakeCopy(b)
             \/ PublishCopy(b) \/ CreateSchema(b) \/ WorkOn(b) \/ Leave(b)
      PROVE  Condemned'
  <2>1. CASE OpenStore(b) \/ CreateSchema(b) \/ Leave(b)
    <3>1. \A c \in Boots : boot'[c] = boot[c] \/ boot'[c].doomed = {}
      <4>1. CASE OpenStore(b)
        BY <4>1 DEF OpenStore, NoBoot, BackupsTypeOK
      <4>2. CASE CreateSchema(b)
        BY <4>2 DEF CreateSchema, NoBoot, BackupsTypeOK
      <4>3. CASE Leave(b)
        BY <4>3 DEF Leave, NoBoot, BackupsTypeOK
      <4> QED BY <2>1, <4>1, <4>2, <4>3
    <3> QED BY <1>1, <3>1, KeepsAll
  <2>2. CASE QuickCheck(b) \/ CountCampaigns(b) \/ PublishCopy(b)
    <3>1. \/ \E p \in BootPhases, o \in Outcomes : Become(b, p, o)
          \/ \E p \in BootPhases : EnterPhase(b, p)
          \/ boot' = [boot EXCEPT ![b] = NoBoot]
      BY <2>2 DEF QuickCheck, CountCampaigns, PublishCopy, End, Rotate, BootPhases, Outcomes
    <3>2. CASE boot' = [boot EXCEPT ![b] = NoBoot]
      <4>1. \A c \in Boots : boot'[c] = boot[c] \/ boot'[c].doomed = {}
        BY <3>2 DEF NoBoot, BackupsTypeOK
      <4> QED BY <1>1, <4>1, KeepsAll
    <3> QED BY <1>1, <3>1, <3>2, EndsEmpty, PhaseSame, KeepsAll
  <2>3. CASE ChooseCopy(b)
    <3>1. Become(b, "schema", "fresh") \/ \A c \in Boots : boot'[c].doomed = boot[c].doomed
      BY <2>3 DEF ChooseCopy, End, BackupsTypeOK, BootState
    <3> QED BY <1>1, <3>1, EndsEmpty, KeepsAll
  <2>4. CASE TakeCopy(b)
    <3>1. Become(b, "list", "failed") \/ \A c \in Boots : boot'[c].doomed = boot[c].doomed
      <4>1. CASE boot' = [boot EXCEPT ![b].pc = "publish", ![b].copy = dbfile.has,
                                      ![b].copied = clock]
        BY <4>1 DEF BackupsTypeOK, BootState
      <4> QED BY <2>4, <4>1, Zenon DEF TakeCopy, Rotate
    <3> QED BY <1>1, <3>1, EndsEmpty, KeepsAll
  <2>5. CASE WorkOn(b)
    BY <1>1, <2>5, KeepsAll DEF WorkOn
  <2> QED BY <1>3, <2>1, <2>2, <2>3, <2>4, <2>5
<1> QED BY <1>1, <1>2, <1>3

-----------------------------------------------------------------------------
KeepInv == BackupsTypeOK /\ Condemned

LEMMA NextType == ASSUME BackupsTypeOK, [BackupsNext]_backupsVars PROVE BackupsTypeOK'
<1>1. CASE UNCHANGED backupsVars
  BY <1>1 DEF BackupsTypeOK, backupsVars
<1>2. ASSUME NEW b \in Boots, BootStep(b) PROVE BackupsTypeOK'
  <2>1. CASE OpenStore(b) \/ QuickCheck(b) \/ CountCampaigns(b) \/ ChooseCopy(b)
    BY <2>1, OpenStoreType, QuickCheckType, CountCampaignsType, ChooseCopyType
  <2>2. CASE TakeCopy(b) \/ PublishCopy(b) \/ ListRotation(b) \/ Unlink(b)
    BY <2>2, TakeCopyType, PublishCopyType, ListRotationType, UnlinkType
  <2>3. CASE CreateSchema(b) \/ WorkOn(b) \/ Leave(b)
    BY <2>3, CreateSchemaType, WorkOnType, LeaveType
  <2> QED BY <1>2, <2>1, <2>2, <2>3 DEF BootStep
<1> QED BY <1>1, <1>2, SetClockBackType, DamageType, RestoreType DEF BackupsNext

LEMMA NextKeeps ==
    ASSUME KeepInv, [BackupsNext]_backupsVars
    PROVE  /\ KeepInv'
           /\ \A n \in OurBackups : n \in OurBackups' \/ Cardinality(Above(n)') >= Keep
<1> USE DEF KeepInv
<1>1. BackupsTypeOK'
  BY NextType
<1>2. CASE UNCHANGED backupsVars
  <2>1. OurBackups' = OurBackups /\ boot' = boot
    BY <1>2 DEF OurBackups, backupsVars
  <2> QED BY <1>1, <2>1, KeepsAll
<1>3. CASE \E b \in Boots : Unlink(b)
  BY <1>1, <1>3, UnlinkKeeps
<1>4. CASE \E b \in Boots : ListRotation(b)
  <2>1. OurBackups' = OurBackups
    BY <1>4 DEF ListRotation, OurBackups
  <2> QED BY <1>1, <1>4, <2>1, ListKeeps
<1>5. CASE BackupsNext /\ ~ (\E b \in Boots : Unlink(b) \/ ListRotation(b))
  <2>1. OurBackups \subseteq OurBackups' /\ Condemned'
    BY <1>1, <1>5, OthersKeep DEF BackupsNext, BootStep
  <2> QED BY <1>1, <2>1
<1> QED BY <1>2, <1>3, <1>4, <1>5

LEMMA InitKeeps == BackupsInit => KeepInv
<1> SUFFICES ASSUME BackupsInit PROVE KeepInv
  OBVIOUS
<1>1. \A b \in Boots : boot[b].doomed = {}
  BY DEF BackupsInit, NoBoot
<1> QED BY <1>1, InitType DEF KeepInv, Condemned

\* Every variable keeps its type, for any number of processes, instants and faults.
THEOREM BackupsTypeCorrect == BackupsSpec => []BackupsTypeOK
<1>1. BackupsTypeOK /\ [BackupsNext]_backupsVars => BackupsTypeOK'
  BY NextType
<1> QED BY <1>1, InitType, PTL DEF BackupsSpec

\* However many processes rotate from lists taken at different moments, and
\* whatever the clock does, a copy is unlinked only while Keep newer-named
\* ones stay (storage.py, _rotate_backups).
THEOREM RotationKeepsNewest == BackupsSpec => NewestKept
<1>1. KeepInv /\ [BackupsNext]_backupsVars => KeepInv'
  BY NextKeeps
<1>2. BackupsSpec => []KeepInv
  BY <1>1, InitKeeps, PTL DEF BackupsSpec
<1>3. KeepInv /\ [BackupsNext]_backupsVars =>
        [\A n \in Copies : n \in Copies'
           \/ Cardinality({m \in Copies' : m > n}) >= Keep]_backupsVars
  <2> SUFFICES ASSUME KeepInv, [BackupsNext]_backupsVars, NEW n \in Copies
               PROVE  n \in Copies' \/ Cardinality({m \in Copies' : m > n}) >= Keep
    OBVIOUS
  <2>1. Copies = OurBackups /\ Copies' = OurBackups'
    BY DEF Copies, OurBackups
  <2>2. {m \in Copies' : m > n} = Above(n)'
    BY <2>1 DEF Above
  <2> QED BY <2>1, <2>2, NextKeeps
<1> QED BY <1>2, <1>3, PTL DEF BackupsSpec, NewestKept
-----------------------------------------------------------------------------
(* One process after another: what a boot read is still what is there, and *)
(* every copy holds a campaign.                                            *)

Hardening == {"check", "count", "choose", "copy", "publish"}
AtMostOne == \A a, b \in Boots : boot[a].pc # "off" /\ boot[b].pc # "off" => a = b
ReadStands(b) ==
    /\ boot[b].pc \in Hardening =>
         boot[b].opened = dbfile.has /\ boot[b].mtime = dbfile.mtime
    /\ boot[b].pc \in {"choose", "copy", "publish"} => Holds
    /\ boot[b].pc = "publish" => boot[b].copy = dbfile.has
AllHold == \A n \in OurBackups : files[n].has.holds
Alone == AtMostOne /\ AllHold /\ \A b \in Boots : ReadStands(b)

(* With a clock that only goes forward, besides: a copy is named by its    *)
(* date, one dated no earlier than the store is of no earlier edit, and    *)
(* the copy a boot relies on has the newest name and is not condemned.     *)
Dated == \A n \in OurBackups : n = StampOf(files[n].mtime) /\ files[n].mtime <= clock
DatesTell ==
    dbfile.kind = "ok" =>
        \A n \in OurBackups :
            files[n].mtime >= dbfile.mtime => files[n].has.edit >= dbfile.has.edit
Stamped(b) ==
    /\ boot[b].pc \in {"copy", "publish"} => boot[b].stamp = StampOf(clock)
    /\ boot[b].pc = "publish" => boot[b].copied = clock
Relies(b, n) ==
    /\ files[n].has.edit >= boot[b].opened.edit
    /\ boot[b].pc \in {"list", "unlink"} =>
         n \notin boot[b].doomed /\ \A m \in OurBackups : m <= n
Covered(b) ==
    boot[b].pc \in {"list", "unlink", "schema"} /\ boot[b].outcome \in {"copied", "fresh"} =>
        \E n \in OurBackups : Relies(b, n)
Timely == Dated /\ DatesTell /\ \A b \in Boots : Stamped(b) /\ Covered(b)

BackedInv ==
    /\ BackupsTypeOK
    /\ ~faults.beside => Alone
    /\ ~faults.beside /\ faults.back = 0 => Timely

(* The rest follows for every process from the one that is open.           *)
LEMMA OneOpen ==
    ASSUME NEW b \in Boots, \A c \in Boots \ {b} : boot'[c].pc = "off"
    PROVE  /\ AtMostOne'
           /\ ReadStands(b)' => \A c \in Boots : ReadStands(c)'
           /\ Stamped(b)' /\ Covered(b)' => \A c \in Boots : Stamped(c)' /\ Covered(c)'
<1>1. AtMostOne'
  BY DEF AtMostOne
<1>2. \A c \in Boots \ {b} : ReadStands(c)' /\ Stamped(c)' /\ Covered(c)'
  BY DEF ReadStands, Stamped, Covered, Hardening
<1> QED BY <1>1, <1>2, Zenon

LEMMA OthersOff ==
    ASSUME BackupsTypeOK, AtMostOne, NEW b \in Boots, boot[b].pc # "off",
           \A c \in Boots \ {b} : boot'[c] = boot[c]
    PROVE  \A c \in Boots \ {b} : boot'[c].pc = "off"
BY DEF AtMostOne

LEMMA BesideStays ==
    ASSUME BackupsTypeOK, [BackupsNext]_backupsVars
    PROVE  /\ ~faults'.beside => ~faults.beside
           /\ faults'.back = 0 => faults.back = 0
<1>1. faults.back \in Nat
  BY Bounds DEF BackupsTypeOK
<1>2. CASE UNCHANGED faults
  BY <1>2
<1>3. CASE SetClockBack \/ Damage
  BY <1>1, <1>3 DEF SetClockBack, Damage, BackupsTypeOK
<1>4. CASE \E b \in Boots : OpenStore(b)
  BY <1>4 DEF OpenStore, BackupsTypeOK
<1>5. CASE UNCHANGED backupsVars
  BY <1>5 DEF backupsVars
<1> QED BY <1>2, <1>3, <1>4, <1>5 DEF BackupsNext, BootStep, QuickCheck, CountCampaigns, ChooseCopy,
     TakeCopy, PublishCopy, ListRotation, Unlink, CreateSchema, WorkOn, Leave, Restore

LEMMA StampGrows ==
    ASSUME NEW s \in Instant, NEW t \in Instant, s <= t PROVE StampOf(s) <= StampOf(t)
<1>1. s \in Nat /\ t \in Nat /\ PerSecond \in Nat /\ PerSecond >= 1
  BY Bounds
<1> QED BY <1>1 DEF StampOf

(* A step of a boot that changes nothing but itself.                       *)
LEMMA Moved ==
    ASSUME BackedInv, BackupsTypeOK', NEW b \in Boots, boot[b].pc # "off",
           \A c \in Boots \ {b} : boot'[c] = boot[c],
           UNCHANGED <<clock, dbfile, files, faults>>,
           ~faults.beside /\ Alone => ReadStands(b)',
           ~faults.beside /\ faults.back = 0 /\ Alone /\ Timely => Stamped(b)' /\ Covered(b)'
    PROVE  BackedInv'
<1>1. OurBackups' = OurBackups
  BY DEF OurBackups
<1>2. ASSUME ~faults.beside PROVE Alone' /\ \A c \in Boots \ {b} : boot'[c].pc = "off"
  <2>1. Alone
    BY <1>2 DEF BackedInv
  <2>2. \A c \in Boots \ {b} : boot'[c].pc = "off"
    BY <2>1, OthersOff DEF Alone, BackedInv
  <2>3. AllHold'
    BY <1>1, <2>1 DEF Alone, AllHold
  <2> QED BY <1>2, <2>1, <2>2, <2>3, OneOpen, Zenon DEF Alone
<1>3. ASSUME ~faults.beside, faults.back = 0 PROVE Timely'
  <2>1. Timely /\ Alone
    BY <1>3 DEF BackedInv
  <2>2. Dated' /\ DatesTell'
    BY <1>1, <2>1 DEF Timely, Dated, DatesTell
  <2>3. Stamped(b)' /\ Covered(b)'
    BY <1>3, <2>1
  <2> QED BY <1>2, <1>3, <2>2, <2>3, OneOpen, Zenon DEF Timely
<1> QED BY <1>2, <1>3 DEF BackedInv

(* It ended the hardening without relying on a copy, or went on with it.   *)
LEMMA Ended ==
    ASSUME BackupsTypeOK, NEW b \in Boots, NEW p, NEW o, Become(b, p, o)
    PROVE  /\ \A c \in Boots \ {b} : boot'[c] = boot[c]
           /\ boot'[b].pc = p /\ boot'[b].outcome = o /\ boot'[b].opened = boot[b].opened
           /\ boot'[b].doomed = {}
BY DEF Become, NoBoot, BackupsTypeOK

LEMMA Unreliant ==
    ASSUME BackupsTypeOK, NEW b \in Boots,
           \/ \E p \in {"list", "schema"}, o \in {"none", "first", "unverified", "empty", "failed"} :
                Become(b, p, o)
           \/ boot' = [boot EXCEPT ![b] = NoBoot]
           \/ boot' = [boot EXCEPT ![b] = [NoBoot EXCEPT !.pc = "serving"]]
    PROVE  ReadStands(b)' /\ Stamped(b)' /\ Covered(b)' /\ \A c \in Boots \ {b} : boot'[c] = boot[c]
<1>1. CASE \E p \in {"list", "schema"}, o \in {"none", "first", "unverified", "empty", "failed"} :
             Become(b, p, o)
  <2>1. PICK p \in {"list", "schema"}, o \in {"none", "first", "unverified", "empty", "failed"} :
             Become(b, p, o)
    BY <1>1
  <2>2. /\ \A c \in Boots \ {b} : boot'[c] = boot[c]
        /\ boot'[b].pc = p /\ boot'[b].outcome = o
    BY <2>1, Ended
  <2> QED BY <2>2 DEF ReadStands, Stamped, Covered, Hardening
<1>2. CASE boot' = [boot EXCEPT ![b] = NoBoot]
  BY <1>2 DEF ReadStands, Stamped, Covered, Hardening, NoBoot, BackupsTypeOK
<1>3. CASE boot' = [boot EXCEPT ![b] = [NoBoot EXCEPT !.pc = "serving"]]
  BY <1>3 DEF ReadStands, Stamped, Covered, Hardening, NoBoot, BackupsTypeOK
<1> QED BY <1>1, <1>2, <1>3

LEMMA OpenStoreBacked ==
    ASSUME BackedInv, BackupsTypeOK', NEW b \in Boots, OpenStore(b) PROVE BackedInv'
<1>0. BackupsTypeOK /\ OurBackups' = OurBackups
  BY DEF BackedInv, OpenStore, OurBackups
<1>1. /\ \A c \in Boots \ {b} : boot'[c] = boot[c]
      /\ boot'[b].pc = "check" /\ boot'[b].opened = dbfile.has /\ boot'[b].mtime = dbfile.mtime
  BY <1>0 DEF OpenStore, NoBoot, BackupsTypeOK
<1>2. ReadStands(b)' /\ Stamped(b)' /\ Covered(b)'
  BY <1>1 DEF ReadStands, Stamped, Covered, Hardening, OpenStore
<1>3. ASSUME ~faults'.beside PROVE ~faults.beside /\ Alone' /\ \A c \in Boots \ {b} : boot'[c].pc = "off"
  <2>1. ~faults.beside /\ \A c \in Boots : boot[c].pc = "off"
    BY <1>0, <1>3 DEF OpenStore, BackupsTypeOK
  <2>2. \A c \in Boots \ {b} : boot'[c].pc = "off"
    BY <1>1, <2>1
  <2>3. AllHold'
    BY <1>0, <2>1 DEF BackedInv, Alone, AllHold, OpenStore
  <2> QED BY <1>2, <2>1, <2>2, <2>3, OneOpen, Zenon DEF Alone
<1>4. ASSUME ~faults'.beside, faults'.back = 0 PROVE Timely'
  <2>1. Timely
    BY <1>0, <1>3, <1>4 DEF BackedInv, OpenStore, BackupsTypeOK
  <2>2. Dated' /\ DatesTell'
    BY <1>0, <2>1 DEF Timely, Dated, DatesTell, OpenStore
  <2> QED BY <1>2, <1>3, <1>4, <2>2, OneOpen, Zenon DEF Timely
<1> QED BY <1>3, <1>4 DEF BackedInv

LEMMA QuickCheckBacked ==
    ASSUME BackedInv, BackupsTypeOK', NEW b \in Boots, QuickCheck(b) PROVE BackedInv'
<1>0. BackupsTypeOK /\ boot[b].pc # "off" /\ UNCHANGED <<clock, dbfile, files, faults>>
  BY DEF BackedInv, QuickCheck
<1>1. \/ Become(b, "schema", "unverified") \/ Become(b, "schema", "first")
      \/ boot' = [boot EXCEPT ![b] = NoBoot] \/ EnterPhase(b, "count")
  BY DEF QuickCheck, End
<1>2. CASE EnterPhase(b, "count")
  <2>1. /\ \A c \in Boots \ {b} : boot'[c] = boot[c]
        /\ boot'[b].pc = "count" /\ boot'[b].opened = boot[b].opened
        /\ boot'[b].mtime = boot[b].mtime
    BY <1>0, <1>2 DEF EnterPhase, BackupsTypeOK, BootState
  <2>2. Stamped(b)' /\ Covered(b)'
    BY <2>1 DEF Stamped, Covered
  <2>3. Alone => ReadStands(b)'
    BY <1>0, <2>1 DEF Alone, ReadStands, Hardening, QuickCheck
  <2> QED BY <1>0, <2>1, <2>2, <2>3, Moved
<1>3. CASE ~ EnterPhase(b, "count")
  BY <1>0, <1>1, <1>3, Unreliant, Moved
<1> QED BY <1>2, <1>3

LEMMA CountCampaignsBacked ==
    ASSUME BackedInv, BackupsTypeOK', NEW b \in Boots, CountCampaigns(b) PROVE BackedInv'
<1>0. BackupsTypeOK /\ boot[b].pc # "off" /\ UNCHANGED <<clock, dbfile, files, faults>>
  BY DEF BackedInv, CountCampaigns
<1>1. CASE Holds
  <2>1. /\ \A c \in Boots \ {b} : boot'[c] = boot[c]
        /\ boot'[b].pc = "choose" /\ boot'[b].opened = boot[b].opened
        /\ boot'[b].mtime = boot[b].mtime
    BY <1>0, <1>1 DEF CountCampaigns, EnterPhase, BackupsTypeOK, BootState
  <2>2. Stamped(b)' /\ Covered(b)'
    BY <2>1 DEF Stamped, Covered
  <2>3. Holds'
    BY <1>0, <1>1 DEF Holds
  <2>4. Alone => ReadStands(b)'
    BY <1>0, <2>1, <2>3 DEF Alone, ReadStands, Hardening, CountCampaigns
  <2> QED BY <1>0, <2>1, <2>2, <2>4, Moved
<1>2. CASE ~ Holds
  BY <1>0, <1>2, Unreliant, Moved DEF CountCampaigns, End
<1> QED BY <1>1, <1>2

LEMMA ChooseCopyBacked ==
    ASSUME BackedInv, BackupsTypeOK', NEW b \in Boots, ChooseCopy(b) PROVE BackedInv'
<1>0. BackupsTypeOK /\ boot[b].pc # "off" /\ UNCHANGED <<clock, dbfile, files, faults>>
  BY DEF BackedInv, ChooseCopy
<1>1. OurBackups' = OurBackups /\ OurBackups \subseteq Instant /\ Instant \subseteq Nat
  BY <1>0, OursAreInstants, Bounds DEF OurBackups
<1>2. CASE CopyIsFresh(b) /\ Become(b, "schema", "fresh")
  <2>1. /\ \A c \in Boots \ {b} : boot'[c] = boot[c]
        /\ boot'[b].pc = "schema" /\ boot'[b].opened = boot[b].opened
    BY <1>0, <1>2, Ended
  <2>2. ReadStands(b)' /\ Stamped(b)'
    BY <2>1 DEF ReadStands, Stamped, Hardening
  <2>3. ASSUME Alone, Timely PROVE Covered(b)'
    <3> DEFINE M == {files[n].mtime : n \in OurBackups}
    <3>1. M \subseteq Instant /\ M # {}
      BY <1>0, <1>2 DEF CopyIsFresh, OurBackups, BackupsTypeOK
    <3>2. PICK n \in OurBackups : files[n].mtime = NewestCopy
      BY <3>1, MaxIn DEF NewestCopy
    <3>3. ReadStands(b)
      BY <2>3 DEF Alone
    <3>4. /\ boot[b].opened = dbfile.has /\ boot[b].mtime = dbfile.mtime
          /\ dbfile.kind = "ok"
      BY <3>3 DEF ReadStands, Holds, Hardening, ChooseCopy
    <3>5. files[n].mtime >= dbfile.mtime
      BY <1>2, <3>2, <3>4 DEF CopyIsFresh
    <3>6. files[n].has.edit >= dbfile.has.edit
      BY <2>3, <3>4, <3>5 DEF Timely, DatesTell
    <3>7. Relies(b, n)'
      BY <1>0, <2>1, <3>4, <3>6 DEF Relies
    <3> QED BY <1>1, <3>7 DEF Covered
  <2> QED BY <1>0, <2>1, <2>2, <2>3, Moved
<1>3. CASE boot' = [boot EXCEPT ![b].pc = "copy", ![b].stamp = StampOf(clock)]
  <2>1. /\ \A c \in Boots \ {b} : boot'[c] = boot[c]
        /\ boot'[b].pc = "copy" /\ boot'[b].opened = boot[b].opened
        /\ boot'[b].mtime = boot[b].mtime /\ boot'[b].stamp = StampOf(clock)
    BY <1>0, <1>3 DEF BackupsTypeOK, BootState
  <2>2. Stamped(b)' /\ Covered(b)'
    BY <1>0, <2>1 DEF Stamped, Covered, StampOf
  <2>3. Alone => ReadStands(b)'
    BY <1>0, <2>1 DEF Alone, ReadStands, Hardening, ChooseCopy, Holds
  <2> QED BY <1>0, <2>1, <2>2, <2>3, Moved
<1> QED BY <1>2, <1>3 DEF ChooseCopy, End

LEMMA TakeCopyBacked ==
    ASSUME BackedInv, BackupsTypeOK', NEW b \in Boots, TakeCopy(b) PROVE BackedInv'
<1>0. BackupsTypeOK /\ boot[b].pc # "off" /\ UNCHANGED <<clock, dbfile, files, faults>>
  BY DEF BackedInv, TakeCopy
<1>1. CASE boot' = [boot EXCEPT ![b].pc = "publish", ![b].copy = dbfile.has, ![b].copied = clock]
  <2>1. /\ \A c \in Boots \ {b} : boot'[c] = boot[c]
        /\ boot'[b].pc = "publish" /\ boot'[b].opened = boot[b].opened
        /\ boot'[b].mtime = boot[b].mtime /\ boot'[b].stamp = boot[b].stamp
        /\ boot'[b].copy = dbfile.has /\ boot'[b].copied = clock
    BY <1>0, <1>1 DEF BackupsTypeOK, BootState
  <2>2. Timely => Stamped(b)' /\ Covered(b)'
    BY <1>0, <2>1 DEF Timely, Stamped, Covered, StampOf, TakeCopy
  <2>3. Alone => ReadStands(b)'
    BY <1>0, <2>1 DEF Alone, ReadStands, Hardening, TakeCopy, Holds
  <2> QED BY <1>0, <2>1, <2>2, <2>3, Moved
<1>2. CASE Become(b, "list", "failed")
  BY <1>0, <1>2, Unreliant, Moved
<1> QED BY <1>1, <1>2 DEF TakeCopy, Rotate

(* What is published is the store as it was opened, under the newest name. *)
LEMMA PublishCopyBacked ==
    ASSUME BackedInv, BackupsTypeOK', NEW b \in Boots, PublishCopy(b) PROVE BackedInv'
<1>0. BackupsTypeOK /\ boot[b].pc = "publish" /\ UNCHANGED <<clock, dbfile, faults>>
  BY DEF BackedInv, PublishCopy
<1>1. CASE UNCHANGED files /\ Become(b, "list", "failed")
  BY <1>0, <1>1, Unreliant, Moved
<1>2. CASE files' = Published(b) /\ Become(b, "list", "copied")
  <2>0. PICK s : s = boot[b].stamp
    OBVIOUS
  <2>1. /\ \A c \in Boots \ {b} : boot'[c] = boot[c]
        /\ boot'[b].pc = "list" /\ boot'[b].opened = boot[b].opened
        /\ boot'[b].doomed = {}
    BY <1>0, <1>2, Ended
  <2>2. s \in Instant /\ s # Parked
    BY <1>0, <2>0, BootFields, Bounds DEF BackupsTypeOK
  <2>3. /\ OurBackups' = OurBackups \cup {s}
        /\ files'[s] = [has |-> boot[b].copy, mtime |-> boot[b].copied]
        /\ \A n \in OurBackups \ {s} : files'[n] = files[n]
    BY <1>2, <2>0, <2>2 DEF OurBackups, Published
  <2>4. ASSUME ~faults.beside PROVE Alone' /\ Alone /\ \A c \in Boots \ {b} : boot'[c].pc = "off"
    <3>1. Alone
      BY <2>4 DEF BackedInv
    <3>2. \A c \in Boots \ {b} : boot'[c].pc = "off"
      BY <1>0, <2>1, <3>1, OthersOff DEF Alone
    <3>3. ReadStands(b)
      BY <3>1 DEF Alone
    <3>4. files'[s].has.holds
      BY <1>0, <2>3, <3>3 DEF ReadStands, Holds
    <3>5. AllHold'
      BY <2>3, <3>1, <3>4 DEF Alone, AllHold
    <3>6. ReadStands(b)'
      BY <2>1 DEF ReadStands, Hardening
    <3> QED BY <3>1, <3>2, <3>5, <3>6, OneOpen, Zenon DEF Alone
  <2>5. ASSUME ~faults.beside, faults.back = 0 PROVE Timely'
    <3>1. Timely /\ Alone /\ ReadStands(b) /\ Stamped(b)
      BY <2>4, <2>5 DEF BackedInv, Alone, Timely
    <3>2. /\ s = StampOf(clock) /\ files'[s].mtime = clock
          /\ files'[s].has = dbfile.has /\ boot[b].opened = dbfile.has
      BY <1>0, <2>0, <2>3, <3>1 DEF Stamped, ReadStands, Hardening
    <3>3. clock \in Nat /\ dbfile.has.edit \in Nat
      BY <1>0, StoreFields, Bounds DEF BackupsTypeOK, Content
    <3>4. Dated'
      <4>1. ASSUME NEW n \in OurBackups'
            PROVE  n = StampOf(files'[n].mtime) /\ files'[n].mtime <= clock
        <5>1. CASE n = s
          BY <3>2, <3>3, <5>1
        <5>2. CASE n # s
          BY <2>3, <3>1, <5>2 DEF Timely, Dated
        <5> QED BY <5>1, <5>2
      <4> QED BY <1>0, <4>1 DEF Dated, StampOf
    <3>5. DatesTell'
      <4> SUFFICES ASSUME dbfile.kind = "ok", NEW n \in OurBackups', files'[n].mtime >= dbfile.mtime
                   PROVE  files'[n].has.edit >= dbfile.has.edit
        BY <1>0 DEF DatesTell
      <4>1. CASE n = s
        BY <3>2, <3>3, <4>1
      <4>2. CASE n # s
        BY <2>3, <3>1, <4>2 DEF Timely, DatesTell
      <4> QED BY <4>1, <4>2
    <3>6. ASSUME NEW m \in OurBackups' PROVE m <= s
      <4>1. CASE m = s
        BY <2>2, <4>1, Bounds
      <4>2. CASE m # s
        <5>1. m \in OurBackups /\ m = StampOf(files[m].mtime) /\ files[m].mtime <= clock
          BY <2>3, <3>1, <4>2 DEF Timely, Dated
        <5>2. files[m].mtime \in Instant /\ clock \in Instant
          BY <1>0, <5>1 DEF OurBackups, BackupsTypeOK
        <5> QED BY <3>2, <5>1, <5>2, StampGrows
      <4> QED BY <4>1, <4>2
    <3>7. Relies(b, s)'
      BY <2>1, <3>2, <3>3, <3>6 DEF Relies
    <3>8. Stamped(b)' /\ Covered(b)'
      BY <2>1, <2>3, <3>7 DEF Stamped, Covered
    <3> QED BY <2>4, <2>5, <3>4, <3>5, <3>8, OneOpen, Zenon DEF Timely
  <2> QED BY <1>0, <2>4, <2>5 DEF BackedInv
<1> QED BY <1>1, <1>2 DEF PublishCopy, Rotate

(* The newest name is not among those listed.                              *)
LEMMA ListRotationBacked ==
    ASSUME BackedInv, BackupsTypeOK', NEW b \in Boots, ListRotation(b) PROVE BackedInv'
<1>0. BackupsTypeOK /\ boot[b].pc = "list" /\ UNCHANGED <<clock, dbfile, files, faults>>
  BY DEF BackedInv, ListRotation
<1>1. OurBackups' = OurBackups /\ OurBackups \subseteq Instant
  BY <1>0, OursAreInstants DEF OurBackups
<1>2. /\ \A c \in Boots \ {b} : boot'[c] = boot[c]
      /\ boot'[b].pc = "unlink" /\ boot'[b].opened = boot[b].opened
      /\ boot'[b].outcome = boot[b].outcome /\ boot'[b].doomed = BeyondKeep
  BY <1>0 DEF ListRotation, BackupsTypeOK, BootState
<1>3. ReadStands(b)' /\ Stamped(b)'
  BY <1>2 DEF ReadStands, Stamped, Hardening
<1>4. Timely => Covered(b)'
  <2> SUFFICES ASSUME Covered(b), boot[b].outcome \in {"copied", "fresh"}
               PROVE  \E n \in OurBackups : Relies(b, n)'
    BY <1>1, <1>2 DEF Timely, Covered
  <2>1. PICK n \in OurBackups : Relies(b, n)
    BY <1>0 DEF Covered
  <2>2. \A m \in OurBackups : m <= n
    BY <1>0, <2>1 DEF Relies
  <2>3. \A m \in OurBackups : ~ (m > n)
    BY <1>1, <2>2, Bounds
  <2>4. {m \in OurBackups : m > n} = {}
    BY <2>3
  <2>5. n \notin BeyondKeep
    BY <2>4, FS_EmptySet, Bounds DEF BeyondKeep
  <2> QED BY <1>0, <1>1, <1>2, <2>1, <2>2, <2>5 DEF Relies
<1> QED BY <1>0, <1>2, <1>3, <1>4, Moved

LEMMA UnlinkBacked ==
    ASSUME BackedInv, BackupsTypeOK', NEW b \in Boots, Unlink(b) PROVE BackedInv'
<1>0. BackupsTypeOK /\ boot[b].pc = "unlink" /\ UNCHANGED <<clock, dbfile, faults>>
  BY DEF BackedInv, Unlink
<1>1. CASE UNCHANGED files /\ Become(b, "schema", boot[b].outcome)
  <2>0. OurBackups' = OurBackups
    BY <1>1 DEF OurBackups
  <2>1. /\ \A c \in Boots \ {b} : boot'[c] = boot[c]
        /\ boot'[b].pc = "schema" /\ boot'[b].opened = boot[b].opened
        /\ boot'[b].outcome = boot[b].outcome
    BY <1>0, <1>1, Ended
  <2>2. ReadStands(b)' /\ Stamped(b)'
    BY <2>1 DEF ReadStands, Stamped, Hardening
  <2>3. Timely => Covered(b)'
    BY <1>0, <1>1, <2>0, <2>1 DEF Timely, Covered, Relies
  <2> QED BY <1>0, <1>1, <2>1, <2>2, <2>3, Moved
<1>2. ASSUME NEW old, old = Min(boot[b].doomed), boot[b].doomed # {},
             files' = [n \in DOMAIN files \ {old} |-> files[n]],
             boot' = [boot EXCEPT ![b].doomed = @ \ {old}]
      PROVE  BackedInv'
  <2>1. boot[b].doomed \subseteq Instant
    BY <1>0, BootFields DEF BackupsTypeOK
  <2>2. old \in boot[b].doomed
    BY <1>2, <2>1, MinIn
  <2>3. /\ \A c \in Boots \ {b} : boot'[c] = boot[c]
        /\ boot'[b].pc = "unlink" /\ boot'[b].opened = boot[b].opened
        /\ boot'[b].outcome = boot[b].outcome /\ boot'[b].doomed = boot[b].doomed \ {old}
    BY <1>0, <1>2 DEF BackupsTypeOK, BootState
  <2>4. OurBackups' = OurBackups \ {old} /\ \A n \in OurBackups' : files'[n] = files[n]
    BY <1>2 DEF OurBackups
  <2>5. ASSUME ~faults.beside PROVE Alone' /\ \A c \in Boots \ {b} : boot'[c].pc = "off"
    <3>1. Alone
      BY <2>5 DEF BackedInv
    <3>2. \A c \in Boots \ {b} : boot'[c].pc = "off"
      BY <1>0, <2>3, <3>1, OthersOff DEF Alone
    <3>3. AllHold'
      BY <2>4, <3>1 DEF Alone, AllHold
    <3>4. ReadStands(b)'
      BY <2>3 DEF ReadStands, Hardening
    <3> QED BY <3>2, <3>3, <3>4, OneOpen, Zenon DEF Alone
  <2>6. ASSUME ~faults.beside, faults.back = 0 PROVE Timely'
    <3>1. Timely
      BY <2>6 DEF BackedInv
    <3>2. Dated' /\ DatesTell'
      BY <1>0, <2>4, <3>1 DEF Timely, Dated, DatesTell, StampOf
    <3>3. ASSUME boot[b].outcome \in {"copied", "fresh"} PROVE Covered(b)'
      <4>1. PICK n \in OurBackups : Relies(b, n)
        BY <1>0, <3>1, <3>3 DEF Timely, Covered
      <4>2. n \in OurBackups' /\ Relies(b, n)'
        BY <1>0, <2>2, <2>3, <2>4, <4>1 DEF Relies
      <4> QED BY <4>2 DEF Covered
    <3>4. Stamped(b)' /\ Covered(b)'
      BY <2>3, <3>3 DEF Stamped, Covered
    <3> QED BY <2>5, <2>6, <3>2, <3>4, OneOpen, Zenon DEF Timely
  <2> QED BY <1>0, <2>5, <2>6 DEF BackedInv
<1> QED BY <1>1, <1>2 DEF Unlink, End

(* A commit is later than every copy.                                      *)
LEMMA CommitBacked ==
    ASSUME BackedInv, BackupsTypeOK', NEW b \in Boots, boot[b].pc # "off",
           NEW h \in BOOLEAN, CommitStore(h), UNCHANGED <<files, faults>>,
           \A c \in Boots \ {b} : boot'[c] = boot[c], boot'[b].pc = "serving"
    PROVE  BackedInv'
<1>0. BackupsTypeOK /\ OurBackups' = OurBackups
  BY DEF BackedInv, OurBackups
<1>1. ReadStands(b)' /\ Stamped(b)' /\ Covered(b)'
  BY DEF ReadStands, Stamped, Covered, Hardening
<1>2. ASSUME ~faults.beside PROVE Alone' /\ \A c \in Boots \ {b} : boot'[c].pc = "off"
  <2>1. Alone
    BY <1>2 DEF BackedInv
  <2>2. \A c \in Boots \ {b} : boot'[c].pc = "off"
    BY <1>0, <2>1, OthersOff DEF Alone
  <2>3. AllHold'
    BY <1>0, <2>1 DEF Alone, AllHold
  <2> QED BY <1>1, <2>2, <2>3, OneOpen, Zenon DEF Alone
<1>3. ASSUME ~faults.beside, faults.back = 0 PROVE Timely'
  <2>1. Timely
    BY <1>3 DEF BackedInv
  <2>2. \A n \in OurBackups : files[n].mtime \in Nat /\ files[n].mtime <= clock
    BY <1>0, <2>1, Bounds DEF Timely, Dated, OurBackups, BackupsTypeOK
  <2>3. clock \in Nat /\ clock' = clock + 1 /\ dbfile'.mtime = clock + 1
    BY <1>0, Bounds DEF CommitStore, BackupsTypeOK
  <2>4. Dated'
    BY <1>0, <2>1, <2>2, <2>3 DEF Timely, Dated, StampOf
  <2>5. DatesTell'
    BY <1>0, <2>2, <2>3 DEF DatesTell
  <2> QED BY <1>1, <1>2, <1>3, <2>4, <2>5, OneOpen, Zenon DEF Timely
<1> QED BY <1>2, <1>3 DEF BackedInv

LEMMA SessionBacked ==
    ASSUME BackedInv, BackupsTypeOK', NEW b \in Boots, CreateSchema(b) \/ WorkOn(b) \/ Leave(b)
    PROVE  BackedInv'
<1>0. BackupsTypeOK /\ boot[b].pc # "off" /\ UNCHANGED <<files, faults>>
  BY DEF BackedInv, CreateSchema, WorkOn, Leave
<1>1. CASE CreateSchema(b)
  <2>1. boot' = [boot EXCEPT ![b] = [NoBoot EXCEPT !.pc = "serving"]]
    BY <1>1 DEF CreateSchema
  <2>2. (\A c \in Boots \ {b} : boot'[c] = boot[c]) /\ boot'[b].pc = "serving"
    BY <1>0, <2>1 DEF BackupsTypeOK, NoBoot
  <2>3. CASE UNCHANGED <<clock, dbfile>>
    BY <1>0, <2>1, <2>3, Unreliant, Moved
  <2>4. CASE CommitStore(FALSE)
    BY <1>0, <2>2, <2>4, CommitBacked
  <2> QED BY <1>1, <2>3, <2>4 DEF CreateSchema
<1>2. CASE WorkOn(b)
  BY <1>0, <1>2, CommitBacked DEF WorkOn
<1>3. CASE Leave(b)
  BY <1>0, <1>3, Unreliant, Moved DEF Leave
<1> QED BY <1>1, <1>2, <1>3

(* The world around it.                                                    *)
LEMMA WorldBacked ==
    ASSUME BackedInv, BackupsTypeOK', SetClockBack \/ Damage
    PROVE  BackedInv'
<1>0. BackupsTypeOK /\ OurBackups' = OurBackups
  BY DEF BackedInv, SetClockBack, Damage, OurBackups
<1>1. CASE SetClockBack
  <2>1. faults'.back # 0 /\ faults'.beside = faults.beside
    BY <1>0, <1>1, Bounds DEF SetClockBack, BackupsTypeOK
  <2>2. Alone => Alone'
    BY <1>0, <1>1 DEF SetClockBack, Alone, AtMostOne, AllHold, ReadStands, Holds
  <2> QED BY <2>1, <2>2 DEF BackedInv
<1>2. CASE Damage
  <2>1. faults'.back = faults.back /\ faults'.beside = faults.beside
    BY <1>0, <1>2 DEF Damage, BackupsTypeOK
  <2>2. \A b \in Boots : boot'[b].pc = "off"
    BY <1>2 DEF Damage, NoBoot
  <2>3. AtMostOne' /\ \A b \in Boots : ReadStands(b)' /\ Stamped(b)' /\ Covered(b)'
    BY <2>2 DEF AtMostOne, ReadStands, Stamped, Covered, Hardening
  <2>4. Alone => Alone'
    BY <1>0, <1>2, <2>3 DEF Alone, AllHold, Damage
  <2>5. dbfile'.kind # "ok"
    BY <1>2 DEF Damage
  <2>6. Timely => Timely'
    BY <1>0, <1>2, <2>3, <2>5 DEF Timely, Dated, DatesTell, Damage, StampOf
  <2> QED BY <2>1, <2>4, <2>6 DEF BackedInv
<1> QED BY <1>1, <1>2

(* The newest copy by name is the one of the latest date.                  *)
LEMMA RestoreBacked ==
    ASSUME BackedInv, BackupsTypeOK', Restore
    PROVE  BackedInv'
<1>0. BackupsTypeOK /\ OurBackups' = OurBackups /\ UNCHANGED <<clock, files, boot, faults>>
  BY DEF BackedInv, Restore, OurBackups
<1>1. \A b \in Boots : boot'[b].pc = "off"
  BY <1>0 DEF Restore
<1>2. \A b \in Boots : ReadStands(b)' /\ Stamped(b)' /\ Covered(b)'
  BY <1>1 DEF ReadStands, Stamped, Covered, Hardening
<1>3. Alone => Alone'
  BY <1>0, <1>2 DEF Alone, AtMostOne, AllHold
<1>4. PICK k : k = Max(OurBackups)
  OBVIOUS
<1>5. k \in OurBackups /\ k \in Instant
  BY <1>0, <1>4, MaxIn, OursAreInstants DEF Restore
<1>6. /\ dbfile'.has = files[k].has
      /\ dbfile'.mtime = files[k].mtime \/ dbfile'.mtime = clock
  BY <1>4 DEF Restore
<1>7. ASSUME Timely PROVE DatesTell'
  <2> SUFFICES ASSUME NEW n \in OurBackups, files[n].mtime >= dbfile'.mtime
               PROVE  files[n].has.edit >= files[k].has.edit
    BY <1>0, <1>6 DEF DatesTell
  <2>1. /\ k = StampOf(files[k].mtime) /\ n = StampOf(files[n].mtime)
        /\ files[k].mtime <= clock
    BY <1>5, <1>7 DEF Timely, Dated
  <2>2. files[k].mtime \in Instant /\ files[n].mtime \in Instant /\ clock \in Instant
        /\ files[k].has.edit \in Nat /\ n \in Instant
    BY <1>0, <1>5, OursAreInstants DEF OurBackups, BackupsTypeOK, Content
  <2>3. files[k].mtime <= files[n].mtime
    BY <1>6, <2>1, <2>2, Bounds
  <2>4. k <= n
    BY <2>1, <2>2, <2>3, StampGrows
  <2>5. n <= k
    BY <1>0, <1>4, MaxAbove, OursAreInstants
  <2>6. n = k
    BY <1>5, <2>2, <2>4, <2>5, Bounds
  <2> QED BY <2>2, <2>6
<1>8. Timely => Timely'
  BY <1>0, <1>2, <1>7 DEF Timely, Dated, StampOf
<1> QED BY <1>0, <1>3, <1>8 DEF BackedInv

LEMMA NextBacked ==
    ASSUME BackedInv, [BackupsNext]_backupsVars PROVE BackedInv'
<1>1. BackupsTypeOK'
  BY NextType DEF BackedInv
<1>2. CASE UNCHANGED backupsVars
  BY <1>1, <1>2 DEF backupsVars, BackedInv, Alone, AtMostOne, AllHold, ReadStands, Holds, Timely, Dated,
     DatesTell, Stamped, Covered, Relies, StampOf, OurBackups
<1>3. ASSUME NEW b \in Boots, BootStep(b) PROVE BackedInv'
  <2>1. CASE OpenStore(b) \/ QuickCheck(b) \/ CountCampaigns(b) \/ ChooseCopy(b)
    BY <1>1, <2>1, OpenStoreBacked, QuickCheckBacked, CountCampaignsBacked, ChooseCopyBacked
  <2>2. CASE TakeCopy(b) \/ PublishCopy(b) \/ ListRotation(b) \/ Unlink(b)
    BY <1>1, <2>2, TakeCopyBacked, PublishCopyBacked, ListRotationBacked, UnlinkBacked
  <2>3. CASE CreateSchema(b) \/ WorkOn(b) \/ Leave(b)
    BY <1>1, <2>3, SessionBacked
  <2> QED BY <1>3, <2>1, <2>2, <2>3 DEF BootStep
<1> QED BY <1>1, <1>2, <1>3, WorldBacked, RestoreBacked DEF BackupsNext

LEMMA InitBacked == BackupsInit => BackedInv
<1> SUFFICES ASSUME BackupsInit PROVE BackedInv
  OBVIOUS
<1>1. BackupsTypeOK /\ OurBackups = {} /\ \A b \in Boots : boot[b].pc = "off"
  BY InitType DEF BackupsInit, OurBackups, NoBoot
<1>2. \A b \in Boots : ReadStands(b) /\ Stamped(b) /\ Covered(b)
  BY <1>1 DEF ReadStands, Stamped, Covered, Hardening
<1>3. Alone /\ Timely
  BY <1>1, <1>2 DEF Alone, AtMostOne, AllHold, Timely, Dated, DatesTell
<1> QED BY <1>1, <1>3 DEF BackedInv

LEMMA AlwaysBacked == BackupsSpec => []BackedInv
<1>1. BackedInv /\ [BackupsNext]_backupsVars => BackedInv'
  BY NextBacked
<1> QED BY <1>1, InitBacked, PTL DEF BackupsSpec

\* A boot that ends saying that the store was copied, or that the newest copy is
\* still good, leaves a copy at least as new as what it opened, for any number
\* of boots, damaged files and restored copies, as long as processes come one
\* after another and no clock is set back (storage.py, _boot_hardening).
THEOREM BootsLeaveACopy == BackupsSpec => []NothingUnbacked
<1>1. BackedInv => NothingUnbacked
  <2> SUFFICES ASSUME BackedInv, faults.back = 0, ~faults.beside, NEW b \in Boots,
                      boot[b].pc = "schema", boot[b].outcome \in {"copied", "fresh"}
               PROVE  \E n \in Copies : files[n].has.edit >= boot[b].opened.edit
    BY DEF NothingUnbacked
  <2>1. PICK n \in OurBackups : Relies(b, n)
    BY DEF BackedInv, Timely, Covered
  <2> QED BY <2>1 DEF Relies, Copies, OurBackups
<1> QED BY <1>1, AlwaysBacked, PTL

\* While processes come one after another, a folder that holds a copy with a
\* campaign is never left without one, also when a clock is set back, the file is
\* damaged or a process dies in the middle (storage.py, _boot_hardening and
\* _rotate_backups).
THEOREM CampaignCopiesStay == BackupsSpec => EvidenceKept
<1>1. KeepInv /\ [BackupsNext]_backupsVars => KeepInv'
  BY NextKeeps
<1>2. BackupsSpec => []KeepInv
  BY <1>1, InitKeeps, PTL DEF BackupsSpec
<1>3. BackedInv /\ BackedInv' /\ KeepInv /\ [BackupsNext]_backupsVars =>
        [~faults.beside /\ (\E n \in Copies : files[n].has.holds) =>
           (\E n \in Copies' : files'[n].has.holds)]_backupsVars
  <2> SUFFICES ASSUME BackedInv, BackedInv', KeepInv, [BackupsNext]_backupsVars, ~faults.beside,
                      NEW n \in Copies, files[n].has.holds
               PROVE  (\E m \in Copies' : files'[m].has.holds) \/ UNCHANGED backupsVars
    OBVIOUS
  <2>1. Copies = OurBackups /\ Copies' = OurBackups'
    BY DEF Copies, OurBackups
  <2>2. CASE ~faults'.beside
    <3>1. OurBackups' # {}
      <4>1. CASE n \in OurBackups'
        BY <4>1
      <4>2. CASE Cardinality(Above(n)') >= Keep
        <5>1. PICK above : above = Above(n)'
          OBVIOUS
        <5>2. Cardinality(above) >= Keep
          BY <4>2, <5>1
        <5>3. Cardinality({}) = 0
          BY FS_EmptySet
        <5>4. above # {}
          BY <5>2, <5>3, Bounds
        <5> QED BY <5>1, <5>4 DEF Above
      <4> QED BY <2>1, <4>1, <4>2, NextKeeps
    <3> QED BY <2>1, <2>2, <3>1 DEF BackedInv, Alone, AllHold
  <2>3. CASE faults'.beside
    <3>1. faults' # faults
      BY <2>3
    <3>2. UNCHANGED files
      BY <3>1 DEF BackupsNext, BootStep, backupsVars, OpenStore, QuickCheck, CountCampaigns, ChooseCopy,
         TakeCopy, PublishCopy, ListRotation, Unlink, CreateSchema, WorkOn, Leave, SetClockBack, Damage,
         Restore
    <3> QED BY <2>1, <3>2 DEF OurBackups
  <2> QED BY <2>2, <2>3
<1> QED BY <1>2, <1>3, AlwaysBacked, PTL DEF BackupsSpec, EvidenceKept
=============================================================================
