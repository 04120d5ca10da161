--------------------------- MODULE CarriageUpgrade --------------------------
(***************************************************************************)
(* The upgrade of a snapshot store that has no carriage projections        *)
(* (webapp/backend/storage.py, Store.__init__ and                          *)
(* _resume_pending_carriage_upgrades): one transaction seals every         *)
(* snapshot and marks it pending, then each pending one is prepared        *)
(* outside every lock and published in a transaction of its own.  Several  *)
(* processes may open the file, and a process that serves adds and deletes *)
(* snapshots meanwhile.                                                    *)
(*                                                                         *)
(* A source is an edit number: only a change behind the program's back     *)
(* makes a new one.  A seal is the edit it was taken from, and the parts   *)
(* of a snapshot are the set of [of, under] they were prepared from and    *)
(* bound to.                                                               *)
(***************************************************************************)
EXTENDS Integers

CONSTANTS Procs,       \* the processes that open the file
          Stored,      \* the number of snapshots in the file at the start
          MaxId,       \* bound: the last snapshot id
          Malformed,   \* the stored snapshots whose bytes are not an object
          Oversized,   \* those whose projection exceeds the payload limit
          MaxKills,    \* bound: processes ended at any point
          MaxDeletes,  \* bound: deletions
          MaxTampers   \* bound: changes behind the program's back

ASSUME CarriageAssumption ==
    /\ MaxId \in Nat
    /\ Stored \in 0 .. MaxId
    /\ Malformed \subseteq 1 .. Stored
    /\ Oversized \subseteq 1 .. Stored
    /\ MaxKills \in Nat /\ MaxDeletes \in Nat /\ MaxTampers \in Nat

VARIABLES schema,   \* "raw": no projection columns; "v1": the first ones; "v2"
          rows,     \* snapshot id -> its row, seal and parts
          lastId,   \* the highest id ever given
          proc,     \* what each process is doing
          used      \* how much of each bound is used

carriageVars == <<schema, rows, lastId, proc, used>>

Ids == 1 .. MaxId
Edits == 0 .. MaxTampers
Unsealed == -1
Part == [of : Edits, under : Edits]
CarriageRow == [source : Edits, seal : Edits \cup {Unsealed},
                version : {"unmarked", "superseded", "pending", "ready"},
                parts : SUBSET Part]

Phases == {"off", "inspected", "resume", "bind", "parts", "stage", "publish", "serving"}
Refusals == {"none", "reseal", "missing", "unsealed", "partial", "limit", "changed"}
Process == [pc : Phases, rawOnly : BOOLEAN, after : 0 .. MaxId,
            held : Edits, refused : Refusals]
Closed == [pc |-> "off", rawOnly |-> FALSE, after |-> 0, held |-> 0, refused |-> "none"]

CarriageInit ==
    /\ schema \in {"raw", "v1"}
    /\ rows = [i \in 1 .. Stored |->
                 IF schema = "raw"
                 THEN [source |-> 0, seal |-> Unsealed, version |-> "unmarked", parts |-> {}]
                 ELSE [source |-> 0, seal |-> 0, version |-> "unmarked", parts |-> {}]]
    /\ lastId = Stored
    /\ proc = [p \in Procs |-> Closed]
    /\ used = [kills |-> 0, deletes |-> 0, tampers |-> 0]

Goto(p, phase) == proc' = [proc EXCEPT ![p].pc = phase]
(* A boot that raises closes its connection; why is kept until the next.   *)
Refuse(p, why) == proc' = [proc EXCEPT ![p] = [Closed EXCEPT !.refused = why]]

-----------------------------------------------------------------------------
(* Opening the file.                                                       *)

(* The schema is inspected before any transaction.                         *)
Inspect(p) ==
    /\ proc[p].pc = "off"
    /\ proc' = [proc EXCEPT ![p] = [Closed EXCEPT
                  !.pc = "inspected", !.rawOnly = (schema = "raw")]]
    /\ UNCHANGED <<schema, rows, lastId, used>>

(* Sealing inserts one row for each snapshot, and never over another.      *)
AlreadySealed == \E i \in DOMAIN rows : rows[i].seal # Unsealed

SealAgain(p) ==                                                    \* a mutant
    /\ proc[p].pc = "inspected"
    /\ proc[p].rawOnly
    /\ schema' = "v2"
    /\ rows' = [i \in DOMAIN rows |->
                  [rows[i] EXCEPT !.seal = rows[i].source,
                     !.version = IF schema = "raw" THEN "pending" ELSE @]]
    /\ Goto(p, "resume")
    /\ UNCHANGED <<lastId, used>>

(* The schema, the markers and the seals of a raw store are one            *)
(* transaction.  A process that decided it on an older schema inserts a    *)
(* seal that is there already, and its boot fails.                         *)
MigrateRaw(p) ==
    /\ proc[p].pc = "inspected"
    /\ proc[p].rawOnly
    /\ IF AlreadySealed
       THEN Refuse(p, "reseal") /\ UNCHANGED <<schema, rows>>
       ELSE /\ schema' = "v2"
            /\ rows' = [i \in DOMAIN rows |->
                          [rows[i] EXCEPT !.seal = rows[i].source,
                             !.version = IF schema = "raw" THEN "pending" ELSE @]]
            /\ Goto(p, "resume")
    /\ UNCHANGED <<lastId, used>>

(* A store of the first projection has its rows superseded, never          *)
(* prepared again.                                                         *)
MigrateOther(p) ==
    /\ proc[p].pc = "inspected"
    /\ ~proc[p].rawOnly
    /\ schema' = "v2"
    /\ rows' = IF schema = "v1"
               THEN [i \in DOMAIN rows |-> [rows[i] EXCEPT !.version = "superseded"]]
               ELSE rows
    /\ Goto(p, "resume")
    /\ UNCHANGED <<lastId, used>>

-----------------------------------------------------------------------------
(* Resuming pending upgrades, one snapshot at a time in order of id.       *)

PendingAfter(i) == {j \in DOMAIN rows : j > i /\ rows[j].version = "pending"}

PickPending(p) ==
    /\ proc[p].pc = "resume"
    /\ LET pending == PendingAfter(proc[p].after)
       IN  \/ /\ pending = {}
              /\ proc' = [proc EXCEPT ![p] = [Closed EXCEPT !.pc = "serving"]]
           \/ \E i \in pending :
                /\ \A j \in pending : i <= j
                /\ proc' = [proc EXCEPT ![p].pc = "bind", ![p].after = i]
    /\ UNCHANGED <<schema, rows, lastId, used>>

AnySeal(i) == rows[i].seal # Unsealed                              \* a mutant
Sealed(i) == rows[i].seal = rows[i].source

(* The source and its seal are one statement, apart from the one before    *)
(* and the one after.                                                      *)
BindSource(p) ==
    /\ proc[p].pc = "bind"
    /\ LET i == proc[p].after
       IN  \/ i \notin DOMAIN rows /\ Refuse(p, "missing")
           \/ i \in DOMAIN rows /\ ~Sealed(i) /\ Refuse(p, "unsealed")
           \/ /\ i \in DOMAIN rows
              /\ Sealed(i)
              /\ proc' = [proc EXCEPT ![p].pc = "parts", ![p].held = rows[i].source]
    /\ UNCHANGED <<schema, rows, lastId, used>>

NoPartsYet(p) ==
    /\ proc[p].pc = "parts"
    /\ LET i == proc[p].after
       IN  IF i \in DOMAIN rows /\ rows[i].parts # {}
           THEN Refuse(p, "partial")
           ELSE Goto(p, "stage")
    /\ UNCHANGED <<schema, rows, lastId, used>>

(* Malformed bytes stay pending and do not stop the ones after them.       *)
Stage(p) ==
    /\ proc[p].pc = "stage"
    /\ LET i == proc[p].after
       IN  \/ i \in Malformed /\ Goto(p, "resume")
           \/ i \in Oversized \ Malformed /\ Refuse(p, "limit")
           \/ i \notin Malformed \cup Oversized /\ Goto(p, "publish")
    /\ UNCHANGED <<schema, rows, lastId, used>>

SourceAsHeld(p) ==
    LET i == proc[p].after
    IN  i \in DOMAIN rows /\ Sealed(i) /\ rows[i].source = proc[p].held

Publishable(p) ==
    /\ SourceAsHeld(p)
    /\ rows[proc[p].after].version = "pending"
    /\ rows[proc[p].after].parts = {}

(* One transaction: the source is read again and compared, a snapshot      *)
(* another process completed is left alone, and the parts and the marker   *)
(* are written together.                                                   *)
Publish(p) ==
    /\ proc[p].pc = "publish"
    /\ LET i == proc[p].after
       IN  \/ /\ SourceAsHeld(p)
              /\ rows[i].version = "ready"
              /\ Goto(p, "resume")
              /\ UNCHANGED rows
           \/ /\ Publishable(p)
              /\ rows' = [rows EXCEPT ![i].version = "ready",
                            ![i].parts = {[of |-> proc[p].held, under |-> rows[i].seal]}]
              /\ Goto(p, "resume")
           \/ /\ ~Publishable(p)
              /\ SourceAsHeld(p) => rows[i].version # "ready"
              /\ Refuse(p, "changed")
              /\ UNCHANGED rows
    /\ UNCHANGED <<schema, lastId, used>>

-----------------------------------------------------------------------------
(* A process that serves.                                                  *)

(* A new snapshot is prepared from its final bytes first; its row, seal    *)
(* and parts are one transaction.                                          *)
AddSnapshot(p) ==
    /\ proc[p].pc = "serving"
    /\ lastId < MaxId
    /\ lastId' = lastId + 1
    /\ rows' = [i \in DOMAIN rows \cup {lastId + 1} |->
                  IF i \in DOMAIN rows THEN rows[i]
                  ELSE [source |-> 0, seal |-> 0, version |-> "ready",
                        parts |-> {[of |-> 0, under |-> 0]}]]
    /\ UNCHANGED <<schema, proc, used>>

DeleteSnapshot(p) ==
    /\ proc[p].pc = "serving"
    /\ used.deletes < MaxDeletes
    /\ used' = [used EXCEPT !.deletes = @ + 1]
    /\ \E i \in DOMAIN rows : rows' = [j \in DOMAIN rows \ {i} |-> rows[j]]
    /\ UNCHANGED <<schema, lastId, proc>>

(* The process ends, at any point.                                         *)
KillBoot(p) ==
    /\ proc[p].pc # "off"
    /\ used.kills < MaxKills
    /\ used' = [used EXCEPT !.kills = @ + 1]
    /\ proc' = [proc EXCEPT ![p] = Closed]
    /\ UNCHANGED <<schema, rows, lastId>>

(* The stored bytes of a snapshot change behind the program's back.        *)
Tamper ==
    /\ used.tampers < MaxTampers
    /\ used' = [used EXCEPT !.tampers = @ + 1]
    /\ \E i \in DOMAIN rows : rows' = [rows EXCEPT ![i].source = used.tampers + 1]
    /\ UNCHANGED <<schema, lastId, proc>>

Open(p) == Inspect(p) \/ MigrateRaw(p) \/ MigrateOther(p)
Resume(p) == PickPending(p) \/ BindSource(p) \/ NoPartsYet(p) \/ Stage(p) \/ Publish(p)
Serve(p) == AddSnapshot(p) \/ DeleteSnapshot(p)

CarriageNext == (\E p \in Procs : Open(p) \/ Resume(p) \/ Serve(p) \/ KillBoot(p)) \/ Tamper

CarriageSpec == CarriageInit /\ [][CarriageNext]_carriageVars

-----------------------------------------------------------------------------
(* Properties.                                                             *)

(* The type of every variable.                                             *)
CarriageTypeOK ==
    /\ schema \in {"raw", "v1", "v2"}
    /\ DOMAIN rows \subseteq Ids
    /\ rows \in [DOMAIN rows -> CarriageRow]
    /\ lastId \in 0 .. MaxId
    /\ proc \in [Procs -> Process]
    /\ used \in [kills : 0 .. MaxKills, deletes : 0 .. MaxDeletes, tampers : 0 .. MaxTampers]

(* What a projection is read from was prepared from the bytes that were    *)
(* sealed and is bound to that seal, whatever changed between staging and  *)
(* publication; and parts and marker come together.                        *)
PartsAreOfTheSeal ==
    \A i \in DOMAIN rows :
        /\ rows[i].version = "ready" <=> rows[i].parts # {}
        /\ rows[i].parts \subseteq {[of |-> rows[i].seal, under |-> rows[i].seal]}

(* A seal, once taken, is never taken again, and a completed or superseded *)
(* snapshot is never prepared again: however boots overlap, a changed      *)
(* source cannot certify itself.                                           *)
NeverResealed ==
    [][\A i \in DOMAIN rows \cap (DOMAIN rows)' :
         /\ rows[i].seal # Unsealed => rows'[i].seal = rows[i].seal
         /\ rows[i].version \in {"ready", "superseded"} =>
              rows'[i].version = rows[i].version /\ rows'[i].parts = rows[i].parts]_carriageVars
=============================================================================
