---------------------------- MODULE StoreBackups ----------------------------
(***************************************************************************)
(* What a hardened boot of the snapshot store does before the schema is    *)
(* touched (webapp/backend/storage.py, Store._boot_hardening): refuse a    *)
(* store that fails its integrity check, copy one that changed since the   *)
(* newest copy, and keep the newest Keep copies by name.                   *)
(*                                                                         *)
(* Time is one number.  A commit always moves it, so two commits never     *)
(* share a modification time; a copy is named by its second, which is      *)
(* PerSecond instants long.  Partial files never match the pattern of an   *)
(* owned name and carry a random one, so they are not modelled; the file   *)
(* the engineer parked beside the copies is.                               *)
(***************************************************************************)
EXTENDS Integers, FiniteSets, FiniteSetsExt

CONSTANTS Boots,     \* the processes that open this store
          Keep,      \* _BACKUP_KEEP
          PerSecond, \* instants that share a name stamp
          MaxClock,  \* bound: the last instant, and the number of commits
          MaxBack,   \* bound: how often a clock is set back
          MaxFaults  \* bound: how often the file is truncated or torn

ASSUME BackupAssumption ==
    /\ Keep \in Nat \ {0}
    /\ PerSecond \in Nat \ {0}
    /\ MaxClock \in Nat
    /\ MaxBack \in Nat
    /\ MaxFaults \in Nat

VARIABLES clock,  \* now, as the machine's clock tells it
          edits,  \* the number of contents the store has had
          dbfile, \* the database file
          files,  \* the backup folder: name -> a file
          boot,   \* what each process is doing
          faults  \* what went wrong so far, and whether two processes were open at once

backupsVars == <<clock, edits, dbfile, files, boot, faults>>

Instant == 0 .. MaxClock
NoDate == -1
Parked == MaxClock + 1                  \* sorts after every stamp
StampOf(t) == t \div PerSecond

(* The contents of a database: which edit it is, and whether it holds a    *)
(* campaign.                                                               *)
Content == [edit : Nat, holds : BOOLEAN]
Nothing == [edit |-> 0, holds |-> FALSE]

(* "bare" is a zero-byte file: a valid database with no table.             *)
Stores == [kind : {"none", "bare", "ok", "torn"}, has : Content,
           mtime : Instant \cup {NoDate}]
Holds == dbfile.kind = "ok" /\ dbfile.has.holds

BootPhases == {"off", "check", "count", "choose", "copy", "publish", "list",
           "unlink", "schema", "serving"}
Outcomes == {"none", "first", "unverified", "empty", "fresh", "copied", "failed"}
BootState == [pc : BootPhases, mtime : Instant \cup {NoDate}, opened : Content,
              stamp : Instant, copy : Content, copied : Instant,
              doomed : SUBSET Instant, outcome : Outcomes]
NoBoot == [pc |-> "off", mtime |-> NoDate, opened |-> Nothing, stamp |-> 0,
           copy |-> Nothing, copied |-> 0, doomed |-> {}, outcome |-> "none"]

(* Only files whose name is a stamp are ours, oldest name first.           *)
OurBackups == DOMAIN files \ {Parked}
OldestKept == {n \in OurBackups :                                  \* a mutant
                 Cardinality({m \in OurBackups : m < n}) >= Keep}
BeyondKeep == {n \in OurBackups :
                 Cardinality({m \in OurBackups : m > n}) >= Keep}
NewestCopy == Max({files[n].mtime : n \in OurBackups})

BackupsInit ==
    /\ clock = 0
    /\ edits = 0
    /\ dbfile = [kind |-> "none", has |-> Nothing, mtime |-> NoDate]
    /\ files \in {[n \in {} |-> 0], [n \in {Parked} |-> [has |-> Nothing, mtime |-> 0]]}
    /\ boot = [b \in Boots |-> NoBoot]
    /\ faults = [back |-> 0, file |-> 0, beside |-> FALSE]

(* The locals of a boot end with it; what it opened and how it ended stay  *)
(* until the schema is there.                                              *)
EnterPhase(b, phase) == boot' = [boot EXCEPT ![b].pc = phase]
Become(b, phase, result) ==
    boot' = [boot EXCEPT ![b] = [NoBoot EXCEPT
               !.pc = phase, !.opened = boot[b].opened, !.outcome = result]]
End(b, result) == Become(b, "schema", result)
Rotate(b, result) == Become(b, "list", result)

-----------------------------------------------------------------------------
(* One boot.                                                               *)

(* The modification time is read before the connection is opened.          *)
OpenStore(b) ==
    /\ boot[b].pc = "off"
    /\ boot' = [boot EXCEPT ![b] = [NoBoot EXCEPT
                  !.pc = "check", !.mtime = dbfile.mtime, !.opened = dbfile.has]]
    /\ faults' = [faults EXCEPT !.beside = @ \/ \E other \in Boots : boot[other].pc # "off"]
    /\ UNCHANGED <<clock, edits, dbfile, files>>

(* A locked file is not a corrupt one: the boot goes on without hardening. *)
(* A corrupt one is refused and left as it is.                             *)
QuickCheck(b) ==
    /\ boot[b].pc = "check"
    /\ \/ /\ \E other \in Boots \ {b} : boot[other].pc # "off"
          /\ End(b, "unverified")
       \/ /\ dbfile.kind = "torn"
          /\ boot' = [boot EXCEPT ![b] = NoBoot]
       \/ /\ dbfile.kind # "torn"
          /\ IF boot[b].mtime = NoDate THEN End(b, "first") ELSE EnterPhase(b, "count")
    /\ UNCHANGED <<clock, edits, dbfile, files, faults>>

CopyAnyStore(b) ==                                                 \* a mutant
    /\ boot[b].pc = "count"
    /\ EnterPhase(b, "choose")
    /\ UNCHANGED <<clock, edits, dbfile, files, faults>>

(* A store without a campaign is never copied, whatever the copies hold:   *)
(* the classification of the copies only words the warning.                *)
CountCampaigns(b) ==
    /\ boot[b].pc = "count"
    /\ IF Holds THEN EnterPhase(b, "choose") ELSE End(b, "empty")
    /\ UNCHANGED <<clock, edits, dbfile, files, faults>>

ToleratesSkew(b) == OurBackups # {} /\ NewestCopy + 1 >= boot[b].mtime  \* a mutant
CopyIsFresh(b) == OurBackups # {} /\ NewestCopy >= boot[b].mtime

ChooseCopy(b) ==
    /\ boot[b].pc = "choose"
    /\ \/ CopyIsFresh(b) /\ End(b, "fresh")
       \/ /\ ~CopyIsFresh(b)
          /\ boot' = [boot EXCEPT ![b].pc = "copy", ![b].stamp = StampOf(clock)]
    /\ UNCHANGED <<clock, edits, dbfile, files, faults>>

(* The copy is one read of the source; its file is dated by its own last   *)
(* write, which the read lock on the source covers.                        *)
TakeCopy(b) ==
    /\ boot[b].pc = "copy"
    /\ \/ /\ dbfile.kind # "torn"
          /\ boot' = [boot EXCEPT ![b].pc = "publish", ![b].copy = dbfile.has,
                                  ![b].copied = clock]
       \/ Rotate(b, "failed")
    /\ UNCHANGED <<clock, edits, dbfile, files, faults>>

Published(b) ==
    [n \in DOMAIN files \cup {boot[b].stamp} |->
       IF n = boot[b].stamp THEN [has |-> boot[b].copy, mtime |-> boot[b].copied]
       ELSE files[n]]

PublishCopy(b) ==
    /\ boot[b].pc = "publish"
    /\ \/ /\ files' = Published(b)
          /\ Rotate(b, "copied")
       \/ /\ Rotate(b, "failed")
          /\ UNCHANGED files
    /\ UNCHANGED <<clock, edits, dbfile, faults>>

(* Rotation lists the folder once and unlinks from that list; an unlink    *)
(* that fails ends it.                                                     *)
ListRotation(b) ==
    /\ boot[b].pc = "list"
    /\ boot' = [boot EXCEPT ![b].pc = "unlink", ![b].doomed = BeyondKeep]
    /\ UNCHANGED <<clock, edits, dbfile, files, faults>>

Unlink(b) ==
    /\ boot[b].pc = "unlink"
    /\ \/ /\ boot[b].doomed # {}
          /\ LET old == Min(boot[b].doomed)
             IN  /\ files' = [n \in DOMAIN files \ {old} |-> files[n]]
                 /\ boot' = [boot EXCEPT ![b].doomed = @ \ {old}]
       \/ /\ End(b, boot[b].outcome)
          /\ UNCHANGED files
    /\ UNCHANGED <<clock, edits, dbfile, faults>>

-----------------------------------------------------------------------------
(* The session that follows.                                               *)

(* A write is a commit: the clock moves and dates the file.                *)
CommitStore(holds) ==
    /\ clock < MaxClock /\ edits < MaxClock
    /\ clock' = clock + 1
    /\ edits' = edits + 1
    /\ dbfile' = [kind |-> "ok", has |-> [edit |-> edits + 1, holds |-> holds],
                 mtime |-> clock + 1]

(* The schema is created where it is missing.                              *)
CreateSchema(b) ==
    /\ boot[b].pc = "schema"
    /\ \/ dbfile.kind \in {"none", "bare"} /\ CommitStore(FALSE)
       \/ dbfile.kind = "ok" /\ UNCHANGED <<clock, edits, dbfile>>
    /\ boot' = [boot EXCEPT ![b] = [NoBoot EXCEPT !.pc = "serving"]]
    /\ UNCHANGED <<files, faults>>

WorkOn(b) ==
    /\ boot[b].pc = "serving"
    /\ dbfile.kind = "ok"
    /\ \/ CommitStore(TRUE)
       \/ dbfile.has.holds /\ CommitStore(FALSE)     \* the last campaign is deleted
    /\ UNCHANGED <<files, boot, faults>>

(* The process ends: closed, killed, or the machine stops.                 *)
Leave(b) ==
    /\ boot[b].pc # "off"
    /\ boot' = [boot EXCEPT ![b] = NoBoot]
    /\ UNCHANGED <<clock, edits, dbfile, files, faults>>

-----------------------------------------------------------------------------
(* The world around it.                                                    *)

SetClockBack ==
    /\ faults.back < MaxBack
    /\ clock' \in 0 .. clock - 1
    /\ faults' = [faults EXCEPT !.back = @ + 1]
    /\ UNCHANGED <<edits, dbfile, files, boot>>

(* The stick is pulled: every process ends, and the file is left empty or  *)
(* unreadable.                                                             *)
Damage ==
    /\ faults.file < MaxFaults
    /\ dbfile.kind = "ok"
    /\ \E kind \in {"bare", "torn"} :
         dbfile' = [kind |-> kind, has |-> Nothing, mtime |-> clock]
    /\ boot' = [b \in Boots |-> NoBoot]
    /\ faults' = [faults EXCEPT !.file = @ + 1]
    /\ UNCHANGED <<clock, edits, files>>

(* The field guide's procedure: Atlas closed, the newest copy by name put  *)
(* in the place of the damaged file; copying may or may not keep its date. *)
Restore ==
    /\ dbfile.kind \in {"bare", "torn"}
    /\ \A b \in Boots : boot[b].pc = "off"
    /\ OurBackups # {}
    /\ LET newest == files[Max(OurBackups)]
       IN  \E date \in {newest.mtime, clock} :
             dbfile' = [kind |-> "ok", has |-> newest.has, mtime |-> date]
    /\ UNCHANGED <<clock, edits, files, boot, faults>>

BootStep(b) ==
    \/ OpenStore(b) \/ QuickCheck(b) \/ CountCampaigns(b) \/ ChooseCopy(b)
    \/ TakeCopy(b) \/ PublishCopy(b) \/ ListRotation(b) \/ Unlink(b)
    \/ CreateSchema(b) \/ WorkOn(b) \/ Leave(b)

BackupsNext == (\E b \in Boots : BootStep(b)) \/ SetClockBack \/ Damage \/ Restore

BackupsSpec == BackupsInit /\ [][BackupsNext]_backupsVars
-----------------------------------------------------------------------------
(* Properties.                                                             *)

(* Every variable keeps its type.                                          *)
BackupsTypeOK ==
    /\ clock \in Instant
    /\ edits \in Nat
    /\ dbfile \in Stores
    /\ DOMAIN files \subseteq Instant \cup {Parked}
    /\ \A n \in DOMAIN files : files[n] \in [has : Content, mtime : Instant]
    /\ boot \in [Boots -> BootState]
    /\ faults \in [back : 0 .. MaxBack, file : 0 .. MaxFaults, beside : BOOLEAN]

(* The names that are stamps, however the code lists its own files.        *)
Copies == {n \in DOMAIN files : n # Parked}

(* A boot that ends saying the store was copied, or that the newest copy   *)
(* is still good, leaves a copy at least as new as what it opened: the     *)
(* choice by modification time, the stamp it is named by and the rotation  *)
(* by name agree, as long as the clock was not set back and no second      *)
(* process was open ("newest 3 are kept", portable/README-FIELD.txt:138).  *)
NothingUnbacked ==
    faults.back = 0 /\ ~faults.beside =>
        \A b \in Boots :
            boot[b].pc = "schema" /\ boot[b].outcome \in {"copied", "fresh"} =>
                \E n \in Copies : files[n].has.edit >= boot[b].opened.edit

(* Once a copy holds a campaign, one always does, through boots, kills,    *)
(* damage and clocks set back, while processes come one after another.     *)
EvidenceKept ==
    [][~faults.beside /\ (\E n \in Copies : files[n].has.holds) =>
         (\E n \in Copies' : files'[n].has.holds)]_backupsVars

(* A copy is removed only while Keep newer-named ones stay, also when two   *)
(* processes rotate from lists taken at different moments.                 *)
NewestKept ==
    [][\A n \in Copies : n \in Copies'
         \/ Cardinality({m \in Copies' : m > n}) >= Keep]_backupsVars
=============================================================================
