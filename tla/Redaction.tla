------------------------------ MODULE Redaction -----------------------------
(***************************************************************************)
(* Redaction runs into one output folder (webapp/backend/ingest.py,        *)
(* run_redaction_folder).  A run holds the folder's lock, renders into a   *)
(* private stage, verifies the stage, and promotes it: the set that is in  *)
(* the folder is moved aside, the verified files are moved in, checked     *)
(* again, and a receipt is renamed into place last.  An exception during   *)
(* the promotion moves the new files away and the old ones back; a kill    *)
(* leaves what is there.                                                   *)
(*                                                                         *)
(* What a file holds is the run that rendered it, or "other" once some     *)
(* other program has changed it.  Names are numbers, so that they have the *)
(* order in which the code visits them.                                    *)
(***************************************************************************)
EXTENDS Integers

CONSTANTS
  Runs,      \* invocations, each of one process
  Nobody,    \* no run, and no file
  Documents, \* canonical names an engine run writes
  Snapshot,  \* the one of them that must be there
  Receipt,   \* Assessment_redacted.redaction.json
  Marker,    \* DO-NOT-SEND-NOT-REDACTED.txt
  MaxFaults  \* bound on operating system errors and outside changes

Places == Documents \cup {Receipt, Marker}

ASSUME RedactionAssumption ==
  /\ Places \subseteq Nat
  /\ \A S \in SUBSET Places : S # {} => \E n \in S : \A m \in S : n >= m
  /\ Snapshot \in Documents
  /\ Receipt \notin Documents /\ Marker \notin Documents /\ Receipt # Marker
  /\ Nobody \notin Runs /\ "other" \notin Runs /\ Nobody # "other"
  /\ MaxFaults \in Nat

VARIABLES
  out,        \* the output folder
  note,       \* INCOMPLETE-SET.txt: the run whose gaps it lists
  folderLock, \* the run that holds the folder's lock
  phase,      \* where each run is
  outcome,    \* how it ends
  reuse,      \* --reuse-out
  stage,      \* documents in the run's private delivery folder
  wrote,      \* documents its engine rendered
  aside,      \* its .replaced folder
  failed,     \* its .failed-promotion folder
  todo,       \* names a rollback of it has left to visit
  before,     \* the folder as the run found it under the lock
  faults,     \* faults so far
  slips       \* errors swallowed by each run's rollback

folder == <<out, note>>
run == <<outcome, reuse, stage, wrote, aside, failed, todo, before>>
redactionVars == <<out, note, folderLock, phase, run, faults, slips>>

Content == Runs \cup {Nobody, "other"}
Empty == [n \in Places |-> Nobody]
Held(f) == {n \in Places : f[n] # Nobody}
First(S) == CHOOSE n \in S : \A m \in S : n <= m
Last(S) == CHOOSE n \in S : \A m \in S : n >= m

RedactionInit ==
  /\ out = Empty
  /\ note = Nobody
  /\ folderLock = Nobody
  /\ phase = [r \in Runs |-> "new"]
  /\ outcome = [r \in Runs |-> "none"]
  /\ reuse \in [Runs -> BOOLEAN]
  /\ stage = [r \in Runs |-> {}]
  /\ wrote = [r \in Runs |-> {}]
  /\ aside = [r \in Runs |-> Empty]
  /\ failed = [r \in Runs |-> Empty]
  /\ todo = [r \in Runs |-> {}]
  /\ before = [r \in Runs |-> Empty]
  /\ faults = 0
  /\ slips = [r \in Runs |-> 0]

Goto(r, from, to) ==
  /\ phase[r] = from
  /\ phase' = [phase EXCEPT ![r] = to]

Leave(r, from, how) ==
  /\ Goto(r, from, "leaving")
  /\ outcome' = [outcome EXCEPT ![r] = how]

\* An operating system error, or a change by another program.
Fault ==
  /\ faults < MaxFaults
  /\ faults' = faults + 1

-----------------------------------------------------------------------------
(* The lock of the folder.                                                 *)

TakeFolder(r) ==
  /\ folderLock = Nobody
  /\ folderLock' = r
  /\ before' = [before EXCEPT ![r] = out]
  /\ Goto(r, "new", "locked")
  /\ UNCHANGED <<folder, outcome, reuse, stage, wrote, aside, failed, todo, faults, slips>>

\* Thirty seconds pass while another run holds the lock.
GiveUp(r) ==
  /\ folderLock # Nobody
  /\ phase[r] = "new"
  /\ phase' = [phase EXCEPT ![r] = "ended"]
  /\ outcome' = [outcome EXCEPT ![r] = "refused"]
  /\ UNCHANGED <<folder, folderLock, reuse, stage, wrote, aside, failed, todo, before, faults, slips>>

Release(r) ==
  /\ Goto(r, "leaving", "ended")
  /\ folderLock' = Nobody
  /\ UNCHANGED <<folder, run, faults, slips>>

\* The process ends where it is; the system releases its lock.
KillRun(r) ==
  /\ phase[r] \notin {"new", "ended"}
  /\ phase' = [phase EXCEPT ![r] = "ended"]
  /\ outcome' = [outcome EXCEPT ![r] = "killed"]
  /\ folderLock' = Nobody
  /\ UNCHANGED <<folder, reuse, stage, wrote, aside, failed, todo, before, faults, slips>>

-----------------------------------------------------------------------------
(* Rendering and verification, in the private stage.                       *)

\* _refuse_reused_out_dir
Refuse(r) ==
  /\ ~reuse[r]
  /\ \E n \in Documents : out[n] # Nobody
  /\ Leave(r, "locked", "refused")
  /\ UNCHANGED <<folder, folderLock, reuse, stage, wrote, aside, failed, todo, before, faults, slips>>

\* The engine renders what it can; every writer of it fails soft.
Render(r) ==
  /\ reuse[r] \/ \A n \in Documents : out[n] = Nobody
  /\ \E S \in SUBSET Documents : /\ stage' = [stage EXCEPT ![r] = S]
                                 /\ wrote' = [wrote EXCEPT ![r] = S]
  /\ Goto(r, "locked", "rendered")
  /\ UNCHANGED <<folder, folderLock, outcome, reuse, aside, failed, todo, before, faults, slips>>

\* A timeout, an exit code, no snapshot, or any check of the stage that fails:
\* the folder is marked, or an error of the system prevents it.
Uncertified(r) ==
  /\ Leave(r, "rendered", "failed")
  /\ \/ /\ out' = [out EXCEPT ![Marker] = r]
        /\ UNCHANGED <<faults, slips>>
     \/ /\ Fault
        /\ slips' = [slips EXCEPT ![r] = @ + 1]
        /\ UNCHANGED out
  /\ UNCHANGED <<note, folderLock, reuse, stage, wrote, aside, failed, todo, before>>

Certified(r) ==
  /\ Snapshot \in stage[r]
  /\ Goto(r, "rendered", "verified")
  /\ UNCHANGED <<folder, folderLock, run, faults, slips>>

-----------------------------------------------------------------------------
(* _promote_verified_delivery                                              *)

\* A staged file no longer has the bytes that were verified.
StageChanged(r) ==
  /\ Fault
  /\ Leave(r, "verified", "failed")
  /\ UNCHANGED <<folder, folderLock, reuse, stage, wrote, aside, failed, todo, before, slips>>

StageHolds(r) ==
  /\ Goto(r, "verified", "moving")
  /\ UNCHANGED <<folder, folderLock, run, faults, slips>>

\* Mutant of MoveOld: a file that a staged one replaces is not kept.
MoveOldKeepsOthers(r) ==
  /\ phase[r] = "moving"
  /\ Held(out) # {}
  /\ LET n == First(Held(out)) IN
       /\ aside' = IF n \in stage[r] THEN aside ELSE [aside EXCEPT ![r][n] = out[n]]
       /\ out' = [out EXCEPT ![n] = Nobody]
  /\ UNCHANGED <<note, folderLock, phase, outcome, reuse, stage, wrote, failed, todo, before, faults, slips>>

\* The old set goes aside file by file, its receipt and marker with it.
MoveOld(r) ==
  /\ phase[r] = "moving"
  /\ Held(out) # {}
  /\ LET n == First(Held(out)) IN
       /\ aside' = [aside EXCEPT ![r][n] = out[n]]
       /\ out' = [out EXCEPT ![n] = Nobody]
  /\ UNCHANGED <<note, folderLock, phase, outcome, reuse, stage, wrote, failed, todo, before, faults, slips>>

\* Mutant of AllMoved: only what is in the way of a staged file goes aside.
AllMovedAside(r) ==
  /\ Held(out) \cap stage[r] = {}
  /\ Goto(r, "moving", "promoting")
  /\ UNCHANGED <<folder, folderLock, run, faults, slips>>

AllMoved(r) ==
  /\ Held(out) = {}
  /\ Goto(r, "moving", "promoting")
  /\ UNCHANGED <<folder, folderLock, run, faults, slips>>

Promote(r) ==
  /\ phase[r] = "promoting"
  /\ stage[r] # {}
  /\ LET n == First(stage[r]) IN
       /\ out' = [out EXCEPT ![n] = r]
       /\ stage' = [stage EXCEPT ![r] = @ \ {n}]
       /\ todo' = [todo EXCEPT ![r] = @ \cup {n}]
  /\ UNCHANGED <<note, folderLock, phase, outcome, reuse, wrote, aside, failed, before, faults, slips>>

\* Another program changes a promoted file before the recheck.
Disturb(r) ==
  /\ phase[r] = "promoting"
  /\ Fault
  /\ \E n \in todo[r] : out' = [out EXCEPT ![n] = "other"]
  /\ UNCHANGED <<note, folderLock, phase, run, slips>>

\* Mutant of Recheck: it waits for the files to be as they were.
RecheckWaits(r) ==
  /\ stage[r] = {}
  /\ \A n \in todo[r] : out[n] = r
  /\ Goto(r, "promoting", "receipting")
  /\ UNCHANGED <<folder, folderLock, run, faults, slips>>

Recheck(r) ==
  /\ stage[r] = {}
  /\ Goto(r, "promoting", IF \A n \in todo[r] : out[n] = r THEN "receipting" ELSE "raised")
  /\ UNCHANGED <<folder, folderLock, run, faults, slips>>

\* The commit point.
WriteReceipt(r) ==
  /\ Goto(r, "receipting", "noting")
  /\ out' = [out EXCEPT ![Receipt] = r]
  /\ UNCHANGED <<note, folderLock, run, faults, slips>>

\* Any move, digest or write raises.
Raise(r) ==
  /\ phase[r] \in {"moving", "promoting", "receipting"}
  /\ Fault
  /\ phase' = [phase EXCEPT ![r] = "raised"]
  /\ UNCHANGED <<folder, folderLock, run, slips>>

OpenRecovery(r) ==
  /\ Goto(r, "raised", "undoing")
  /\ UNCHANGED <<folder, folderLock, run, faults, slips>>

\* The recovery folder cannot be made: nothing is moved back.
NoRecovery(r) ==
  /\ Fault
  /\ Leave(r, "raised", "failed")
  /\ slips' = [slips EXCEPT ![r] = @ + 1]
  /\ UNCHANGED <<folder, folderLock, reuse, stage, wrote, aside, failed, todo, before>>

\* The promoted files go to the recovery folder; a move that fails is passed.
Undo(r) ==
  /\ phase[r] = "undoing"
  /\ todo[r] # {}
  /\ LET n == First(todo[r]) IN
       /\ todo' = [todo EXCEPT ![r] = @ \ {n}]
       /\ \/ /\ failed' = [failed EXCEPT ![r][n] = out[n]]
             /\ out' = [out EXCEPT ![n] = Nobody]
             /\ UNCHANGED <<faults, slips>>
          \/ /\ Fault
             /\ slips' = [slips EXCEPT ![r] = @ + 1]
             /\ UNCHANGED <<out, failed>>
  /\ UNCHANGED <<note, folderLock, phase, outcome, reuse, stage, wrote, aside, before>>

\* Mutant of Undone: only what was promoted over is brought back.
UndoneWithoutReceipt(r) ==
  /\ todo[r] = {}
  /\ Goto(r, "undoing", "restoring")
  /\ todo' = [todo EXCEPT ![r] = Held(aside[r]) \cap Documents]
  /\ UNCHANGED <<folder, folderLock, outcome, reuse, stage, wrote, aside, failed, before, faults, slips>>

Undone(r) ==
  /\ todo[r] = {}
  /\ Goto(r, "undoing", "restoring")
  /\ todo' = [todo EXCEPT ![r] = Held(aside[r])]
  /\ UNCHANGED <<folder, folderLock, outcome, reuse, stage, wrote, aside, failed, before, faults, slips>>

\* The old files come back in reverse, over what is there.
Restore(r) ==
  /\ phase[r] = "restoring"
  /\ todo[r] # {}
  /\ LET n == Last(todo[r]) IN
       /\ todo' = [todo EXCEPT ![r] = @ \ {n}]
       /\ \/ /\ out' = [out EXCEPT ![n] = aside[r][n]]
             /\ aside' = [aside EXCEPT ![r][n] = Nobody]
             /\ UNCHANGED <<faults, slips>>
          \/ /\ Fault
             /\ slips' = [slips EXCEPT ![r] = @ + 1]
             /\ UNCHANGED <<out, aside>>
  /\ UNCHANGED <<note, folderLock, phase, outcome, reuse, stage, wrote, failed, before>>

Restored(r) ==
  /\ todo[r] = {}
  /\ Leave(r, "restoring", "failed")
  /\ UNCHANGED <<folder, folderLock, reuse, stage, wrote, aside, failed, todo, before, faults, slips>>

\* The gaps of the set, or no note when it has none.
Note(r) ==
  /\ Leave(r, "noting", "done")
  /\ note' = IF wrote[r] # Documents THEN r ELSE Nobody
  /\ UNCHANGED <<out, folderLock, reuse, stage, wrote, aside, failed, todo, before, faults, slips>>

-----------------------------------------------------------------------------
Step(r) ==
  \/ TakeFolder(r) \/ GiveUp(r) \/ Release(r)
  \/ Refuse(r) \/ Render(r) \/ Uncertified(r) \/ Certified(r)
  \/ StageHolds(r) \/ MoveOld(r) \/ AllMoved(r) \/ Promote(r) \/ Recheck(r) \/ WriteReceipt(r)
  \/ OpenRecovery(r) \/ Undo(r) \/ Undone(r) \/ Restore(r) \/ Restored(r) \/ Note(r)

RedactionNext == \E r \in Runs : Step(r) \/ KillRun(r) \/ StageChanged(r) \/ Disturb(r) \/ Raise(r) \/ NoRecovery(r)

RedactionSpec == RedactionInit /\ [][RedactionNext]_redactionVars

\* A run goes on by itself, or gives up waiting.
RedactionFairSpec == RedactionSpec /\ \A r \in Runs : WF_redactionVars(Step(r))

-----------------------------------------------------------------------------
(* Properties.                                                             *)

\* Every variable has its type.
RedactionTypeOK ==
  /\ out \in [Places -> Content]
  /\ note \in Runs \cup {Nobody} /\ folderLock \in Runs \cup {Nobody}
  /\ phase \in [Runs -> {"new", "locked", "rendered", "verified", "moving", "promoting", "receipting",
                      "raised", "undoing", "restoring", "noting", "leaving", "ended"}]
  /\ outcome \in [Runs -> {"none", "refused", "failed", "killed", "done"}]
  /\ reuse \in [Runs -> BOOLEAN]
  /\ stage \in [Runs -> SUBSET Documents] /\ wrote \in [Runs -> SUBSET Documents]
  /\ aside \in [Runs -> [Places -> Content]] /\ failed \in [Runs -> [Places -> Content]]
  /\ todo \in [Runs -> SUBSET Places]
  /\ \A r \in Runs : phase[r] \notin {"restoring", "leaving", "ended"} => todo[r] \subseteq Documents
  /\ before \in [Runs -> [Places -> Content]]
  /\ faults \in 0..MaxFaults /\ slips \in [Runs -> 0..MaxFaults]

\* Whichever runs were killed, and at whatever step, no document of another
\* run is ever under a receipt, unless an error was swallowed on the way back
\* (ingest.py:1549, "an atomic receipt is the coherent-set commit point").
NoStrangerUnderReceipt ==
  \A r \in Runs : out[Receipt] = r /\ (\A q \in Runs : slips[q] = 0) =>
    \A n \in Documents : out[n] \in {r, Nobody}

\* A document of a set that got its receipt is never destroyed: it is in the
\* folder or in the folder some run moved it to (ingest.py:1569).
PriorSetKept ==
  \A r \in Runs : outcome[r] = "done" =>
    \A n \in wrote[r] : out[n] = r \/ \E q \in Runs : aside[q][n] = r

\* A run that fails leaves the set it found, receipt included, unless an error
\* was swallowed on the way back (ingest.py:1602).
FailureRestores ==
  \A r \in Runs : phase[r] = "leaving" /\ outcome[r] \in {"failed", "refused"} /\ slips[r] = 0 =>
    \A n \in Documents \cup {Receipt} : out[n] = before[r][n]

\* Once any run has taken the folder, every run ends, in its turn or by giving
\* up the wait: whichever step fails, nobody holds the folder for ever
\* (ingest.py:116).
EveryRunEnds == \A r \in Runs : folderLock # Nobody ~> phase[r] = "ended"
=============================================================================
