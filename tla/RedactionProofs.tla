--------------------------- MODULE RedactionProofs --------------------------
(***************************************************************************)
(* What a redaction run leaves in its folder, for any number of runs,      *)
(* documents and faults: whichever run is killed, and wherever, no         *)
(* document of another run lies under a receipt, a certified document is   *)
(* kept, and a run that fails puts back what it found.                     *)
(***************************************************************************)
EXTENDS Redaction, WellFoundedInduction, TLAPS

(* The run that has the lock is the one between its first and last step.   *)
LockOK == \A r \in Runs : folderLock = r <=> phase[r] \notin {"new", "ended"}

(* A name is where the run found it, or aside, or (after an error on the   *)
(* way back) aside with a file of the run in its place.                    *)
InPlace(r, n) == out[n] = before[r][n] /\ aside[r][n] = Nobody
MovedAside(r, n) == out[n] = Nobody /\ aside[r][n] = before[r][n]
Covered(r, n) == out[n] \in {r, "other"} /\ aside[r][n] = before[r][n]

Idle(r) == phase[r] = "new" => aside[r] = Empty /\ todo[r] = {}
Undecided(r) == phase[r] \notin {"leaving", "ended"} => outcome[r] = "none"
Rendering(r) == phase[r] \in {"locked", "rendered", "verified"} =>
  out = before[r] /\ aside[r] = Empty /\ todo[r] = {}
Staged(r) == phase[r] \in {"rendered", "verified", "moving"} => stage[r] = wrote[r]
Moving(r) == phase[r] = "moving" =>
  todo[r] = {} /\ \A n \in Places : InPlace(r, n) \/ MovedAside(r, n)
Promoting(r) == phase[r] = "promoting" =>
  /\ wrote[r] = stage[r] \cup todo[r]
  /\ \A n \in Places : IF n \in todo[r] THEN Covered(r, n) ELSE MovedAside(r, n)
Receipting(r) == phase[r] = "receipting" =>
  /\ wrote[r] = todo[r]
  /\ \A n \in Places : /\ out[n] = IF n \in todo[r] THEN r ELSE Nobody
                       /\ aside[r][n] = before[r][n]
Noting(r) == phase[r] = "noting" =>
  \A n \in Places : out[n] = IF n \in wrote[r] \cup {Receipt} THEN r ELSE Nobody
Undoing(r) == phase[r] \in {"raised", "undoing"} =>
  \A n \in Places : IF n \in todo[r] THEN Covered(r, n)
                    ELSE InPlace(r, n) \/ MovedAside(r, n) \/ (slips[r] # 0 /\ Covered(r, n))
Restoring(r) == phase[r] = "restoring" =>
  /\ todo[r] \subseteq Held(aside[r])
  /\ slips[r] = 0 => todo[r] = Held(aside[r])
  /\ \A n \in Places : InPlace(r, n) \/ MovedAside(r, n) \/ (slips[r] # 0 /\ Covered(r, n))
Failed(r) == phase[r] = "leaving" /\ outcome[r] \in {"failed", "refused"} /\ slips[r] = 0 =>
  \A n \in Documents \cup {Receipt} : out[n] = before[r][n]

Custody(r) ==
  /\ Idle(r) /\ Undecided(r) /\ Rendering(r) /\ Staged(r) /\ Moving(r) /\ Promoting(r)
  /\ Receipting(r) /\ Noting(r) /\ Undoing(r) /\ Restoring(r) /\ Failed(r)

(* No receipt is over a stranger, in the folder or in what a run found.    *)
Coherent(f) == \A x \in Runs : f[Receipt] = x => \A n \in Documents : f[n] \in {x, Nobody}
SlipsBounded == \A r \in Runs : slips[r] <= faults
NoSlips == \A q \in Runs : slips[q] = 0
CoherentSets ==
  NoSlips => Coherent(out) /\ \A r \in Runs : phase[r] \notin {"new", "ended"} => Coherent(before[r])

IInv ==
  /\ RedactionTypeOK /\ SlipsBounded /\ LockOK
  /\ (\A r \in Runs : Custody(r)) /\ PriorSetKept /\ CoherentSets

-----------------------------------------------------------------------------
(* The names.                                                              *)

LEMMA NamesDiffer ==
  /\ Documents \subseteq Places /\ Receipt \in Places /\ Marker \in Places
  /\ Receipt \notin Documents /\ Marker \notin Documents /\ Receipt # Marker
  /\ Nobody \notin Runs /\ "other" \notin Runs /\ Nobody # "other"
  /\ MaxFaults \in Nat /\ Places \subseteq Nat
BY RedactionAssumption DEF Places

(* The first and the last name of a nonempty set are members of it.        *)
LEMMA FirstIn == ASSUME NEW S, S \subseteq Places, S # {} PROVE First(S) \in S
<1> DEFINE R == {ss \in Nat \X Nat : ss[1] < ss[2]}
<1>1. IsWellFoundedOn(R, Nat)
  BY NatLessThanWellFounded DEF OpToRel
<1>2. \A m, n \in Nat : <<m, n>> \in R <=> m < n
  BY SMT
<1>3. S \subseteq Nat
  BY NamesDiffer
<1> HIDE DEF R
<1>4. PICK n \in S : \A m \in S : ~ (<<m, n>> \in R)
  BY <1>1, <1>3, WFMin, Zenon
<1>5. ASSUME NEW m \in S PROVE n <= m
  <2>1. m \in Nat /\ n \in Nat
    BY <1>3
  <2>2. ~ (m < n)
    BY <1>2, <1>4, <2>1, Zenon
  <2> QED BY <2>1, <2>2
<1> QED BY <1>5 DEF First
LEMMA LastIn == ASSUME NEW S, S \subseteq Places, S # {} PROVE Last(S) \in S
BY RedactionAssumption DEF Last

-----------------------------------------------------------------------------
LEMMA InitInv == RedactionInit => IInv
<1> SUFFICES ASSUME RedactionInit PROVE IInv
  OBVIOUS
<1>1. Empty \in [Places -> Content]
  BY DEF Empty, Content
<1>2. RedactionTypeOK /\ SlipsBounded
  BY <1>1, NamesDiffer DEF RedactionInit, RedactionTypeOK, SlipsBounded
<1>3. LockOK /\ PriorSetKept
  BY NamesDiffer DEF RedactionInit, LockOK, PriorSetKept
<1>4. \A r \in Runs : Custody(r)
  BY DEF RedactionInit, Custody, Idle, Undecided, Rendering, Staged, Moving, Promoting,
     Receipting,
         Noting, Undoing, Restoring, Failed
<1>5. CoherentSets
  BY NamesDiffer DEF RedactionInit, CoherentSets, Coherent, Empty
<1> QED BY <1>2, <1>3, <1>4, <1>5 DEF IInv

(* A step of the run that has the lock, or takes it, leaves the others'    *)
(* custody as it was: they are not between their first and last step.      *)
Untouched(q) ==
  /\ phase'[q] = phase[q] /\ outcome'[q] = outcome[q] /\ stage'[q] = stage[q]
  /\ wrote'[q] = wrote[q] /\ aside'[q] = aside[q] /\ todo'[q] = todo[q]
  /\ before'[q] = before[q] /\ slips'[q] = slips[q]
LEMMA Others ==
  ASSUME NEW q \in Runs, Custody(q), Untouched(q), phase[q] \in {"new", "ended"}
  PROVE  Custody(q)'
BY DEF Custody, Untouched, Idle, Undecided, Rendering, Staged, Moving, Promoting, Receipting,
       Noting, Undoing, Restoring, Failed

\* While a run is between its first and last step, the others are not.
LEMMA Alone ==
  ASSUME LockOK, NEW r \in Runs, phase[r] \notin {"new", "ended"}
  PROVE  \A q \in Runs \ {r} : phase[q] \in {"new", "ended"}
BY DEF LockOK

\* A step that moves no file and certifies no set keeps the certified sets.
LEMMA KeptUnmoved ==
  ASSUME PriorSetKept, UNCHANGED <<out, aside>>,
         \A p \in Runs : outcome'[p] = "done" => outcome[p] = "done" /\ wrote'[p] = wrote[p]
  PROVE  PriorSetKept'
BY DEF PriorSetKept

\* So does a step in which nobody takes the folder keep the sets coherent.
LEMMA StillCoherent ==
  ASSUME CoherentSets, UNCHANGED <<out, before, slips>>,
         \A q \in Runs : phase'[q] \notin {"new", "ended"} => phase[q] \notin {"new", "ended"}
  PROVE  CoherentSets'
BY DEF CoherentSets, Coherent, NoSlips

-----------------------------------------------------------------------------
(* One lemma per action.                                                   *)

LEMMA TakeFolderInv == ASSUME IInv, NEW r \in Runs, TakeFolder(r) PROVE IInv'
<1> USE NamesDiffer
<1>1. RedactionTypeOK' /\ SlipsBounded'
  BY DEF IInv, RedactionTypeOK, SlipsBounded, TakeFolder, Goto, folder, Content, Held
<1>2. LockOK'
  BY DEF IInv, RedactionTypeOK, LockOK, TakeFolder, Goto, folder
<1>3. Custody(r)'
  <2>1. /\ phase[r] = "new" /\ phase'[r] = "locked" /\ before'[r] = out
        /\ UNCHANGED <<out, outcome, stage, wrote, aside, todo, slips>>
    BY DEF IInv, RedactionTypeOK, TakeFolder, Goto, folder
  <2> QED BY <2>1 DEF IInv, Custody, Idle, Undecided, Rendering, Staged, Moving, Promoting,
           Receipting, Noting, Undoing, Restoring, Failed
<1>4. \A q \in Runs \ {r} : Custody(q)'
  <2>1. \A q \in Runs \ {r} : phase[q] \in {"new", "ended"} /\ Untouched(q)
    BY DEF IInv, RedactionTypeOK, LockOK, Untouched, TakeFolder, Goto, folder
  <2> QED BY <2>1, Others DEF IInv
<1>5. PriorSetKept'
  BY KeptUnmoved DEF IInv, RedactionTypeOK, TakeFolder, Goto, folder
<1>6. CoherentSets'
  BY DEF IInv, RedactionTypeOK, LockOK, CoherentSets, Coherent, NoSlips, TakeFolder, Goto,
     folder, Custody, Idle, Undecided, Rendering, Staged, Moving, Promoting, Receipting,
     Noting, Undoing, Restoring, Failed, InPlace, MovedAside, Covered, Held
<1> QED BY <1>1, <1>2, <1>3, <1>4, <1>5, <1>6 DEF IInv

LEMMA GiveUpInv == ASSUME IInv, NEW r \in Runs, GiveUp(r) PROVE IInv'
<1> USE NamesDiffer
<1>1. RedactionTypeOK' /\ SlipsBounded'
  BY DEF IInv, RedactionTypeOK, SlipsBounded, GiveUp, folder, Content, Held
<1>2. LockOK'
  BY DEF IInv, RedactionTypeOK, LockOK, GiveUp, folder
<1>3. Custody(r)'
  BY DEF IInv, RedactionTypeOK, LockOK, GiveUp, folder, Custody, Idle, Undecided, Rendering,
     Staged, Moving, Promoting, Receipting, Noting, Undoing, Restoring, Failed, InPlace,
     MovedAside, Covered, Held, Empty
<1>4. \A q \in Runs \ {r} : Custody(q)'
  BY Others DEF IInv, RedactionTypeOK, LockOK, Untouched, GiveUp, folder, Custody, Idle,
     Undecided, Rendering, Staged, Moving, Promoting, Receipting, Noting, Undoing,
     Restoring, Failed, InPlace, MovedAside, Covered
<1>5. PriorSetKept'
  BY KeptUnmoved DEF IInv, RedactionTypeOK, GiveUp, folder
<1>6. CoherentSets'
  BY StillCoherent DEF IInv, RedactionTypeOK, GiveUp, folder
<1> QED BY <1>1, <1>2, <1>3, <1>4, <1>5, <1>6 DEF IInv

LEMMA ReleaseInv == ASSUME IInv, NEW r \in Runs, Release(r) PROVE IInv'
<1> USE NamesDiffer
<1>1. RedactionTypeOK' /\ SlipsBounded'
  BY DEF IInv, RedactionTypeOK, SlipsBounded, Release, Goto, folder, run, Content, Held
<1>2. LockOK'
  BY DEF IInv, RedactionTypeOK, LockOK, Release, Goto, folder, run
<1>3. Custody(r)'
  BY DEF IInv, RedactionTypeOK, LockOK, Release, Goto, folder, run, Custody, Idle,
     Undecided, Rendering, Staged, Moving, Promoting, Receipting, Noting, Undoing,
     Restoring, Failed, InPlace, MovedAside, Covered, Held, Empty
<1>4. \A q \in Runs \ {r} : Custody(q)'
  <2>1. \A q \in Runs \ {r} : phase[q] \in {"new", "ended"}
    BY Alone DEF IInv, Release, Goto
  <2>2. \A q \in Runs \ {r} : Untouched(q)
    BY DEF IInv, RedactionTypeOK, Untouched, Release, Goto, folder, run
  <2> QED BY <2>1, <2>2, Others DEF IInv
<1>5. PriorSetKept'
  BY KeptUnmoved DEF IInv, RedactionTypeOK, Release, Goto, folder, run
<1>6. CoherentSets'
  BY StillCoherent DEF IInv, RedactionTypeOK, Release, Goto, folder, run
<1> QED BY <1>1, <1>2, <1>3, <1>4, <1>5, <1>6 DEF IInv

LEMMA KillRunInv == ASSUME IInv, NEW r \in Runs, KillRun(r) PROVE IInv'
<1> USE NamesDiffer
<1>1. RedactionTypeOK' /\ SlipsBounded'
  BY DEF IInv, RedactionTypeOK, SlipsBounded, KillRun, folder, Content, Held
<1>2. LockOK'
  BY DEF IInv, RedactionTypeOK, LockOK, KillRun, folder
<1>3. Custody(r)'
  BY DEF IInv, RedactionTypeOK, LockOK, KillRun, folder, Custody, Idle, Undecided,
     Rendering, Staged, Moving, Promoting, Receipting, Noting, Undoing, Restoring, Failed,
     InPlace, MovedAside, Covered, Held, Empty
<1>4. \A q \in Runs \ {r} : Custody(q)'
  <2>1. \A q \in Runs \ {r} : phase[q] \in {"new", "ended"}
    BY Alone DEF IInv, KillRun
  <2>2. \A q \in Runs \ {r} : Untouched(q)
    BY DEF IInv, RedactionTypeOK, Untouched, KillRun, folder
  <2> QED BY <2>1, <2>2, Others DEF IInv
<1>5. PriorSetKept'
  BY KeptUnmoved DEF IInv, RedactionTypeOK, KillRun, folder
<1>6. CoherentSets'
  BY StillCoherent DEF IInv, RedactionTypeOK, KillRun, folder
<1> QED BY <1>1, <1>2, <1>3, <1>4, <1>5, <1>6 DEF IInv

LEMMA RefuseInv == ASSUME IInv, NEW r \in Runs, Refuse(r) PROVE IInv'
<1> USE NamesDiffer
<1>1. RedactionTypeOK' /\ SlipsBounded'
  BY DEF IInv, RedactionTypeOK, SlipsBounded, Refuse, Leave, Goto, folder, Content, Held
<1>2. LockOK'
  BY DEF IInv, RedactionTypeOK, LockOK, Refuse, Leave, Goto, folder
<1>3. Custody(r)'
  BY DEF IInv, RedactionTypeOK, LockOK, Refuse, Leave, Goto, folder, Custody, Idle,
     Undecided, Rendering, Staged, Moving, Promoting, Receipting, Noting, Undoing,
     Restoring, Failed, InPlace, MovedAside, Covered, Held, Empty
<1>4. \A q \in Runs \ {r} : Custody(q)'
  <2>1. \A q \in Runs \ {r} : phase[q] \in {"new", "ended"}
    BY Alone DEF IInv, Refuse, Leave, Goto
  <2>2. \A q \in Runs \ {r} : Untouched(q)
    BY DEF IInv, RedactionTypeOK, Untouched, Refuse, Leave, Goto, folder
  <2> QED BY <2>1, <2>2, Others DEF IInv
<1>5. PriorSetKept'
  <2>1. \A p \in Runs : outcome'[p] = "done" => outcome[p] = "done"
    BY DEF IInv, RedactionTypeOK, Refuse, Leave
  <2> QED BY <2>1, KeptUnmoved DEF IInv, Refuse, folder
<1>6. CoherentSets'
  BY StillCoherent DEF IInv, RedactionTypeOK, Refuse, Leave, Goto, folder
<1> QED BY <1>1, <1>2, <1>3, <1>4, <1>5, <1>6 DEF IInv

LEMMA RenderInv == ASSUME IInv, NEW r \in Runs, Render(r) PROVE IInv'
<1> USE NamesDiffer
<1>1. RedactionTypeOK' /\ SlipsBounded'
  BY DEF IInv, RedactionTypeOK, SlipsBounded, Render, Goto, folder, Content, Held
<1>2. LockOK'
  BY DEF IInv, RedactionTypeOK, LockOK, Render, Goto, folder
<1>3. Custody(r)'
  BY DEF IInv, RedactionTypeOK, LockOK, Render, Goto, folder, Custody, Idle, Undecided,
     Rendering, Staged, Moving, Promoting, Receipting, Noting, Undoing, Restoring, Failed,
     InPlace, MovedAside, Covered, Held, Empty
<1>4. \A q \in Runs \ {r} : Custody(q)'
  <2>1. \A q \in Runs \ {r} : phase[q] \in {"new", "ended"}
    BY Alone DEF IInv, Render, Goto
  <2>2. \A q \in Runs \ {r} : Untouched(q)
    BY DEF IInv, RedactionTypeOK, Untouched, Render, Goto, folder
  <2> QED BY <2>1, <2>2, Others DEF IInv
<1>5. PriorSetKept'
  <2>1. outcome[r] = "none"
    BY DEF IInv, Custody, Undecided, Render, Goto
  <2>2. \A p \in Runs \ {r} : wrote'[p] = wrote[p]
    BY DEF IInv, RedactionTypeOK, Render
  <2> QED BY <2>1, <2>2, KeptUnmoved DEF IInv, Render, folder
<1>6. CoherentSets'
  BY StillCoherent DEF IInv, RedactionTypeOK, Render, Goto, folder
<1> QED BY <1>1, <1>2, <1>3, <1>4, <1>5, <1>6 DEF IInv

LEMMA UncertifiedInv == ASSUME IInv, NEW r \in Runs, Uncertified(r) PROVE IInv'
<1> USE NamesDiffer
<1>1. RedactionTypeOK' /\ SlipsBounded'
  <2>1. CASE out' = [out EXCEPT ![Marker] = r] /\ UNCHANGED <<faults, slips>>
    BY <2>1 DEF IInv, RedactionTypeOK, SlipsBounded, Uncertified, Goto, Leave, Content
  <2>2. CASE Fault /\ slips' = [slips EXCEPT ![r] = @ + 1] /\ UNCHANGED out
    BY <2>2 DEF IInv, RedactionTypeOK, SlipsBounded, Uncertified, Goto, Leave, Fault
  <2> QED BY <2>1, <2>2 DEF Uncertified
<1>2. LockOK'
  BY DEF IInv, RedactionTypeOK, LockOK, Uncertified, Leave, Goto, Fault
<1>3. Custody(r)'
  BY DEF IInv, RedactionTypeOK, LockOK, Uncertified, Leave, Goto, Fault, Custody, Idle,
     Undecided, Rendering, Staged, Moving, Promoting, Receipting, Noting, Undoing,
     Restoring, Failed, InPlace, MovedAside, Covered, Held, Empty
<1>4. \A q \in Runs \ {r} : Custody(q)'
  <2>1. \A q \in Runs \ {r} : phase[q] \in {"new", "ended"}
    BY Alone DEF IInv, Uncertified, Leave, Goto
  <2>2. \A q \in Runs \ {r} : Untouched(q)
    BY DEF IInv, RedactionTypeOK, Untouched, Uncertified, Leave, Goto, Fault
  <2> QED BY <2>1, <2>2, Others DEF IInv
<1>5. PriorSetKept'
  BY DEF IInv, RedactionTypeOK, PriorSetKept, Uncertified, Leave, Goto, Fault, Custody,
     Idle, Undecided, Rendering, Staged, Moving, Promoting, Receipting, Noting, Undoing,
     Restoring, Failed, InPlace, MovedAside, Covered, Held
<1>6. CoherentSets'
  BY DEF IInv, RedactionTypeOK, LockOK, CoherentSets, Coherent, NoSlips, Uncertified, Leave,
     Goto, Fault, Custody, Idle, Undecided, Rendering, Staged, Moving, Promoting,
     Receipting, Noting, Undoing, Restoring, Failed, InPlace, MovedAside, Covered, Held
<1> QED BY <1>1, <1>2, <1>3, <1>4, <1>5, <1>6 DEF IInv

LEMMA CertifiedInv == ASSUME IInv, NEW r \in Runs, Certified(r) PROVE IInv'
<1> USE NamesDiffer
<1>1. RedactionTypeOK' /\ SlipsBounded'
  BY DEF IInv, RedactionTypeOK, SlipsBounded, Certified, Goto, folder, run, Content, Held
<1>2. LockOK'
  BY DEF IInv, RedactionTypeOK, LockOK, Certified, Goto, folder, run
<1>3. Custody(r)'
  <2>1. phase[r] = "rendered" /\ phase'[r] = "verified"
    BY DEF IInv, RedactionTypeOK, Certified, Goto
  <2> QED BY <2>1 DEF IInv, Certified, folder, run, Custody, Idle, Undecided, Rendering,
     Staged, Moving, Promoting, Receipting, Noting, Undoing, Restoring, Failed, InPlace,
     MovedAside, Covered
<1>4. \A q \in Runs \ {r} : Custody(q)'
  <2>1. \A q \in Runs \ {r} : phase[q] \in {"new", "ended"}
    BY Alone DEF IInv, Certified, Goto
  <2>2. \A q \in Runs \ {r} : Untouched(q)
    BY DEF IInv, RedactionTypeOK, Untouched, Certified, Goto, folder, run
  <2> QED BY <2>1, <2>2, Others DEF IInv
<1>5. PriorSetKept'
  BY KeptUnmoved DEF IInv, RedactionTypeOK, Certified, Goto, folder, run
<1>6. CoherentSets'
  BY StillCoherent DEF IInv, RedactionTypeOK, Certified, Goto, folder, run
<1> QED BY <1>1, <1>2, <1>3, <1>4, <1>5, <1>6 DEF IInv

LEMMA StageChangedInv == ASSUME IInv, NEW r \in Runs, StageChanged(r) PROVE IInv'
<1> USE NamesDiffer
<1>1. RedactionTypeOK' /\ SlipsBounded'
  BY DEF IInv, RedactionTypeOK, SlipsBounded, StageChanged, Leave, Goto, Fault, folder,
     Content, Held
<1>2. LockOK'
  BY DEF IInv, RedactionTypeOK, LockOK, StageChanged, Leave, Goto, Fault, folder
<1>3. Custody(r)'
  BY DEF IInv, RedactionTypeOK, LockOK, StageChanged, Leave, Goto, Fault, folder, Custody,
     Idle, Undecided, Rendering, Staged, Moving, Promoting, Receipting, Noting, Undoing,
     Restoring, Failed, InPlace, MovedAside, Covered, Held, Empty
<1>4. \A q \in Runs \ {r} : Custody(q)'
  <2>1. \A q \in Runs \ {r} : phase[q] \in {"new", "ended"}
    BY Alone DEF IInv, StageChanged, Leave, Goto
  <2>2. \A q \in Runs \ {r} : Untouched(q)
    BY DEF IInv, RedactionTypeOK, Untouched, StageChanged, Leave, Goto, Fault, folder
  <2> QED BY <2>1, <2>2, Others DEF IInv
<1>5. PriorSetKept'
  BY KeptUnmoved DEF IInv, RedactionTypeOK, StageChanged, Leave, Goto, Fault, folder
<1>6. CoherentSets'
  BY StillCoherent DEF IInv, RedactionTypeOK, StageChanged, Leave, Goto, Fault, folder
<1> QED BY <1>1, <1>2, <1>3, <1>4, <1>5, <1>6 DEF IInv

LEMMA StageHoldsInv == ASSUME IInv, NEW r \in Runs, StageHolds(r) PROVE IInv'
<1> USE NamesDiffer
<1>1. RedactionTypeOK' /\ SlipsBounded'
  BY DEF IInv, RedactionTypeOK, SlipsBounded, StageHolds, Goto, folder, run, Content, Held
<1>2. LockOK'
  BY DEF IInv, RedactionTypeOK, LockOK, StageHolds, Goto, folder, run
<1>3. Custody(r)'
  BY DEF IInv, RedactionTypeOK, LockOK, StageHolds, Goto, folder, run, Custody, Idle,
     Undecided, Rendering, Staged, Moving, Promoting, Receipting, Noting, Undoing,
     Restoring, Failed, InPlace, MovedAside, Covered, Held, Empty
<1>4. \A q \in Runs \ {r} : Custody(q)'
  <2>1. \A q \in Runs \ {r} : phase[q] \in {"new", "ended"}
    BY Alone DEF IInv, StageHolds, Goto
  <2>2. \A q \in Runs \ {r} : Untouched(q)
    BY DEF IInv, RedactionTypeOK, Untouched, StageHolds, Goto, folder, run
  <2> QED BY <2>1, <2>2, Others DEF IInv
<1>5. PriorSetKept'
  BY KeptUnmoved DEF IInv, RedactionTypeOK, StageHolds, Goto, folder, run
<1>6. CoherentSets'
  BY StillCoherent DEF IInv, RedactionTypeOK, StageHolds, Goto, folder, run
<1> QED BY <1>1, <1>2, <1>3, <1>4, <1>5, <1>6 DEF IInv

LEMMA MoveOldInv == ASSUME IInv, NEW r \in Runs, MoveOld(r) PROVE IInv'
<1> USE NamesDiffer
<1> DEFINE n == First(Held(out))
<1>a. n \in Places /\ out[n] # Nobody
  BY FirstIn DEF MoveOld, Held
<1>b. /\ out' = [out EXCEPT ![n] = Nobody] /\ aside' = [aside EXCEPT ![r][n] = out[n]]
      /\ phase[r] = "moving"
      /\ UNCHANGED <<note, folderLock, phase, outcome, reuse, stage, wrote, failed, todo, before, faults, slips>>
  BY DEF MoveOld
<1> HIDE DEF n
<1>c. /\ \A m \in Places : /\ out'[m] = IF m = n THEN Nobody ELSE out[m]
                           /\ aside'[r][m] = IF m = n THEN out[n] ELSE aside[r][m]
      /\ \A q \in Runs \ {r} : aside'[q] = aside[q]
  BY <1>a, <1>b DEF IInv, RedactionTypeOK
<1>1. RedactionTypeOK' /\ SlipsBounded'
  BY <1>a, <1>b DEF IInv, RedactionTypeOK, SlipsBounded, Content
<1>2. LockOK'
  BY DEF IInv, RedactionTypeOK, LockOK, MoveOld
<1>3. Custody(r)'
  <2>1. out[n] = before[r][n]
    BY <1>a, <1>b DEF IInv, Custody, Moving, InPlace, MovedAside
  <2>2. \A m \in Places : InPlace(r, m)' \/ MovedAside(r, m)'
    BY <1>b, <1>c, <2>1 DEF IInv, Custody, Moving, InPlace, MovedAside
  <2> QED BY <1>b, <2>2 DEF IInv, Custody, Idle, Undecided, Rendering, Staged, Moving,
     Promoting, Receipting, Noting, Undoing, Restoring, Failed
<1>4. \A q \in Runs \ {r} : Custody(q)'
  <2>1. \A q \in Runs \ {r} : phase[q] \in {"new", "ended"}
    BY Alone DEF IInv, MoveOld
  <2>2. \A q \in Runs \ {r} : Untouched(q)
    BY DEF IInv, RedactionTypeOK, Untouched, MoveOld
  <2> QED BY <2>1, <2>2, Others DEF IInv
<1>5. ASSUME NEW p \in Runs, outcome'[p] = "done", NEW m \in wrote'[p]
      PROVE  out'[m] = p \/ \E q \in Runs : aside'[q][m] = p
  <2>1. m \in Places /\ (out[m] = p \/ \E q \in Runs : aside[q][m] = p)
    BY <1>b, <1>5 DEF IInv, RedactionTypeOK, PriorSetKept
  <2>2. aside[r][n] = Nobody
    BY <1>a, <1>b DEF IInv, Custody, Moving, InPlace, MovedAside
  <2> QED BY <1>c, <2>1, <2>2
<1>6. CoherentSets'
  BY FirstIn, LastIn DEF IInv, RedactionTypeOK, LockOK, CoherentSets, Coherent, NoSlips,
     MoveOld, Custody, Idle, Undecided, Rendering, Staged, Moving, Promoting, Receipting,
     Noting, Undoing, Restoring, Failed, InPlace, MovedAside, Covered, Held
<1> QED BY <1>1, <1>2, <1>3, <1>4, <1>5, <1>6 DEF IInv, PriorSetKept

LEMMA AllMovedInv == ASSUME IInv, NEW r \in Runs, AllMoved(r) PROVE IInv'
<1> USE NamesDiffer
<1>1. RedactionTypeOK' /\ SlipsBounded'
  BY DEF IInv, RedactionTypeOK, SlipsBounded, AllMoved, Goto, folder, run, Content, Held
<1>2. LockOK'
  BY DEF IInv, RedactionTypeOK, LockOK, AllMoved, Goto, folder, run
<1>3. Custody(r)'
  <2>1. phase[r] = "moving" /\ phase'[r] = "promoting"
    BY DEF IInv, RedactionTypeOK, AllMoved, Goto
  <2>2. \A n \in Places : out[n] = Nobody
    BY DEF IInv, AllMoved, Held
  <2>3. UNCHANGED <<out, outcome, stage, wrote, aside, todo, before, slips>>
    BY DEF AllMoved, folder, run
  <2>4. outcome[r] = "none" /\ stage[r] = wrote[r] /\ todo[r] = {}
    BY <2>1 DEF IInv, Custody, Undecided, Staged, Moving
  <2>5. \A n \in Places : MovedAside(r, n)
    BY <2>1, <2>2 DEF IInv, Custody, Moving, InPlace, MovedAside
  <2> QED BY <2>1, <2>3, <2>4, <2>5 DEF Custody, Idle, Undecided, Rendering, Staged, Moving,
     Promoting, Receipting, Noting, Undoing, Restoring, Failed, InPlace, MovedAside, Covered
<1>4. \A q \in Runs \ {r} : Custody(q)'
  <2>1. \A q \in Runs \ {r} : phase[q] \in {"new", "ended"}
    BY Alone DEF IInv, AllMoved, Goto
  <2>2. \A q \in Runs \ {r} : Untouched(q)
    BY DEF IInv, RedactionTypeOK, Untouched, AllMoved, Goto, folder, run
  <2> QED BY <2>1, <2>2, Others DEF IInv
<1>5. PriorSetKept'
  BY KeptUnmoved DEF IInv, RedactionTypeOK, AllMoved, Goto, folder, run
<1>6. CoherentSets'
  BY StillCoherent DEF IInv, RedactionTypeOK, AllMoved, Goto, folder, run
<1> QED BY <1>1, <1>2, <1>3, <1>4, <1>5, <1>6 DEF IInv

LEMMA PromoteInv == ASSUME IInv, NEW r \in Runs, Promote(r) PROVE IInv'
<1> USE NamesDiffer
<1> DEFINE n == First(stage[r])
<1>a. n \in stage[r] /\ n \in Documents /\ n \in Places
  BY FirstIn DEF IInv, RedactionTypeOK, Promote
<1>b. /\ out' = [out EXCEPT ![n] = r] /\ stage' = [stage EXCEPT ![r] = @ \ {n}]
      /\ todo' = [todo EXCEPT ![r] = @ \cup {n}] /\ phase[r] = "promoting"
      /\ UNCHANGED <<note, folderLock, phase, outcome, reuse, wrote, aside, failed, before, faults, slips>>
  BY DEF Promote
<1> HIDE DEF n
<1>c. /\ stage'[r] = stage[r] \ {n} /\ todo'[r] = todo[r] \cup {n}
      /\ \A m \in Places : out'[m] = IF m = n THEN r ELSE out[m]
  BY <1>a, <1>b DEF IInv, RedactionTypeOK
<1>1. RedactionTypeOK' /\ SlipsBounded'
  BY FirstIn, LastIn DEF IInv, RedactionTypeOK, SlipsBounded, Promote, Content, Held
<1>2. LockOK'
  BY DEF IInv, RedactionTypeOK, LockOK, Promote
<1>3. Custody(r)'
  <2>1. wrote'[r] = stage'[r] \cup todo'[r]
    BY <1>a, <1>b, <1>c DEF IInv, Custody, Promoting
  <2>2. \A m \in Places : IF m \in todo'[r] THEN Covered(r, m)' ELSE MovedAside(r, m)'
    BY <1>a, <1>b, <1>c DEF IInv, Custody, Promoting, Covered, MovedAside
  <2> QED BY <1>b, <2>1, <2>2 DEF IInv, Custody, Idle, Undecided, Rendering, Staged, Moving,
     Promoting, Receipting, Noting, Undoing, Restoring, Failed
<1>4. \A q \in Runs \ {r} : Custody(q)'
  <2>1. \A q \in Runs \ {r} : phase[q] \in {"new", "ended"}
    BY Alone DEF IInv, Promote
  <2>2. \A q \in Runs \ {r} : Untouched(q)
    BY DEF IInv, RedactionTypeOK, Untouched, Promote
  <2> QED BY <2>1, <2>2, Others DEF IInv
<1>5. ASSUME NEW p \in Runs, outcome'[p] = "done", NEW m \in wrote'[p]
      PROVE  out'[m] = p \/ \E q \in Runs : aside'[q][m] = p
  <2>1. m \in Places /\ (out[m] = p \/ \E q \in Runs : aside[q][m] = p)
    BY <1>b, <1>5 DEF IInv, RedactionTypeOK, PriorSetKept
  <2>2. out[n] = Nobody \/ out[n] = r \/ out[n] = "other"
    BY <1>a, <1>b DEF IInv, Custody, Promoting, Covered, MovedAside
  <2>3. p # r
    BY <1>5, <1>b DEF IInv, Custody, Undecided
  <2> QED BY <1>b, <1>c, <2>1, <2>2, <2>3
<1>6. CoherentSets'
  <2>1. out'[Receipt] = Nobody
    BY <1>a, <1>b, <1>c DEF IInv, RedactionTypeOK, Custody, Promoting, MovedAside
  <2> QED BY <1>b, <2>1 DEF IInv, CoherentSets, Coherent, NoSlips
<1> QED BY <1>1, <1>2, <1>3, <1>4, <1>5, <1>6 DEF IInv, PriorSetKept

LEMMA DisturbInv == ASSUME IInv, NEW r \in Runs, Disturb(r) PROVE IInv'
<1> USE NamesDiffer
<1>1. RedactionTypeOK' /\ SlipsBounded'
  BY DEF IInv, RedactionTypeOK, SlipsBounded, Disturb, Fault, run, Content, Held
<1>2. LockOK'
  BY DEF IInv, RedactionTypeOK, LockOK, Disturb, Fault, run
<1>3. Custody(r)'
  BY DEF IInv, RedactionTypeOK, LockOK, Disturb, Fault, run, Custody, Idle, Undecided,
     Rendering, Staged, Moving, Promoting, Receipting, Noting, Undoing, Restoring, Failed,
     InPlace, MovedAside, Covered, Held, Empty
<1>4. \A q \in Runs \ {r} : Custody(q)'
  <2>1. \A q \in Runs \ {r} : phase[q] \in {"new", "ended"}
    BY Alone DEF IInv, Disturb
  <2>2. \A q \in Runs \ {r} : Untouched(q)
    BY DEF IInv, RedactionTypeOK, Untouched, Disturb, Fault, run
  <2> QED BY <2>1, <2>2, Others DEF IInv
<1>5. ASSUME NEW p \in Runs, outcome'[p] = "done", NEW m \in wrote'[p]
      PROVE  out'[m] = p \/ \E q \in Runs : aside'[q][m] = p
  <2>1. PICK n \in todo[r] : out' = [out EXCEPT ![n] = "other"]
    BY DEF Disturb
  <2>2. phase[r] = "promoting" /\ UNCHANGED <<outcome, wrote, aside>>
    BY DEF Disturb, run
  <2>3. m \in Places /\ (out[m] = p \/ \E q \in Runs : aside[q][m] = p)
    BY <2>2, <1>5 DEF IInv, RedactionTypeOK, PriorSetKept
  <2>4. n \in Places /\ out[n] \in {r, "other"} /\ p # r
    BY <1>5, <2>2 DEF IInv, RedactionTypeOK, Custody, Undecided, Promoting, Covered
  <2> QED BY <2>1, <2>2, <2>3, <2>4 DEF IInv, RedactionTypeOK
<1>6. CoherentSets'
  BY DEF IInv, RedactionTypeOK, LockOK, CoherentSets, Coherent, NoSlips, Disturb, Fault,
     run, Custody, Idle, Undecided, Rendering, Staged, Moving, Promoting, Receipting,
     Noting, Undoing, Restoring, Failed, InPlace, MovedAside, Covered, Held
<1> QED BY <1>1, <1>2, <1>3, <1>4, <1>5, <1>6 DEF IInv, PriorSetKept

LEMMA RecheckInv == ASSUME IInv, NEW r \in Runs, Recheck(r) PROVE IInv'
<1> USE NamesDiffer
<1>1. RedactionTypeOK' /\ SlipsBounded'
  BY DEF IInv, RedactionTypeOK, SlipsBounded, Recheck, Goto, folder, run, Content, Held
<1>2. LockOK'
  BY DEF IInv, RedactionTypeOK, LockOK, Recheck, Goto, folder, run
<1>3. Custody(r)'
  <2>1. /\ phase[r] = "promoting" /\ stage[r] = {}
        /\ phase'[r] = IF \A n \in todo[r] : out[n] = r THEN "receipting" ELSE "raised"
        /\ UNCHANGED <<out, outcome, stage, wrote, aside, todo, before, slips>>
    BY DEF IInv, RedactionTypeOK, Recheck, Goto, folder, run
  <2>2. /\ outcome[r] = "none" /\ wrote[r] = todo[r]
        /\ \A n \in Places : IF n \in todo[r] THEN Covered(r, n) ELSE MovedAside(r, n)
    BY <2>1 DEF IInv, Custody, Undecided, Promoting
  <2>3. CASE \A n \in todo[r] : out[n] = r
    <3>1. phase'[r] = "receipting"
      BY <2>1, <2>3
    <3>2. Receipting(r)'
      BY <2>1, <2>2, <2>3 DEF Receipting, Covered, MovedAside
    <3> QED BY <2>1, <2>2, <3>1, <3>2 DEF Custody, Idle, Undecided, Rendering, Staged, Moving,
             Promoting, Noting, Undoing, Restoring, Failed
  <2>4. CASE ~ \A n \in todo[r] : out[n] = r
    <3>1. phase'[r] = "raised"
      BY <2>1, <2>4
    <3>2. Undoing(r)'
      BY <2>1, <2>2 DEF Undoing, Covered, MovedAside, InPlace
    <3> QED BY <2>1, <2>2, <3>1, <3>2 DEF Custody, Idle, Undecided, Rendering, Staged, Moving,
             Promoting, Receipting, Noting, Restoring, Failed
  <2> QED BY <2>3, <2>4
<1>4. \A q \in Runs \ {r} : Custody(q)'
  <2>1. \A q \in Runs \ {r} : phase[q] \in {"new", "ended"}
    BY Alone DEF IInv, Recheck, Goto
  <2>2. \A q \in Runs \ {r} : Untouched(q)
    BY DEF IInv, RedactionTypeOK, Untouched, Recheck, Goto, folder, run
  <2> QED BY <2>1, <2>2, Others DEF IInv
<1>5. PriorSetKept'
  BY KeptUnmoved DEF IInv, RedactionTypeOK, Recheck, Goto, folder, run
<1>6. CoherentSets'
  BY StillCoherent DEF IInv, RedactionTypeOK, Recheck, Goto, folder, run
<1> QED BY <1>1, <1>2, <1>3, <1>4, <1>5, <1>6 DEF IInv

LEMMA WriteReceiptInv == ASSUME IInv, NEW r \in Runs, WriteReceipt(r) PROVE IInv'
<1> USE NamesDiffer
<1>1. RedactionTypeOK' /\ SlipsBounded'
  BY DEF IInv, RedactionTypeOK, SlipsBounded, WriteReceipt, Goto, run, Content, Held
<1>2. LockOK'
  BY DEF IInv, RedactionTypeOK, LockOK, WriteReceipt, Goto, run
<1>3. Custody(r)'
  <2>1. /\ phase[r] = "receipting" /\ phase'[r] = "noting"
        /\ UNCHANGED <<outcome, stage, wrote, aside, todo, before, slips>>
        /\ \A n \in Places : out'[n] = IF n = Receipt THEN r ELSE out[n]
    BY DEF IInv, RedactionTypeOK, WriteReceipt, Goto, run
  <2>2. Noting(r)'
    BY <2>1 DEF IInv, Custody, Receipting, Noting
  <2> QED BY <2>1, <2>2 DEF IInv, Custody, Idle, Undecided, Rendering, Staged, Moving,
     Promoting,
           Receipting, Undoing, Restoring, Failed
<1>4. \A q \in Runs \ {r} : Custody(q)'
  <2>1. \A q \in Runs \ {r} : phase[q] \in {"new", "ended"}
    BY Alone DEF IInv, WriteReceipt, Goto
  <2>2. \A q \in Runs \ {r} : Untouched(q)
    BY DEF IInv, RedactionTypeOK, Untouched, WriteReceipt, Goto, run
  <2> QED BY <2>1, <2>2, Others DEF IInv
<1>5. PriorSetKept'
  BY DEF IInv, RedactionTypeOK, PriorSetKept, WriteReceipt, Goto, run, Custody, Idle,
     Undecided, Rendering, Staged, Moving, Promoting, Receipting, Noting, Undoing,
     Restoring, Failed, InPlace, MovedAside, Covered, Held
<1>6. CoherentSets'
  BY DEF IInv, RedactionTypeOK, LockOK, CoherentSets, Coherent, NoSlips, WriteReceipt, Goto,
     run, Custody, Idle, Undecided, Rendering, Staged, Moving, Promoting, Receipting,
     Noting, Undoing, Restoring, Failed, InPlace, MovedAside, Covered, Held
<1> QED BY <1>1, <1>2, <1>3, <1>4, <1>5, <1>6 DEF IInv

LEMMA RaiseInv == ASSUME IInv, NEW r \in Runs, Raise(r) PROVE IInv'
<1> USE NamesDiffer
<1>1. RedactionTypeOK' /\ SlipsBounded'
  BY DEF IInv, RedactionTypeOK, SlipsBounded, Raise, Fault, folder, run, Content, Held
<1>2. LockOK'
  BY DEF IInv, RedactionTypeOK, LockOK, Raise, Fault, folder, run
<1>3. Custody(r)'
  <2>1. /\ phase[r] \in {"moving", "promoting", "receipting"} /\ phase'[r] = "raised"
        /\ UNCHANGED <<out, outcome, stage, wrote, aside, todo, before, slips>>
    BY DEF IInv, RedactionTypeOK, Raise, folder, run
  <2>2. Undoing(r)'
    <3>1. CASE phase[r] = "moving"
      BY <2>1, <3>1 DEF IInv, Custody, Moving, Undoing, InPlace, MovedAside, Covered
    <3>2. CASE phase[r] = "promoting"
      BY <2>1, <3>2 DEF IInv, Custody, Promoting, Undoing, InPlace, MovedAside, Covered
    <3>3. CASE phase[r] = "receipting"
      BY <2>1, <3>3 DEF IInv, Custody, Receipting, Undoing, InPlace, MovedAside, Covered
    <3> QED BY <2>1, <3>1, <3>2, <3>3
  <2> QED BY <2>1, <2>2 DEF IInv, Custody, Idle, Undecided, Rendering, Staged, Moving,
     Promoting,
           Receipting, Noting, Restoring, Failed
<1>4. \A q \in Runs \ {r} : Custody(q)'
  <2>1. \A q \in Runs \ {r} : phase[q] \in {"new", "ended"}
    BY Alone DEF IInv, Raise
  <2>2. \A q \in Runs \ {r} : Untouched(q)
    BY DEF IInv, RedactionTypeOK, Untouched, Raise, Fault, folder, run
  <2> QED BY <2>1, <2>2, Others DEF IInv
<1>5. PriorSetKept'
  BY KeptUnmoved DEF IInv, RedactionTypeOK, Raise, Fault, folder, run
<1>6. CoherentSets'
  BY StillCoherent DEF IInv, RedactionTypeOK, Raise, Fault, folder, run
<1> QED BY <1>1, <1>2, <1>3, <1>4, <1>5, <1>6 DEF IInv

LEMMA OpenRecoveryInv == ASSUME IInv, NEW r \in Runs, OpenRecovery(r) PROVE IInv'
<1> USE NamesDiffer
<1>1. RedactionTypeOK' /\ SlipsBounded'
  BY DEF IInv, RedactionTypeOK, SlipsBounded, OpenRecovery, Goto, folder, run, Content, Held
<1>2. LockOK'
  BY DEF IInv, RedactionTypeOK, LockOK, OpenRecovery, Goto, folder, run
<1>3. Custody(r)'
  BY DEF IInv, RedactionTypeOK, LockOK, OpenRecovery, Goto, folder, run, Custody, Idle,
     Undecided, Rendering, Staged, Moving, Promoting, Receipting, Noting, Undoing,
     Restoring, Failed, InPlace, MovedAside, Covered, Held, Empty
<1>4. \A q \in Runs \ {r} : Custody(q)'
  <2>1. \A q \in Runs \ {r} : phase[q] \in {"new", "ended"}
    BY Alone DEF IInv, OpenRecovery, Goto
  <2>2. \A q \in Runs \ {r} : Untouched(q)
    BY DEF IInv, RedactionTypeOK, Untouched, OpenRecovery, Goto, folder, run
  <2> QED BY <2>1, <2>2, Others DEF IInv
<1>5. PriorSetKept'
  BY KeptUnmoved DEF IInv, RedactionTypeOK, OpenRecovery, Goto, folder, run
<1>6. CoherentSets'
  BY StillCoherent DEF IInv, RedactionTypeOK, OpenRecovery, Goto, folder, run
<1> QED BY <1>1, <1>2, <1>3, <1>4, <1>5, <1>6 DEF IInv

LEMMA NoRecoveryInv == ASSUME IInv, NEW r \in Runs, NoRecovery(r) PROVE IInv'
<1> USE NamesDiffer
<1>1. RedactionTypeOK' /\ SlipsBounded'
  BY DEF IInv, RedactionTypeOK, SlipsBounded, NoRecovery, Leave, Goto, Fault, folder,
     Content, Held
<1>2. LockOK'
  BY DEF IInv, RedactionTypeOK, LockOK, NoRecovery, Leave, Goto, Fault, folder
<1>3. Custody(r)'
  BY DEF IInv, RedactionTypeOK, LockOK, NoRecovery, Leave, Goto, Fault, folder, Custody,
     Idle, Undecided, Rendering, Staged, Moving, Promoting, Receipting, Noting, Undoing,
     Restoring, Failed, InPlace, MovedAside, Covered, Held, Empty
<1>4. \A q \in Runs \ {r} : Custody(q)'
  <2>1. \A q \in Runs \ {r} : phase[q] \in {"new", "ended"}
    BY Alone DEF IInv, NoRecovery, Leave, Goto
  <2>2. \A q \in Runs \ {r} : Untouched(q)
    BY DEF IInv, RedactionTypeOK, Untouched, NoRecovery, Leave, Goto, Fault, folder
  <2> QED BY <2>1, <2>2, Others DEF IInv
<1>5. PriorSetKept'
  BY KeptUnmoved DEF IInv, RedactionTypeOK, NoRecovery, Leave, Goto, Fault, folder
<1>6. CoherentSets'
  BY DEF IInv, RedactionTypeOK, LockOK, CoherentSets, Coherent, NoSlips, NoRecovery, Leave,
     Goto, Fault, folder, Custody, Idle, Undecided, Rendering, Staged, Moving, Promoting,
     Receipting, Noting, Undoing, Restoring, Failed, InPlace, MovedAside, Covered, Held
<1> QED BY <1>1, <1>2, <1>3, <1>4, <1>5, <1>6 DEF IInv

LEMMA UndoInv == ASSUME IInv, NEW r \in Runs, Undo(r) PROVE IInv'
<1> USE NamesDiffer
<1> DEFINE n == First(todo[r])
<1>a. n \in todo[r] /\ n \in Documents /\ n \in Places
  BY FirstIn DEF IInv, RedactionTypeOK, Undo
<1>b. /\ phase[r] = "undoing" /\ todo' = [todo EXCEPT ![r] = @ \ {n}]
      /\ \/ /\ failed' = [failed EXCEPT ![r][n] = out[n]]
            /\ out' = [out EXCEPT ![n] = Nobody]
            /\ UNCHANGED <<faults, slips>>
         \/ /\ Fault
            /\ slips' = [slips EXCEPT ![r] = @ + 1]
            /\ UNCHANGED <<out, failed>>
      /\ UNCHANGED <<note, folderLock, phase, outcome, reuse, stage, wrote, aside, before>>
  BY DEF Undo
<1> HIDE DEF n
<1>c. outcome[r] = "none" /\ Covered(r, n)
  BY <1>a, <1>b DEF IInv, Custody, Undecided, Undoing
<1>d. LockOK' /\ todo'[r] = todo[r] \ {n} /\ \A q \in Runs \ {r} : todo'[q] = todo[q]
  BY <1>b DEF IInv, RedactionTypeOK, LockOK
<1>e. \A q \in Runs \ {r} : phase[q] \in {"new", "ended"}
  BY <1>b DEF IInv, LockOK
<1>1. CASE /\ failed' = [failed EXCEPT ![r][n] = out[n]]
           /\ out' = [out EXCEPT ![n] = Nobody]
           /\ UNCHANGED <<faults, slips>>
  <2>1. RedactionTypeOK' /\ SlipsBounded'
    BY <1>a, <1>b, <1>1 DEF IInv, RedactionTypeOK, SlipsBounded, Content
  <2>2. \A m \in Places : out'[m] = IF m = n THEN Nobody ELSE out[m]
    BY <1>1 DEF IInv, RedactionTypeOK
  <2>3. Undoing(r)'
    BY <1>a, <1>b, <1>c, <1>d, <1>1, <2>2 DEF IInv, Custody, Undoing, Covered, InPlace,
       MovedAside
  <2>4. Custody(r)'
    BY <1>b, <1>1, <2>3 DEF IInv, Custody, Idle, Undecided, Rendering, Staged, Moving,
       Promoting,
       Receipting, Noting, Restoring, Failed
  <2>5. \A q \in Runs \ {r} : Custody(q)'
    BY <1>b, <1>d, <1>e, <1>1, Others DEF IInv, Untouched
  <2>6. ASSUME NEW p \in Runs, outcome'[p] = "done", NEW m \in wrote'[p]
        PROVE  out'[m] = p \/ \E q \in Runs : aside'[q][m] = p
    <3>1. m \in Places /\ p # r /\ (out[m] = p \/ \E q \in Runs : aside[q][m] = p)
      BY <1>b, <1>c, <2>6 DEF IInv, RedactionTypeOK, PriorSetKept
    <3> QED BY <1>b, <1>c, <2>2, <3>1 DEF Covered
  <2>7. CoherentSets'
    BY <1>a, <1>b, <1>1, <2>2 DEF IInv, CoherentSets, Coherent, NoSlips
  <2> QED BY <1>d, <2>1, <2>4, <2>5, <2>6, <2>7 DEF IInv, PriorSetKept
<1>2. CASE /\ Fault
           /\ slips' = [slips EXCEPT ![r] = @ + 1]
           /\ UNCHANGED <<out, failed>>
  <2>0. slips[r] \in Nat /\ slips'[r] = slips[r] + 1 /\ \A q \in Runs \ {r} : slips'[q] = slips[q]
    BY <1>2 DEF IInv, RedactionTypeOK
  <2>1. RedactionTypeOK' /\ SlipsBounded'
    BY <1>a, <1>b, <1>2 DEF IInv, RedactionTypeOK, SlipsBounded, Fault
  <2>3. Undoing(r)'
    BY <1>a, <1>b, <1>c, <1>d, <1>2, <2>0 DEF IInv, Custody, Undoing, Covered, InPlace,
       MovedAside
  <2>4. Custody(r)'
    BY <1>b, <1>2, <2>3 DEF IInv, Custody, Idle, Undecided, Rendering, Staged, Moving,
       Promoting,
       Receipting, Noting, Restoring, Failed
  <2>5. \A q \in Runs \ {r} : Custody(q)'
    BY <1>b, <1>d, <1>e, <1>2, <2>0, Others DEF IInv, Untouched
  <2>6. PriorSetKept'
    BY <1>b, <1>2, KeptUnmoved DEF IInv
  <2>7. CoherentSets'
    BY <2>0 DEF CoherentSets, NoSlips
  <2> QED BY <1>d, <2>1, <2>4, <2>5, <2>6, <2>7 DEF IInv
<1> QED BY <1>b, <1>1, <1>2

LEMMA UndoneInv == ASSUME IInv, NEW r \in Runs, Undone(r) PROVE IInv'
<1> USE NamesDiffer
<1>1. RedactionTypeOK' /\ SlipsBounded'
  BY DEF IInv, RedactionTypeOK, SlipsBounded, Undone, Goto, folder, Content, Held
<1>2. LockOK'
  BY DEF IInv, RedactionTypeOK, LockOK, Undone, Goto, folder
<1>3. Custody(r)'
  <2>1. /\ phase[r] = "undoing" /\ phase'[r] = "restoring" /\ todo[r] = {}
        /\ todo'[r] = Held(aside[r])
        /\ UNCHANGED <<out, outcome, stage, wrote, aside, before, slips>>
    BY DEF IInv, RedactionTypeOK, Undone, Goto, folder
  <2>2. Restoring(r)'
    BY <2>1 DEF IInv, Custody, Undoing, Restoring, Held, InPlace, MovedAside, Covered
  <2> QED BY <2>1, <2>2 DEF IInv, Custody, Idle, Undecided, Rendering, Staged, Moving,
     Promoting,
           Receipting, Noting, Undoing, Failed
<1>4. \A q \in Runs \ {r} : Custody(q)'
  <2>1. \A q \in Runs \ {r} : phase[q] \in {"new", "ended"}
    BY Alone DEF IInv, Undone, Goto
  <2>2. \A q \in Runs \ {r} : Untouched(q)
    BY DEF IInv, RedactionTypeOK, Untouched, Undone, Goto, folder
  <2> QED BY <2>1, <2>2, Others DEF IInv
<1>5. PriorSetKept'
  BY KeptUnmoved DEF IInv, RedactionTypeOK, Undone, Goto, folder
<1>6. CoherentSets'
  BY StillCoherent DEF IInv, RedactionTypeOK, Undone, Goto, folder
<1> QED BY <1>1, <1>2, <1>3, <1>4, <1>5, <1>6 DEF IInv

LEMMA RestoreInv == ASSUME IInv, NEW r \in Runs, Restore(r) PROVE IInv'
<1> USE NamesDiffer
<1> DEFINE n == Last(todo[r])
<1>a. n \in todo[r] /\ n \in Places
  BY LastIn DEF IInv, RedactionTypeOK, Restore
<1>b. /\ phase[r] = "restoring" /\ todo' = [todo EXCEPT ![r] = @ \ {n}]
      /\ \/ /\ out' = [out EXCEPT ![n] = aside[r][n]]
            /\ aside' = [aside EXCEPT ![r][n] = Nobody]
            /\ UNCHANGED <<faults, slips>>
         \/ /\ Fault
            /\ slips' = [slips EXCEPT ![r] = @ + 1]
            /\ UNCHANGED <<out, aside>>
      /\ UNCHANGED <<note, folderLock, phase, outcome, reuse, stage, wrote, failed, before>>
  BY DEF Restore
<1> HIDE DEF n
<1>c. /\ outcome[r] = "none" /\ aside[r][n] = before[r][n] /\ aside[r][n] # Nobody
      /\ out[n] = Nobody \/ (out[n] \in {r, "other"} /\ slips[r] # 0)
  BY <1>a, <1>b DEF IInv, RedactionTypeOK, Custody, Undecided, Restoring, Held, InPlace,
     MovedAside, Covered
<1>d. LockOK' /\ todo'[r] = todo[r] \ {n} /\ \A q \in Runs \ {r} : todo'[q] = todo[q]
  BY <1>b DEF IInv, RedactionTypeOK, LockOK
<1>e. \A q \in Runs \ {r} : phase[q] \in {"new", "ended"}
  BY <1>b DEF IInv, LockOK
<1>1. CASE /\ out' = [out EXCEPT ![n] = aside[r][n]]
           /\ aside' = [aside EXCEPT ![r][n] = Nobody]
           /\ UNCHANGED <<faults, slips>>
  <2>1. RedactionTypeOK' /\ SlipsBounded'
    BY <1>a, <1>b, <1>1 DEF IInv, RedactionTypeOK, SlipsBounded, Content
  <2>2. /\ \A m \in Places : /\ out'[m] = IF m = n THEN aside[r][n] ELSE out[m]
                             /\ aside'[r][m] = IF m = n THEN Nobody ELSE aside[r][m]
        /\ \A q \in Runs \ {r} : aside'[q] = aside[q]
    BY <1>a, <1>1 DEF IInv, RedactionTypeOK
  <2>3. Restoring(r)'
    BY <1>a, <1>b, <1>c, <1>d, <1>1, <2>2
    DEF IInv, Custody, Restoring, Held, Covered, InPlace, MovedAside
  <2>4. Custody(r)'
    BY <1>b, <1>1, <2>3 DEF IInv, Custody, Idle, Undecided, Rendering, Staged, Moving,
       Promoting,
       Receipting, Noting, Undoing, Failed
  <2>5. \A q \in Runs \ {r} : Custody(q)'
    BY <1>b, <1>d, <1>e, <1>1, <2>2, Others DEF IInv, Untouched
  <2>6. ASSUME NEW p \in Runs, outcome'[p] = "done", NEW m \in wrote'[p]
        PROVE  out'[m] = p \/ \E q \in Runs : aside'[q][m] = p
    <3>1. m \in Places /\ p # r /\ (out[m] = p \/ \E q \in Runs : aside[q][m] = p)
      BY <1>b, <1>c, <2>6 DEF IInv, RedactionTypeOK, PriorSetKept
    <3> QED BY <1>b, <1>c, <2>2, <3>1
  <2>7. CoherentSets'
    <3> SUFFICES ASSUME NoSlips' PROVE Coherent(out)'
      BY <1>b, <1>1 DEF IInv, CoherentSets, NoSlips, Coherent
    <3>1. slips[r] = 0 /\ Coherent(before[r])
      BY <1>b, <1>1 DEF IInv, CoherentSets, NoSlips
    <3>2. \A m \in Places : out'[m] = before[r][m] \/ out'[m] = Nobody
      BY <1>b, <1>c, <2>2, <3>1 DEF IInv, Custody, Restoring, InPlace, MovedAside
    <3> QED BY <3>1, <3>2 DEF Coherent
  <2> QED BY <1>d, <2>1, <2>4, <2>5, <2>6, <2>7 DEF IInv, PriorSetKept
<1>2. CASE /\ Fault
           /\ slips' = [slips EXCEPT ![r] = @ + 1]
           /\ UNCHANGED <<out, aside>>
  <2>0. slips[r] \in Nat /\ slips'[r] = slips[r] + 1 /\ \A q \in Runs \ {r} : slips'[q] = slips[q]
    BY <1>2 DEF IInv, RedactionTypeOK
  <2>1. RedactionTypeOK' /\ SlipsBounded'
    BY <1>a, <1>b, <1>2 DEF IInv, RedactionTypeOK, SlipsBounded, Fault
  <2>3. Restoring(r)'
    BY <1>a, <1>b, <1>c, <1>d, <1>2, <2>0
    DEF IInv, Custody, Restoring, Held, Covered, InPlace, MovedAside
  <2>4. Custody(r)'
    BY <1>b, <1>2, <2>3 DEF IInv, Custody, Idle, Undecided, Rendering, Staged, Moving,
       Promoting,
       Receipting, Noting, Undoing, Failed
  <2>5. \A q \in Runs \ {r} : Custody(q)'
    BY <1>b, <1>d, <1>e, <1>2, <2>0, Others DEF IInv, Untouched
  <2>6. PriorSetKept'
    BY <1>b, <1>2, KeptUnmoved DEF IInv
  <2>7. CoherentSets'
    BY <2>0 DEF CoherentSets, NoSlips
  <2> QED BY <1>d, <2>1, <2>4, <2>5, <2>6, <2>7 DEF IInv
<1> QED BY <1>b, <1>1, <1>2

LEMMA RestoredInv == ASSUME IInv, NEW r \in Runs, Restored(r) PROVE IInv'
<1> USE NamesDiffer
<1>1. RedactionTypeOK' /\ SlipsBounded'
  BY DEF IInv, RedactionTypeOK, SlipsBounded, Restored, Leave, Goto, folder, Content, Held
<1>2. LockOK'
  BY DEF IInv, RedactionTypeOK, LockOK, Restored, Leave, Goto, folder
<1>3. Custody(r)'
  BY DEF IInv, RedactionTypeOK, LockOK, Restored, Leave, Goto, folder, Custody, Idle,
     Undecided, Rendering, Staged, Moving, Promoting, Receipting, Noting, Undoing,
     Restoring, Failed, InPlace, MovedAside, Covered, Held, Empty
<1>4. \A q \in Runs \ {r} : Custody(q)'
  <2>1. \A q \in Runs \ {r} : phase[q] \in {"new", "ended"}
    BY Alone DEF IInv, Restored, Leave, Goto
  <2>2. \A q \in Runs \ {r} : Untouched(q)
    BY DEF IInv, RedactionTypeOK, Untouched, Restored, Leave, Goto, folder
  <2> QED BY <2>1, <2>2, Others DEF IInv
<1>5. PriorSetKept'
  BY KeptUnmoved DEF IInv, RedactionTypeOK, Restored, Leave, Goto, folder
<1>6. CoherentSets'
  BY StillCoherent DEF IInv, RedactionTypeOK, Restored, Leave, Goto, folder
<1> QED BY <1>1, <1>2, <1>3, <1>4, <1>5, <1>6 DEF IInv

LEMMA NoteInv == ASSUME IInv, NEW r \in Runs, Note(r) PROVE IInv'
<1> USE NamesDiffer
<1>1. RedactionTypeOK' /\ SlipsBounded'
  BY DEF IInv, RedactionTypeOK, SlipsBounded, Note, Leave, Goto, Content, Held
<1>2. LockOK'
  BY DEF IInv, RedactionTypeOK, LockOK, Note, Leave, Goto
<1>3. Custody(r)'
  BY DEF IInv, RedactionTypeOK, LockOK, Note, Leave, Goto, Custody, Idle, Undecided,
     Rendering, Staged, Moving, Promoting, Receipting, Noting, Undoing, Restoring, Failed,
     InPlace, MovedAside, Covered, Held, Empty
<1>4. \A q \in Runs \ {r} : Custody(q)'
  <2>1. \A q \in Runs \ {r} : phase[q] \in {"new", "ended"}
    BY Alone DEF IInv, Note, Leave, Goto
  <2>2. \A q \in Runs \ {r} : Untouched(q)
    BY DEF IInv, RedactionTypeOK, Untouched, Note, Leave, Goto
  <2> QED BY <2>1, <2>2, Others DEF IInv
<1>5. PriorSetKept'
  BY DEF IInv, RedactionTypeOK, PriorSetKept, Note, Leave, Goto, Custody, Idle, Undecided,
     Rendering, Staged, Moving, Promoting, Receipting, Noting, Undoing, Restoring, Failed,
     InPlace, MovedAside, Covered, Held
<1>6. CoherentSets'
  BY StillCoherent DEF IInv, RedactionTypeOK, Note, Leave, Goto
<1> QED BY <1>1, <1>2, <1>3, <1>4, <1>5, <1>6 DEF IInv

-----------------------------------------------------------------------------
(* The invariant, and what follows from it.                                *)

LEMMA NextInv == ASSUME IInv, [RedactionNext]_redactionVars PROVE IInv'
<1>1. CASE UNCHANGED redactionVars
  BY <1>1 DEF IInv, RedactionTypeOK, SlipsBounded, LockOK, PriorSetKept, CoherentSets,
     Coherent, NoSlips,
     Custody, Idle, Undecided, Rendering, Staged, Moving, Promoting, Receipting, Noting, Undoing,
     Restoring, Failed, InPlace, MovedAside, Covered, redactionVars, run
<1>2. ASSUME NEW r \in Runs, Step(r) PROVE IInv'
  <2>1. CASE TakeFolder(r) \/ GiveUp(r) \/ Release(r)
    BY <2>1, TakeFolderInv, GiveUpInv, ReleaseInv
  <2>2. CASE Refuse(r) \/ Render(r) \/ Uncertified(r) \/ Certified(r)
    BY <2>2, RefuseInv, RenderInv, UncertifiedInv, CertifiedInv
  <2>3. CASE StageHolds(r) \/ MoveOld(r) \/ AllMoved(r) \/ Promote(r) \/ Recheck(r) \/ WriteReceipt(r)
    BY <2>3, StageHoldsInv, MoveOldInv, AllMovedInv, PromoteInv, RecheckInv, WriteReceiptInv
  <2>4. CASE OpenRecovery(r) \/ Undo(r) \/ Undone(r) \/ Restore(r) \/ Restored(r) \/ Note(r)
    BY <2>4, OpenRecoveryInv, UndoInv, UndoneInv, RestoreInv, RestoredInv, NoteInv
  <2> QED BY <1>2, <2>1, <2>2, <2>3, <2>4 DEF Step
<1>3. ASSUME NEW r \in Runs, KillRun(r) \/ StageChanged(r) \/ Disturb(r) \/ Raise(r) \/ NoRecovery(r)
      PROVE  IInv'
  BY <1>3, KillRunInv, StageChangedInv, DisturbInv, RaiseInv, NoRecoveryInv
<1> QED BY <1>1, <1>2, <1>3 DEF RedactionNext

\* The strengthened invariant holds in every state, whatever fails or is killed.
THEOREM Inductive == RedactionSpec => []IInv
<1> QED BY InitInv, NextInv, PTL DEF RedactionSpec

\* Every variable keeps its type, and a rollback visits documents alone until
\* it puts the old set back (ingest.py:1569).
THEOREM TypeCorrect == RedactionSpec => []RedactionTypeOK
<1>1. IInv => RedactionTypeOK
  BY DEF IInv
<1> QED BY <1>1, Inductive, PTL

\* The documents of a set that got its receipt are never destroyed, whichever
\* runs fail or are killed later (ingest.py:1569).
THEOREM CertifiedSetKept == RedactionSpec => []PriorSetKept
<1>1. IInv => PriorSetKept
  BY DEF IInv
<1> QED BY <1>1, Inductive, PTL

\* A run that fails leaves the documents and the receipt it found, unless its
\* rollback passed over an error (ingest.py:1602).
THEOREM FailureLeavesPriorSet == RedactionSpec => []FailureRestores
<1>1. IInv => FailureRestores
  BY DEF IInv, Custody, Failed, FailureRestores
<1> QED BY <1>1, Inductive, PTL

\* No document of another run, and nothing another program changed, is under
\* a receipt, as long as no rollback passed over an error (ingest.py:1549).
THEOREM ReceiptCoversItsOwn == RedactionSpec => []NoStrangerUnderReceipt
<1>1. IInv => NoStrangerUnderReceipt
  BY DEF IInv, CoherentSets, Coherent, NoSlips, NoStrangerUnderReceipt
<1> QED BY <1>1, Inductive, PTL
=============================================================================
