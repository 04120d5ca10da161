---------------------------- MODULE AtomicRelease ---------------------------
(***************************************************************************)
(* What the portable updater promises to an operator: an update and a      *)
(* rollback are single steps.  Either the destination is as before, or the *)
(* new release is active, the old one is retained for a rollback, and the  *)
(* client database is the one it was; a rollback gives back the retained   *)
(* release with the current database or the one kept at the update.        *)
(***************************************************************************)
EXTENDS Naturals
CONSTANTS Apps, NoApp, MaxDb
VARIABLES
    active,     \* release in Atlas
    fallback,   \* release a rollback returns to
    db,         \* content of the client database, 0 when there is none
    saved       \* its content at the update that retained fallback

vars == <<active, fallback, db, saved>>

Init ==
    /\ active \in Apps \cup {NoApp} /\ fallback = NoApp
    /\ db = 0 /\ saved = 0
Install ==
    /\ active = NoApp
    /\ active' \in Apps
    /\ UNCHANGED <<fallback, db, saved>>
Update ==
    /\ active # NoApp
    /\ active' \in Apps /\ fallback' = active /\ saved' = db
    /\ UNCHANGED db
Rollback ==
    /\ fallback # NoApp
    /\ active' = fallback /\ fallback' = NoApp
    /\ db' = db \/ (saved # 0 /\ db' = saved)
    /\ UNCHANGED saved
Write ==
    /\ active # NoApp
    /\ db' \in 1..MaxDb
    /\ UNCHANGED <<active, fallback, saved>>
Next == Install \/ Update \/ Rollback \/ Write
Spec == Init /\ [][Next]_vars
=============================================================================
