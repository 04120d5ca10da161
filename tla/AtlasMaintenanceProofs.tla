----------------------- MODULE AtlasMaintenanceProofs -----------------------
(***************************************************************************)
(* What the maintenance handoff leaves on disk, for any number of          *)
(* requests, recoveries and processes killed: IInv is the invariant of the *)
(* journal, AInv the one of the requests that have their answer.           *)
(***************************************************************************)
EXTENDS AtlasMaintenance, TLAPS

(* A launcher between admission and exit, and whoever runs the script, has *)
(* the lock; nobody has it before it is taken or after the end.            *)
Admitted == {"prepare", "publish", "spawn", "name"}
LockOK ==
    \A p \in Procs :
        /\ step[p] \in Admitted \cup {"admit", "running"} => handoffLock = p
        /\ handoffLock = p =>
             step[p] \in Admitted \cup {"admit", "running", "returned", "finish", "write",
                "leave"}

(* A launcher that was admitted found no journal, and nobody writes one    *)
(* while it has the lock.                                                  *)
NoJournal == \A r \in Requests : step[Launcher(r)] \in Admitted => journal = Nil

(* The script is waited for by the process that has the lock, and the one  *)
(* that began a request is the helper the pointer names.                   *)
ScriptOK ==
    ScriptBusy =>
        /\ script.by \in Procs /\ step[script.by] = "running"
        /\ script.req \in Requests /\ ~script.recover =>
             pointer.req = script.req /\ script.req \in helper

IInv == HandoffTypeOK /\ LockOK /\ NoJournal /\ ScriptOK /\ RecoverableJournal

-----------------------------------------------------------------------------
(* Processes.                                                              *)

LEMMA Processes ==
    /\ Nil \notin Procs /\ Nil \notin Requests /\ Nil # FirstInstall /\ FirstInstall \notin Requests
    /\ MaxKills \in Nat
    /\ Installer \in Procs
    /\ \A r \in Requests : Launcher(r) \in Procs /\ Worker(r) \in Procs
    /\ \A k \in Recoveries : Caller(k) \in Procs /\ Receiver(k) \in Procs
BY MaintenanceAssumption DEF Procs, Launcher, Worker, Caller, Receiver, Installer
LEMMA ProcessesDiffer ==
    /\ \A r, q \in Requests : Launcher(r) = Launcher(q) => r = q
    /\ \A r, q \in Requests : Launcher(r) # Worker(q)
    /\ \A r \in Requests, k \in Recoveries :
         /\ Launcher(r) # Caller(k) /\ Launcher(r) # Receiver(k)
    /\ \A r \in Requests : Launcher(r) # Installer
    /\ \A k, l \in Recoveries : Caller(k) # Receiver(l)
BY DEF Launcher, Worker, Caller, Receiver, Installer

LEMMA InitInv == HandoffInit => IInv
<1> SUFFICES ASSUME HandoffInit PROVE IInv
  OBVIOUS
<1> USE Processes
<1>1. HandoffTypeOK
  BY DEF HandoffInit, HandoffTypeOK, Pointers, Statuses, NoPointer, NoScript, Subjects
<1>2. LockOK /\ NoJournal /\ ScriptOK /\ RecoverableJournal
  BY DEF HandoffInit, LockOK, NoJournal, ScriptOK, RecoverableJournal, Admitted, ScriptBusy,
     NoScript
<1> QED BY <1>1, <1>2 DEF IInv

-----------------------------------------------------------------------------
(* One lemma per action.                                                   *)

LEMMA CheckResultInv == ASSUME IInv, NEW p \in Procs, NEW n, CheckResult(p, n) PROVE IInv'
<1> USE Processes
<1>1. HandoffTypeOK'
  BY DEF IInv, HandoffTypeOK, LockOK, Statuses, Alive, Admitted, CheckResult, Go, Files,
     Settled
<1>2. LockOK'
  BY DEF IInv, HandoffTypeOK, LockOK, Admitted, CheckResult, Go, Files, Settled
<1>3. NoJournal'
  BY DEF IInv, HandoffTypeOK, NoJournal, Admitted, CheckResult, Go, Files, Settled
<1>4. ScriptOK'
  BY DEF IInv, HandoffTypeOK, ScriptOK, ScriptBusy, CheckResult, Go, Files, Settled
<1>5. RecoverableJournal'
  BY DEF IInv, RecoverableJournal, CheckResult, Go, Files, Settled
<1> QED BY <1>1, <1>2, <1>3, <1>4, <1>5 DEF IInv

LEMMA WriteResultInv == ASSUME IInv, NEW p \in Procs, NEW n, WriteResult(p, n) PROVE IInv'
<1> USE Processes
<1>1. HandoffTypeOK'
  BY DEF IInv, HandoffTypeOK, LockOK, Statuses, Alive, Admitted, WriteResult, Go, Files
<1>2. LockOK'
  BY DEF IInv, HandoffTypeOK, LockOK, Admitted, WriteResult, Go, Files
<1>3. NoJournal'
  BY DEF IInv, HandoffTypeOK, NoJournal, Admitted, WriteResult, Go, Files
<1>4. ScriptOK'
  BY DEF IInv, HandoffTypeOK, ScriptOK, ScriptBusy, WriteResult, Go, Files
<1>5. RecoverableJournal'
  BY DEF IInv, RecoverableJournal, WriteResult, Go, Files
<1> QED BY <1>1, <1>2, <1>3, <1>4, <1>5 DEF IInv

LEMMA LeaveLockInv == ASSUME IInv, NEW p \in Procs, LeaveLock(p) PROVE IInv'
<1> USE Processes
<1>1. HandoffTypeOK'
  BY DEF IInv, HandoffTypeOK, LockOK, Statuses, Alive, Admitted, LeaveLock, Go, Files
<1>2. LockOK'
  BY DEF IInv, HandoffTypeOK, LockOK, Admitted, LeaveLock, Go, Files
<1>3. NoJournal'
  BY DEF IInv, HandoffTypeOK, NoJournal, Admitted, LeaveLock, Go, Files
<1>4. ScriptOK'
  BY DEF IInv, HandoffTypeOK, ScriptOK, ScriptBusy, LeaveLock, Go, Files
<1>5. RecoverableJournal'
  BY DEF IInv, RecoverableJournal, LeaveLock, Go, Files
<1> QED BY <1>1, <1>2, <1>3, <1>4, <1>5 DEF IInv

LEMMA LaunchInv == ASSUME IInv, NEW r \in Requests, Launch(r) PROVE IInv'
<1> USE Processes
<1>1. HandoffTypeOK'
  BY ProcessesDiffer DEF IInv, HandoffTypeOK, LockOK, ScriptOK, Pointers, Statuses, Subjects,
     NoScript, NoPointer, Alive, Admitted, Launch, Go, Files
<1>2. LockOK'
  BY ProcessesDiffer DEF IInv, HandoffTypeOK, LockOK, ScriptOK, Admitted, NoScript, Alive,
     Launch, Go, Files
<1>3. NoJournal'
  BY ProcessesDiffer DEF IInv, HandoffTypeOK, LockOK, NoJournal, ScriptOK, Admitted, Alive,
     Launch, Go, Files
<1>4. ScriptOK'
  BY ProcessesDiffer DEF IInv, HandoffTypeOK, LockOK, ScriptOK, Admitted, NoScript,
     ScriptBusy, Alive, Launch, Go, Files
<1>5. RecoverableJournal'
  BY ProcessesDiffer DEF IInv, HandoffTypeOK, LockOK, NoJournal, ScriptOK, Admitted,
     RecoverableJournal, ScriptBusy, NoScript, Launch, Go, Files
<1> QED BY <1>1, <1>2, <1>3, <1>4, <1>5 DEF IInv

LEMMA AdmitInv == ASSUME IInv, NEW r \in Requests, Admit(r) PROVE IInv'
<1> USE Processes
<1>1. HandoffTypeOK'
  BY ProcessesDiffer DEF IInv, HandoffTypeOK, LockOK, ScriptOK, Pointers, Statuses, Subjects,
     NoScript, NoPointer, Alive, Admitted, Admit, Go, Admissible, Inactive
<1>2. LockOK'
  BY ProcessesDiffer DEF IInv, HandoffTypeOK, LockOK, ScriptOK, Admitted, NoScript, Alive,
     Admit, Go, Admissible, Inactive
<1>3. NoJournal'
  BY ProcessesDiffer DEF IInv, HandoffTypeOK, LockOK, NoJournal, ScriptOK, Admitted, Alive,
     Admit, Go, Admissible, Inactive
<1>4. ScriptOK'
  BY ProcessesDiffer DEF IInv, HandoffTypeOK, LockOK, ScriptOK, Admitted, NoScript,
     ScriptBusy, Alive, Admit, Go, Admissible, Inactive
<1>5. RecoverableJournal'
  BY ProcessesDiffer DEF IInv, HandoffTypeOK, LockOK, NoJournal, ScriptOK, Admitted,
     RecoverableJournal, ScriptBusy, NoScript, Admit, Go, Admissible, Inactive
<1> QED BY <1>1, <1>2, <1>3, <1>4, <1>5 DEF IInv

LEMMA PrepareInv == ASSUME IInv, NEW r \in Requests, Prepare(r) PROVE IInv'
<1> USE Processes
<1>1. HandoffTypeOK'
  BY ProcessesDiffer DEF IInv, HandoffTypeOK, LockOK, ScriptOK, Pointers, Statuses, Subjects,
     NoScript, NoPointer, Alive, Admitted, Prepare, Go, Retired
<1>2. LockOK'
  BY ProcessesDiffer DEF IInv, HandoffTypeOK, LockOK, ScriptOK, Admitted, NoScript, Alive,
     Prepare, Go, Retired
<1>3. NoJournal'
  BY ProcessesDiffer DEF IInv, HandoffTypeOK, LockOK, NoJournal, ScriptOK, Admitted, Alive,
     Prepare, Go, Retired
<1>4. ScriptOK'
  BY ProcessesDiffer DEF IInv, HandoffTypeOK, LockOK, ScriptOK, Admitted, NoScript,
     ScriptBusy, Alive, Prepare, Go, Retired
<1>5. RecoverableJournal'
  BY ProcessesDiffer DEF IInv, HandoffTypeOK, LockOK, NoJournal, ScriptOK, Admitted,
     RecoverableJournal, ScriptBusy, NoScript, Prepare, Go, Retired
<1> QED BY <1>1, <1>2, <1>3, <1>4, <1>5 DEF IInv

LEMMA PublishInv == ASSUME IInv, NEW r \in Requests, Publish(r) PROVE IInv'
<1> USE Processes
<1>1. HandoffTypeOK'
  BY ProcessesDiffer DEF IInv, HandoffTypeOK, LockOK, ScriptOK, Pointers, Statuses, Subjects,
     NoScript, NoPointer, Alive, Admitted, Publish, Go
<1>2. LockOK'
  BY ProcessesDiffer DEF IInv, HandoffTypeOK, LockOK, ScriptOK, Admitted, NoScript, Alive,
     Publish, Go
<1>3. NoJournal'
  BY ProcessesDiffer DEF IInv, HandoffTypeOK, LockOK, NoJournal, ScriptOK, Admitted, Alive,
     Publish, Go
<1>4. ScriptOK'
  BY ProcessesDiffer DEF IInv, HandoffTypeOK, LockOK, ScriptOK, Admitted, NoScript,
     ScriptBusy, Alive, Publish, Go
<1>5. RecoverableJournal'
  BY ProcessesDiffer DEF IInv, HandoffTypeOK, LockOK, NoJournal, ScriptOK, Admitted,
     RecoverableJournal, ScriptBusy, NoScript, Publish, Go
<1> QED BY <1>1, <1>2, <1>3, <1>4, <1>5 DEF IInv

LEMMA SpawnInv == ASSUME IInv, NEW r \in Requests, Spawn(r) PROVE IInv'
<1> USE Processes
<1>1. HandoffTypeOK'
  BY ProcessesDiffer DEF IInv, HandoffTypeOK, LockOK, ScriptOK, Pointers, Statuses, Subjects,
     NoScript, NoPointer, Alive, Admitted, Spawn, Files
<1>2. LockOK'
  BY ProcessesDiffer DEF IInv, HandoffTypeOK, LockOK, ScriptOK, Admitted, NoScript, Alive,
     Spawn, Files
<1>3. NoJournal'
  BY ProcessesDiffer DEF IInv, HandoffTypeOK, LockOK, NoJournal, ScriptOK, Admitted, Alive,
     Spawn, Files
<1>4. ScriptOK'
  BY ProcessesDiffer DEF IInv, HandoffTypeOK, LockOK, ScriptOK, Admitted, NoScript,
     ScriptBusy, Alive, Spawn, Files
<1>5. RecoverableJournal'
  BY ProcessesDiffer DEF IInv, HandoffTypeOK, LockOK, NoJournal, ScriptOK, Admitted,
     RecoverableJournal, ScriptBusy, NoScript, Spawn, Files
<1> QED BY <1>1, <1>2, <1>3, <1>4, <1>5 DEF IInv

LEMMA SpawnFailsInv == ASSUME IInv, NEW r \in Requests, SpawnFails(r) PROVE IInv'
<1> USE Processes
<1>1. HandoffTypeOK'
  BY ProcessesDiffer DEF IInv, HandoffTypeOK, LockOK, ScriptOK, Pointers, Statuses, Subjects,
     NoScript, NoPointer, Alive, Admitted, SpawnFails, Go, RestoreOwnedPointer
<1>2. LockOK'
  BY ProcessesDiffer DEF IInv, HandoffTypeOK, LockOK, ScriptOK, Admitted, NoScript, Alive,
     SpawnFails, Go, RestoreOwnedPointer
<1>3. NoJournal'
  BY ProcessesDiffer DEF IInv, HandoffTypeOK, LockOK, NoJournal, ScriptOK, Admitted, Alive,
     SpawnFails, Go, RestoreOwnedPointer
<1>4. ScriptOK'
  BY ProcessesDiffer DEF IInv, HandoffTypeOK, LockOK, ScriptOK, Admitted, NoScript,
     ScriptBusy, Alive, SpawnFails, Go, RestoreOwnedPointer
<1>5. RecoverableJournal'
  BY ProcessesDiffer DEF IInv, HandoffTypeOK, LockOK, NoJournal, ScriptOK, Admitted,
     RecoverableJournal, ScriptBusy, NoScript, SpawnFails, Go, RestoreOwnedPointer
<1> QED BY <1>1, <1>2, <1>3, <1>4, <1>5 DEF IInv

LEMMA NameWorkerInv == ASSUME IInv, NEW r \in Requests, NameWorker(r) PROVE IInv'
<1> USE Processes
<1>1. HandoffTypeOK'
  <2>1. pointer' \in Pointers
    <3>1. pointer' = [req |-> r, named |-> TRUE] \/ pointer' = pointer
      BY Zenon DEF NameWorker
    <3>2. CASE pointer' = [req |-> r, named |-> TRUE]
      BY <3>2 DEF Pointers
    <3>3. CASE pointer' = pointer
      BY <3>3 DEF IInv, HandoffTypeOK
    <3> QED BY <3>1, <3>2, <3>3
  <2>2. step' = [step EXCEPT ![Launcher(r)] = "leave"]
    BY DEF NameWorker, Go
  <2> QED BY <2>1, <2>2 DEF IInv, HandoffTypeOK, NameWorker, Alive
<1>2. LockOK'
  BY ProcessesDiffer DEF IInv, HandoffTypeOK, LockOK, ScriptOK, Admitted, NoScript, Alive,
     NameWorker, Go, Alive
<1>3. NoJournal'
  BY ProcessesDiffer DEF IInv, HandoffTypeOK, LockOK, NoJournal, ScriptOK, Admitted, Alive,
     NameWorker, Go, Alive
<1>4. ScriptOK'
  BY ProcessesDiffer DEF IInv, HandoffTypeOK, LockOK, ScriptOK, Admitted, NoScript,
     ScriptBusy, Alive, NameWorker, Go, Alive
<1>5. RecoverableJournal'
  BY ProcessesDiffer DEF IInv, HandoffTypeOK, LockOK, NoJournal, ScriptOK, Admitted,
     RecoverableJournal, ScriptBusy, NoScript, NameWorker, Go, Alive
<1> QED BY <1>1, <1>2, <1>3, <1>4, <1>5 DEF IInv

LEMMA ScriptBeginsInv ==
    ASSUME IInv, ScriptBegins,
           UNCHANGED <<handoffLock, pointer, previous, helper, result, authority, kills>>
    PROVE  IInv'
<1> USE Processes
<1>1. HandoffTypeOK'
  BY ProcessesDiffer DEF IInv, HandoffTypeOK, LockOK, ScriptOK, Pointers, Statuses, Subjects,
     NoScript, NoPointer, Alive, Admitted, ScriptBegins
<1>2. LockOK'
  BY ProcessesDiffer DEF IInv, HandoffTypeOK, LockOK, ScriptOK, Admitted, NoScript, Alive,
     ScriptBegins
<1>3. NoJournal'
  <2>1. script.by \in Procs /\ handoffLock = script.by /\ step[script.by] = "running"
    BY DEF IInv, LockOK, ScriptOK, ScriptBegins, ScriptBusy, NoScript
  <2>2. \A r \in Requests : step[Launcher(r)] \notin Admitted
    BY <2>1 DEF IInv, LockOK, Admitted
  <2> QED BY <2>2 DEF NoJournal, ScriptBegins
<1>4. ScriptOK'
  BY ProcessesDiffer DEF IInv, HandoffTypeOK, LockOK, ScriptOK, Admitted, NoScript,
     ScriptBusy, Alive, ScriptBegins
<1>5. RecoverableJournal'
  BY ProcessesDiffer DEF IInv, HandoffTypeOK, LockOK, NoJournal, ScriptOK, Admitted,
     RecoverableJournal, ScriptBusy, NoScript, ScriptBegins
<1> QED BY <1>1, <1>2, <1>3, <1>4, <1>5 DEF IInv

LEMMA ScriptRecoversInv ==
    ASSUME IInv, ScriptRecovers,
           UNCHANGED <<handoffLock, pointer, previous, helper, result, authority, kills>>
    PROVE  IInv'
<1> USE Processes
<1>1. HandoffTypeOK'
  <2>1. /\ effect' \in [Subjects -> {"none", "begun", "applied", "undone"}]
        /\ installed' \in BOOLEAN /\ journal' = Nil
    BY DEF IInv, HandoffTypeOK, ScriptRecovers, Settle
  <2>2. script' \in [req : Subjects \cup {Nil}, recover : BOOLEAN, by : Procs \cup {Nil},
                     phase : {"none", "begin", "journaled"}]
    <3>1. script' = NoScript \/ script' = script
      BY Zenon DEF ScriptRecovers, Ended
    <3>2. CASE script' = NoScript
      BY <3>2 DEF NoScript
    <3>3. CASE script' = script
      BY <3>3 DEF IInv, HandoffTypeOK
    <3> QED BY <3>1, <3>2, <3>3
  <2>3. \/ UNCHANGED <<step, answer>>
        \/ /\ script.by \in Procs
           /\ step' = [step EXCEPT ![script.by] = "returned"]
           /\ answer' = [answer EXCEPT ![script.by] = "complete"]
    BY DEF IInv, HandoffTypeOK, ScriptRecovers, Ended, Go
  <2> QED BY <2>1, <2>2, <2>3 DEF IInv, HandoffTypeOK, Statuses, Alive
<1>2. LockOK'
  BY ProcessesDiffer DEF IInv, HandoffTypeOK, LockOK, ScriptOK, Admitted, NoScript, Alive,
     ScriptRecovers, Ended, Settle, Go
<1>3. NoJournal'
  BY ProcessesDiffer DEF IInv, HandoffTypeOK, LockOK, NoJournal, ScriptOK, Admitted, Alive,
     ScriptRecovers, Ended, Settle, Go
<1>4. ScriptOK'
  BY ProcessesDiffer DEF IInv, HandoffTypeOK, LockOK, ScriptOK, Admitted, NoScript,
     ScriptBusy, Alive, ScriptRecovers, Ended, Settle, Go
<1>5. RecoverableJournal'
  BY ProcessesDiffer DEF IInv, HandoffTypeOK, LockOK, NoJournal, ScriptOK, Admitted,
     RecoverableJournal, ScriptBusy, NoScript, ScriptRecovers, Ended, Settle, Go
<1> QED BY <1>1, <1>2, <1>3, <1>4, <1>5 DEF IInv

LEMMA ScriptCompletesInv ==
    ASSUME IInv, ScriptCompletes,
           UNCHANGED <<handoffLock, pointer, previous, helper, result, authority, kills>>
    PROVE  IInv'
<1> USE Processes
<1>1. HandoffTypeOK'
  <2>1. /\ effect' \in [Subjects -> {"none", "begun", "applied", "undone"}]
        /\ installed' \in BOOLEAN /\ journal' = Nil
    BY DEF IInv, HandoffTypeOK, ScriptCompletes, Settle
  <2>2. /\ script' = NoScript
        /\ script' \in [req : Subjects \cup {Nil}, recover : BOOLEAN, by : Procs \cup {Nil},
                                       phase : {"none", "begin", "journaled"}]
    BY DEF ScriptCompletes, Ended, NoScript
  <2>3. \/ UNCHANGED <<step, answer>>
        \/ /\ script.by \in Procs
           /\ step' = [step EXCEPT ![script.by] = "returned"]
           /\ answer' = [answer EXCEPT ![script.by] = "complete"]
    BY DEF IInv, HandoffTypeOK, ScriptCompletes, Ended, Go
  <2> QED BY <2>1, <2>2, <2>3 DEF IInv, HandoffTypeOK, Statuses, Alive
<1>2. LockOK'
  BY ProcessesDiffer DEF IInv, HandoffTypeOK, LockOK, ScriptOK, Admitted, NoScript, Alive,
     ScriptCompletes, Ended, Settle, Go
<1>3. NoJournal'
  BY ProcessesDiffer DEF IInv, HandoffTypeOK, LockOK, NoJournal, ScriptOK, Admitted, Alive,
     ScriptCompletes, Ended, Settle, Go
<1>4. ScriptOK'
  BY ProcessesDiffer DEF IInv, HandoffTypeOK, LockOK, ScriptOK, Admitted, NoScript,
     ScriptBusy, Alive, ScriptCompletes, Ended, Settle, Go
<1>5. RecoverableJournal'
  BY ProcessesDiffer DEF IInv, HandoffTypeOK, LockOK, NoJournal, ScriptOK, Admitted,
     RecoverableJournal, ScriptBusy, NoScript, ScriptCompletes, Ended, Settle, Go
<1> QED BY <1>1, <1>2, <1>3, <1>4, <1>5 DEF IInv

LEMMA ScriptUndoesInv ==
    ASSUME IInv, ScriptUndoes,
           UNCHANGED <<handoffLock, pointer, previous, helper, result, authority, kills>>
    PROVE  IInv'
<1> USE Processes
<1>1. HandoffTypeOK'
  <2>1. /\ effect' \in [Subjects -> {"none", "begun", "applied", "undone"}]
        /\ installed' \in BOOLEAN /\ journal' = Nil
    BY DEF IInv, HandoffTypeOK, ScriptUndoes, Settle
  <2>2. /\ script' = NoScript
        /\ script' \in [req : Subjects \cup {Nil}, recover : BOOLEAN, by : Procs \cup {Nil},
                                       phase : {"none", "begin", "journaled"}]
    BY DEF ScriptUndoes, Ended, NoScript
  <2>3. \/ UNCHANGED <<step, answer>>
        \/ /\ script.by \in Procs
           /\ step' = [step EXCEPT ![script.by] = "returned"]
           /\ answer' = [answer EXCEPT ![script.by] = "refused"]
    BY DEF IInv, HandoffTypeOK, ScriptUndoes, Ended, Go
  <2> QED BY <2>1, <2>2, <2>3 DEF IInv, HandoffTypeOK, Statuses, Alive
<1>2. LockOK'
  BY ProcessesDiffer DEF IInv, HandoffTypeOK, LockOK, ScriptOK, Admitted, NoScript, Alive,
     ScriptUndoes, Ended, Settle, Go
<1>3. NoJournal'
  BY ProcessesDiffer DEF IInv, HandoffTypeOK, LockOK, NoJournal, ScriptOK, Admitted, Alive,
     ScriptUndoes, Ended, Settle, Go
<1>4. ScriptOK'
  BY ProcessesDiffer DEF IInv, HandoffTypeOK, LockOK, ScriptOK, Admitted, NoScript,
     ScriptBusy, Alive, ScriptUndoes, Ended, Settle, Go
<1>5. RecoverableJournal'
  BY ProcessesDiffer DEF IInv, HandoffTypeOK, LockOK, NoJournal, ScriptOK, Admitted,
     RecoverableJournal, ScriptBusy, NoScript, ScriptUndoes, Ended, Settle, Go
<1> QED BY <1>1, <1>2, <1>3, <1>4, <1>5 DEF IInv

LEMMA ScriptFailsInv ==
    ASSUME IInv, ScriptFails,
           UNCHANGED <<handoffLock, pointer, previous, helper, result, authority, kills>>
    PROVE  IInv'
<1> USE Processes
<1>1. HandoffTypeOK'
  BY ProcessesDiffer DEF IInv, HandoffTypeOK, LockOK, ScriptOK, Pointers, Statuses, Subjects,
     NoScript, NoPointer, Alive, Admitted, ScriptFails, Ended, ScriptBusy, Go
<1>2. LockOK'
  BY ProcessesDiffer DEF IInv, HandoffTypeOK, LockOK, ScriptOK, Admitted, NoScript, Alive,
     ScriptFails, Ended, ScriptBusy, Go
<1>3. NoJournal'
  BY ProcessesDiffer DEF IInv, HandoffTypeOK, LockOK, NoJournal, ScriptOK, Admitted, Alive,
     ScriptFails, Ended, ScriptBusy, Go
<1>4. ScriptOK'
  BY ProcessesDiffer DEF IInv, HandoffTypeOK, LockOK, ScriptOK, Admitted, NoScript,
     ScriptBusy, Alive, ScriptFails, Ended, ScriptBusy, Go
<1>5. RecoverableJournal'
  BY ProcessesDiffer DEF IInv, HandoffTypeOK, LockOK, NoJournal, ScriptOK, Admitted,
     RecoverableJournal, ScriptBusy, NoScript, ScriptFails, Ended, ScriptBusy, Go
<1> QED BY <1>1, <1>2, <1>3, <1>4, <1>5 DEF IInv

LEMMA WorkerReadsInv == ASSUME IInv, NEW r \in Requests, WorkerReads(r) PROVE IInv'
<1> USE Processes
<1>1. HandoffTypeOK'
  BY ProcessesDiffer DEF IInv, HandoffTypeOK, LockOK, ScriptOK, Pointers, Statuses, Subjects,
     NoScript, NoPointer, Alive, Admitted, WorkerReads, Go, Files, Settled
<1>2. LockOK'
  BY ProcessesDiffer DEF IInv, HandoffTypeOK, LockOK, ScriptOK, Admitted, NoScript, Alive,
     WorkerReads, Go, Files, Settled
<1>3. NoJournal'
  BY ProcessesDiffer DEF IInv, HandoffTypeOK, LockOK, NoJournal, ScriptOK, Admitted, Alive,
     WorkerReads, Go, Files, Settled
<1>4. ScriptOK'
  BY ProcessesDiffer DEF IInv, HandoffTypeOK, LockOK, ScriptOK, Admitted, NoScript,
     ScriptBusy, Alive, WorkerReads, Go, Files, Settled
<1>5. RecoverableJournal'
  BY ProcessesDiffer DEF IInv, HandoffTypeOK, LockOK, NoJournal, ScriptOK, Admitted,
     RecoverableJournal, ScriptBusy, NoScript, WorkerReads, Go, Files, Settled
<1> QED BY <1>1, <1>2, <1>3, <1>4, <1>5 DEF IInv

LEMMA WorkerTimesOutInv == ASSUME IInv, NEW r \in Requests, WorkerTimesOut(r) PROVE IInv'
<1> USE Processes
<1>1. HandoffTypeOK'
  BY ProcessesDiffer DEF IInv, HandoffTypeOK, LockOK, ScriptOK, Pointers, Statuses, Subjects,
     NoScript, NoPointer, Alive, Admitted, WorkerTimesOut, Conclude, Files, Alive, Go
<1>2. LockOK'
  BY ProcessesDiffer DEF IInv, HandoffTypeOK, LockOK, ScriptOK, Admitted, NoScript, Alive,
     WorkerTimesOut, Conclude, Files, Alive, Go
<1>3. NoJournal'
  BY ProcessesDiffer DEF IInv, HandoffTypeOK, LockOK, NoJournal, ScriptOK, Admitted, Alive,
     WorkerTimesOut, Conclude, Files, Alive, Go
<1>4. ScriptOK'
  BY ProcessesDiffer DEF IInv, HandoffTypeOK, LockOK, ScriptOK, Admitted, NoScript,
     ScriptBusy, Alive, WorkerTimesOut, Conclude, Files, Alive, Go
<1>5. RecoverableJournal'
  BY ProcessesDiffer DEF IInv, HandoffTypeOK, LockOK, NoJournal, ScriptOK, Admitted,
     RecoverableJournal, ScriptBusy, NoScript, WorkerTimesOut, Conclude, Files, Alive, Go
<1> QED BY <1>1, <1>2, <1>3, <1>4, <1>5 DEF IInv

LEMMA WorkerActivatesInv == ASSUME IInv, NEW r \in Requests, WorkerActivates(r) PROVE IInv'
<1> USE Processes
<1>1. HandoffTypeOK'
  <2>1. script' \in [req : Subjects \cup {Nil}, recover : BOOLEAN, by : Procs \cup {Nil},
                     phase : {"none", "begin", "journaled"}]
    <3>1. script' = [req |-> r, recover |-> FALSE, by |-> Worker(r), phase |-> "begin"] \/ script' = script
      BY DEF WorkerActivates, StartScript
    <3>2. r \in Subjects \cup {Nil}
      BY DEF IInv, HandoffTypeOK, Subjects, Pointers
    <3>3. CASE script' = [req |-> r, recover |-> FALSE, by |-> Worker(r), phase |-> "begin"]
      BY <3>2, <3>3
    <3>4. CASE script' = script
      BY <3>4 DEF IInv, HandoffTypeOK
    <3> QED BY <3>1, <3>3, <3>4
  <2>2. CASE Authorised(r) /\ ~ScriptBusy
    <3>1. /\ handoffLock' = Worker(r) /\ step' = [step EXCEPT ![Worker(r)] = "running"]
          /\ UNCHANGED answer
      BY <2>2 DEF WorkerActivates, Go
    <3> QED BY <2>1, <3>1 DEF IInv, HandoffTypeOK, WorkerActivates, Alive
  <2>3. CASE ~(Authorised(r) /\ ~ScriptBusy)
    <3>1. /\ handoffLock' \in {handoffLock, Nil} /\ step' = [step EXCEPT ![Worker(r)] = "finish"]
          /\ answer' = [answer EXCEPT ![Worker(r)] = "refused"]
      BY <2>3 DEF WorkerActivates, Conclude, Go
    <3> QED BY <2>1, <3>1 DEF IInv, HandoffTypeOK, WorkerActivates, Alive, Statuses
  <2> QED BY <2>2, <2>3
<1>2. LockOK'
  BY ProcessesDiffer DEF IInv, HandoffTypeOK, LockOK, ScriptOK, Admitted, NoScript, Alive,
     WorkerActivates, Go, Conclude, StartScript, Alive, ScriptBusy, Authorised
<1>3. NoJournal'
  BY ProcessesDiffer DEF IInv, HandoffTypeOK, LockOK, NoJournal, ScriptOK, Admitted, Alive,
     WorkerActivates, Go, Conclude, StartScript, Alive, ScriptBusy, Authorised
<1>4. ScriptOK'
  BY ProcessesDiffer DEF IInv, HandoffTypeOK, LockOK, ScriptOK, Admitted, NoScript,
     ScriptBusy, Alive, WorkerActivates, Go, Conclude, StartScript, Alive, ScriptBusy,
     Authorised
<1>5. RecoverableJournal'
  BY ProcessesDiffer DEF IInv, HandoffTypeOK, LockOK, NoJournal, ScriptOK, Admitted,
     RecoverableJournal, ScriptBusy, NoScript, WorkerActivates, Go, Conclude, StartScript,
     Alive, ScriptBusy, Authorised
<1> QED BY <1>1, <1>2, <1>3, <1>4, <1>5 DEF IInv

LEMMA WorkerReturnsInv == ASSUME IInv, NEW r \in Requests, WorkerReturns(r) PROVE IInv'
<1> USE Processes
<1>1. HandoffTypeOK'
  BY ProcessesDiffer DEF IInv, HandoffTypeOK, LockOK, ScriptOK, Pointers, Statuses, Subjects,
     NoScript, NoPointer, Alive, Admitted, WorkerReturns, Conclude, Files, Go
<1>2. LockOK'
  BY ProcessesDiffer DEF IInv, HandoffTypeOK, LockOK, ScriptOK, Admitted, NoScript, Alive,
     WorkerReturns, Conclude, Files, Go
<1>3. NoJournal'
  BY ProcessesDiffer DEF IInv, HandoffTypeOK, LockOK, NoJournal, ScriptOK, Admitted, Alive,
     WorkerReturns, Conclude, Files, Go
<1>4. ScriptOK'
  BY ProcessesDiffer DEF IInv, HandoffTypeOK, LockOK, ScriptOK, Admitted, NoScript,
     ScriptBusy, Alive, WorkerReturns, Conclude, Files, Go
<1>5. RecoverableJournal'
  BY ProcessesDiffer DEF IInv, HandoffTypeOK, LockOK, NoJournal, ScriptOK, Admitted,
     RecoverableJournal, ScriptBusy, NoScript, WorkerReturns, Conclude, Files, Go
<1> QED BY <1>1, <1>2, <1>3, <1>4, <1>5 DEF IInv

LEMMA CallRecoveryInv == ASSUME IInv, NEW k \in Recoveries, CallRecovery(k) PROVE IInv'
<1> USE Processes
<1>1. HandoffTypeOK'
  <2>1. CASE /\ Recoverable /\ handoffLock' = Caller(k) /\ UNCHANGED answer
             /\ authority' = [authority EXCEPT ![k] = pointer]
             /\ step' = [step EXCEPT ![Caller(k)] = "leave", ![Receiver(k)] = "start"]
    BY <2>1, ProcessesDiffer DEF IInv, HandoffTypeOK, CallRecovery, Alive
  <2>2. CASE Conclude(Caller(k), "refused", FALSE) /\ UNCHANGED authority
    <3>1. /\ handoffLock' \in {handoffLock, Nil} /\ step' = [step EXCEPT ![Caller(k)] = "finish"]
          /\ answer' = [answer EXCEPT ![Caller(k)] = "refused"]
      BY <2>2 DEF Conclude, Go
    <3> QED BY <2>2, <3>1 DEF IInv, HandoffTypeOK, CallRecovery, Alive, Statuses
  <2> QED BY <2>1, <2>2 DEF CallRecovery
<1>2. LockOK'
  BY ProcessesDiffer DEF IInv, HandoffTypeOK, LockOK, ScriptOK, Admitted, NoScript, Alive,
     CallRecovery, Conclude, Recoverable, Go
<1>3. NoJournal'
  BY ProcessesDiffer DEF IInv, HandoffTypeOK, LockOK, NoJournal, ScriptOK, Admitted, Alive,
     CallRecovery, Conclude, Recoverable, Go
<1>4. ScriptOK'
  BY ProcessesDiffer DEF IInv, HandoffTypeOK, LockOK, ScriptOK, Admitted, NoScript,
     ScriptBusy, Alive, CallRecovery, Conclude, Recoverable, Go
<1>5. RecoverableJournal'
  BY ProcessesDiffer DEF IInv, HandoffTypeOK, LockOK, NoJournal, ScriptOK, Admitted,
     RecoverableJournal, ScriptBusy, NoScript, CallRecovery, Conclude, Recoverable, Go
<1> QED BY <1>1, <1>2, <1>3, <1>4, <1>5 DEF IInv

LEMMA ReceiverReadsInv == ASSUME IInv, NEW k \in Recoveries, ReceiverReads(k) PROVE IInv'
<1> USE Processes
<1>1. HandoffTypeOK'
  <2>1. CASE /\ authority' = [authority EXCEPT ![k] = pointer]
             /\ Go(Receiver(k), "wait") /\ UNCHANGED <<handoffLock, answer>>
    BY <2>1 DEF IInv, HandoffTypeOK, ReceiverReads, Go, Alive
  <2>2. CASE Conclude(Receiver(k), "refused", FALSE) /\ UNCHANGED authority
    <3>1. /\ handoffLock' \in {handoffLock, Nil} /\ step' = [step EXCEPT ![Receiver(k)] = "finish"]
          /\ answer' = [answer EXCEPT ![Receiver(k)] = "refused"]
      BY <2>2 DEF Conclude, Go
    <3> QED BY <2>2, <3>1 DEF IInv, HandoffTypeOK, ReceiverReads, Alive, Statuses
  <2> QED BY <2>1, <2>2 DEF ReceiverReads
<1>2. LockOK'
  BY ProcessesDiffer DEF IInv, HandoffTypeOK, LockOK, ScriptOK, Admitted, NoScript, Alive,
     ReceiverReads, Go, Conclude
<1>3. NoJournal'
  BY ProcessesDiffer DEF IInv, HandoffTypeOK, LockOK, NoJournal, ScriptOK, Admitted, Alive,
     ReceiverReads, Go, Conclude
<1>4. ScriptOK'
  BY ProcessesDiffer DEF IInv, HandoffTypeOK, LockOK, ScriptOK, Admitted, NoScript,
     ScriptBusy, Alive, ReceiverReads, Go, Conclude
<1>5. RecoverableJournal'
  BY ProcessesDiffer DEF IInv, HandoffTypeOK, LockOK, NoJournal, ScriptOK, Admitted,
     RecoverableJournal, ScriptBusy, NoScript, ReceiverReads, Go, Conclude
<1> QED BY <1>1, <1>2, <1>3, <1>4, <1>5 DEF IInv

LEMMA ReceiverTimesOutInv == ASSUME IInv, NEW k \in Recoveries, ReceiverTimesOut(k) PROVE IInv'
<1> USE Processes
<1>1. HandoffTypeOK'
  BY ProcessesDiffer DEF IInv, HandoffTypeOK, LockOK, ScriptOK, Pointers, Statuses, Subjects,
     NoScript, NoPointer, Alive, Admitted, ReceiverTimesOut, Conclude, Files, Alive, Go
<1>2. LockOK'
  BY ProcessesDiffer DEF IInv, HandoffTypeOK, LockOK, ScriptOK, Admitted, NoScript, Alive,
     ReceiverTimesOut, Conclude, Files, Alive, Go
<1>3. NoJournal'
  BY ProcessesDiffer DEF IInv, HandoffTypeOK, LockOK, NoJournal, ScriptOK, Admitted, Alive,
     ReceiverTimesOut, Conclude, Files, Alive, Go
<1>4. ScriptOK'
  BY ProcessesDiffer DEF IInv, HandoffTypeOK, LockOK, ScriptOK, Admitted, NoScript,
     ScriptBusy, Alive, ReceiverTimesOut, Conclude, Files, Alive, Go
<1>5. RecoverableJournal'
  BY ProcessesDiffer DEF IInv, HandoffTypeOK, LockOK, NoJournal, ScriptOK, Admitted,
     RecoverableJournal, ScriptBusy, NoScript, ReceiverTimesOut, Conclude, Files, Alive, Go
<1> QED BY <1>1, <1>2, <1>3, <1>4, <1>5 DEF IInv

LEMMA ReceiverActsInv == ASSUME IInv, NEW k \in Recoveries, ReceiverActs(k) PROVE IInv'
<1> USE Processes
<1>1. HandoffTypeOK'
  <2>1. script' \in [req : Subjects \cup {Nil}, recover : BOOLEAN, by : Procs \cup {Nil},
                     phase : {"none", "begin", "journaled"}]
    <3>1. script' = [req |-> pointer.req, recover |-> TRUE, by |-> Receiver(k), phase |-> "begin"] \/ script' = script
      BY DEF ReceiverActs, StartScript
    <3>2. pointer.req \in Subjects \cup {Nil}
      BY DEF IInv, HandoffTypeOK, Subjects, Pointers
    <3>3. CASE script' = [req |-> pointer.req, recover |-> TRUE, by |-> Receiver(k), phase |-> "begin"]
      BY <3>2, <3>3
    <3>4. CASE script' = script
      BY <3>4 DEF IInv, HandoffTypeOK
    <3> QED BY <3>1, <3>3, <3>4
  <2>2. CASE StillAuthorised(k) /\ ~ScriptBusy
    <3>1. /\ handoffLock' = Receiver(k) /\ step' = [step EXCEPT ![Receiver(k)] = "running"]
          /\ UNCHANGED answer
      BY <2>2 DEF ReceiverActs, Go
    <3> QED BY <2>1, <3>1 DEF IInv, HandoffTypeOK, ReceiverActs, Alive
  <2>3. CASE ~(StillAuthorised(k) /\ ~ScriptBusy)
    <3>1. /\ handoffLock' \in {handoffLock, Nil} /\ step' = [step EXCEPT ![Receiver(k)] = "finish"]
          /\ answer' = [answer EXCEPT ![Receiver(k)] = "refused"]
      BY <2>3 DEF ReceiverActs, Conclude, Go
    <3> QED BY <2>1, <3>1 DEF IInv, HandoffTypeOK, ReceiverActs, Alive, Statuses
  <2> QED BY <2>2, <2>3
<1>2. LockOK'
  BY ProcessesDiffer DEF IInv, HandoffTypeOK, LockOK, ScriptOK, Admitted, NoScript, Alive,
     ReceiverActs, Go, Conclude, StartScript, Alive, ScriptBusy, StillAuthorised
<1>3. NoJournal'
  BY ProcessesDiffer DEF IInv, HandoffTypeOK, LockOK, NoJournal, ScriptOK, Admitted, Alive,
     ReceiverActs, Go, Conclude, StartScript, Alive, ScriptBusy, StillAuthorised
<1>4. ScriptOK'
  BY ProcessesDiffer DEF IInv, HandoffTypeOK, LockOK, ScriptOK, Admitted, NoScript,
     ScriptBusy, Alive, ReceiverActs, Go, Conclude, StartScript, Alive, ScriptBusy,
     StillAuthorised
<1>5. RecoverableJournal'
  BY ProcessesDiffer DEF IInv, HandoffTypeOK, LockOK, NoJournal, ScriptOK, Admitted,
     RecoverableJournal, ScriptBusy, NoScript, ReceiverActs, Go, Conclude, StartScript, Alive,
     ScriptBusy, StillAuthorised
<1> QED BY <1>1, <1>2, <1>3, <1>4, <1>5 DEF IInv

LEMMA ReceiverReturnsInv == ASSUME IInv, NEW k \in Recoveries, ReceiverReturns(k) PROVE IInv'
<1> USE Processes
<1>1. HandoffTypeOK'
  BY ProcessesDiffer DEF IInv, HandoffTypeOK, LockOK, ScriptOK, Pointers, Statuses, Subjects,
     NoScript, NoPointer, Alive, Admitted, ReceiverReturns, Conclude, Files, Go
<1>2. LockOK'
  BY ProcessesDiffer DEF IInv, HandoffTypeOK, LockOK, ScriptOK, Admitted, NoScript, Alive,
     ReceiverReturns, Conclude, Files, Go
<1>3. NoJournal'
  BY ProcessesDiffer DEF IInv, HandoffTypeOK, LockOK, NoJournal, ScriptOK, Admitted, Alive,
     ReceiverReturns, Conclude, Files, Go
<1>4. ScriptOK'
  BY ProcessesDiffer DEF IInv, HandoffTypeOK, LockOK, ScriptOK, Admitted, NoScript,
     ScriptBusy, Alive, ReceiverReturns, Conclude, Files, Go
<1>5. RecoverableJournal'
  BY ProcessesDiffer DEF IInv, HandoffTypeOK, LockOK, NoJournal, ScriptOK, Admitted,
     RecoverableJournal, ScriptBusy, NoScript, ReceiverReturns, Conclude, Files, Go
<1> QED BY <1>1, <1>2, <1>3, <1>4, <1>5 DEF IInv

LEMMA InstallInv == ASSUME IInv, Install PROVE IInv'
<1> USE Processes
<1>1. HandoffTypeOK'
  BY ProcessesDiffer DEF IInv, HandoffTypeOK, LockOK, ScriptOK, Pointers, Statuses, Subjects,
     NoScript, NoPointer, Alive, Admitted, Install, Go, StartScript, ScriptBusy
<1>2. LockOK'
  BY ProcessesDiffer DEF IInv, HandoffTypeOK, LockOK, ScriptOK, Admitted, NoScript, Alive,
     Install, Go, StartScript, ScriptBusy
<1>3. NoJournal'
  BY ProcessesDiffer DEF IInv, HandoffTypeOK, LockOK, NoJournal, ScriptOK, Admitted, Alive,
     Install, Go, StartScript, ScriptBusy
<1>4. ScriptOK'
  BY ProcessesDiffer DEF IInv, HandoffTypeOK, LockOK, ScriptOK, Admitted, NoScript,
     ScriptBusy, Alive, Install, Go, StartScript, ScriptBusy
<1>5. RecoverableJournal'
  BY ProcessesDiffer DEF IInv, HandoffTypeOK, LockOK, NoJournal, ScriptOK, Admitted,
     RecoverableJournal, ScriptBusy, NoScript, Install, Go, StartScript, ScriptBusy
<1> QED BY <1>1, <1>2, <1>3, <1>4, <1>5 DEF IInv

LEMMA InstallReturnsInv == ASSUME IInv, InstallReturns PROVE IInv'
<1> USE Processes
<1>1. HandoffTypeOK'
  BY ProcessesDiffer DEF IInv, HandoffTypeOK, LockOK, ScriptOK, Pointers, Statuses, Subjects,
     NoScript, NoPointer, Alive, Admitted, InstallReturns, Go, Files
<1>2. LockOK'
  BY ProcessesDiffer DEF IInv, HandoffTypeOK, LockOK, ScriptOK, Admitted, NoScript, Alive,
     InstallReturns, Go, Files
<1>3. NoJournal'
  BY ProcessesDiffer DEF IInv, HandoffTypeOK, LockOK, NoJournal, ScriptOK, Admitted, Alive,
     InstallReturns, Go, Files
<1>4. ScriptOK'
  BY ProcessesDiffer DEF IInv, HandoffTypeOK, LockOK, ScriptOK, Admitted, NoScript,
     ScriptBusy, Alive, InstallReturns, Go, Files
<1>5. RecoverableJournal'
  BY ProcessesDiffer DEF IInv, HandoffTypeOK, LockOK, NoJournal, ScriptOK, Admitted,
     RecoverableJournal, ScriptBusy, NoScript, InstallReturns, Go, Files
<1> QED BY <1>1, <1>2, <1>3, <1>4, <1>5 DEF IInv

LEMMA KillProcessInv ==
    ASSUME IInv, NEW p \in Procs, KillProcess(p), "orphan" \notin HandoffFaults
    PROVE  IInv'
<1> USE Processes
<1>1. HandoffTypeOK'
  BY ProcessesDiffer DEF IInv, HandoffTypeOK, LockOK, ScriptOK, Pointers, Statuses, Subjects,
     NoScript, NoPointer, Alive, Admitted, KillProcess, Go, Alive
<1>2. LockOK'
  BY ProcessesDiffer DEF IInv, HandoffTypeOK, LockOK, ScriptOK, Admitted, NoScript, Alive,
     KillProcess, Go, Alive
<1>3. NoJournal'
  BY ProcessesDiffer DEF IInv, HandoffTypeOK, LockOK, NoJournal, ScriptOK, Admitted, Alive,
     KillProcess, Go, Alive
<1>4. ScriptOK'
  <2>1. \A o \in Procs \ {p} : step'[o] = step[o]
    BY DEF IInv, HandoffTypeOK, KillProcess, Go
  <2>2. script' = NoScript \/ (script.by # p /\ script' = script)
    BY DEF KillProcess
  <2> QED BY <2>1, <2>2 DEF IInv, ScriptOK, ScriptBusy, KillProcess
<1>5. RecoverableJournal'
  BY ProcessesDiffer DEF IInv, HandoffTypeOK, LockOK, NoJournal, ScriptOK, Admitted,
     RecoverableJournal, ScriptBusy, NoScript, KillProcess, Go, Alive
<1> QED BY <1>1, <1>2, <1>3, <1>4, <1>5 DEF IInv

LEMMA PowerLossInv == ASSUME IInv, PowerLoss PROVE IInv'
<1> USE Processes
<1>1. HandoffTypeOK'
  BY ProcessesDiffer DEF IInv, HandoffTypeOK, LockOK, ScriptOK, Pointers, Statuses, Subjects,
     NoScript, NoPointer, Alive, Admitted, PowerLoss, Alive
<1>2. LockOK'
  BY ProcessesDiffer DEF IInv, HandoffTypeOK, LockOK, ScriptOK, Admitted, NoScript, Alive,
     PowerLoss, Alive
<1>3. NoJournal'
  BY ProcessesDiffer DEF IInv, HandoffTypeOK, LockOK, NoJournal, ScriptOK, Admitted, Alive,
     PowerLoss, Alive
<1>4. ScriptOK'
  BY ProcessesDiffer DEF IInv, HandoffTypeOK, LockOK, ScriptOK, Admitted, NoScript,
     ScriptBusy, Alive, PowerLoss, Alive
<1>5. RecoverableJournal'
  BY ProcessesDiffer DEF IInv, HandoffTypeOK, LockOK, NoJournal, ScriptOK, Admitted,
     RecoverableJournal, ScriptBusy, NoScript, PowerLoss, Alive
<1> QED BY <1>1, <1>2, <1>3, <1>4, <1>5 DEF IInv

-----------------------------------------------------------------------------
(* The invariant, and what follows from it.                                *)

LEMMA NextInv ==
    ASSUME "orphan" \notin HandoffFaults, IInv, [HandoffNext]_handoffVars
    PROVE  IInv'
<1> USE Processes
<1>1. CASE UNCHANGED handoffVars
  BY <1>1 DEF IInv, HandoffTypeOK, LockOK, NoJournal, ScriptOK, RecoverableJournal,
     ScriptBusy, Alive, handoffVars
<1>2. CASE ScriptStep
  BY <1>2, ScriptBeginsInv, ScriptRecoversInv, ScriptCompletesInv, ScriptUndoesInv,
     ScriptFailsInv
  DEF ScriptStep
<1>3. ASSUME NEW r \in Requests, LauncherStep(r) PROVE IInv'
  <2>1. CASE Launch(r) \/ Admit(r) \/ Prepare(r) \/ Publish(r)
    BY <2>1, LaunchInv, AdmitInv, PrepareInv, PublishInv
  <2>2. CASE Spawn(r) \/ SpawnFails(r) \/ NameWorker(r)
    BY <2>2, SpawnInv, SpawnFailsInv, NameWorkerInv
  <2>3. CASE FinishResult(Launcher(r), pointer.req)
    BY <2>3, CheckResultInv, WriteResultInv, LeaveLockInv DEF FinishResult
  <2> QED BY <1>3, <2>1, <2>2, <2>3 DEF LauncherStep
<1>4. ASSUME NEW r \in Requests, WorkerStep(r) PROVE IInv'
  <2>1. CASE WorkerReads(r) \/ WorkerTimesOut(r) \/ WorkerActivates(r) \/ WorkerReturns(r)
    BY <2>1, WorkerReadsInv, WorkerTimesOutInv, WorkerActivatesInv, WorkerReturnsInv
  <2>2. CASE FinishResult(Worker(r), r)
    BY <2>2, CheckResultInv, WriteResultInv, LeaveLockInv DEF FinishResult
  <2> QED BY <1>4, <2>1, <2>2 DEF WorkerStep
<1>5. ASSUME NEW k \in Recoveries, RecoveryStep(k) PROVE IInv'
  <2>1. CASE CallRecovery(k) \/ ReceiverReads(k) \/ ReceiverTimesOut(k) \/ ReceiverActs(k) \/ ReceiverReturns(k)
    BY <2>1, CallRecoveryInv, ReceiverReadsInv, ReceiverTimesOutInv, ReceiverActsInv,
       ReceiverReturnsInv
  <2>2. CASE FinishResult(Caller(k), k) \/ FinishResult(Receiver(k), k)
    BY <2>2, CheckResultInv, WriteResultInv, LeaveLockInv DEF FinishResult
  <2> QED BY <1>5, <2>1, <2>2 DEF RecoveryStep
<1>6. CASE InstallerStep
  BY <1>6, InstallInv, InstallReturnsInv, LeaveLockInv DEF InstallerStep
<1>7. CASE (\E p \in Procs : KillProcess(p)) \/ PowerLoss
  BY <1>7, KillProcessInv, PowerLossInv
<1> QED BY <1>1, <1>2, <1>3, <1>4, <1>5, <1>6, <1>7 DEF HandoffNext, HandoffWork

\* The strengthened invariant holds in every state, however processes end.
THEOREM Inductive == ASSUME "orphan" \notin HandoffFaults PROVE HandoffSpec => []IInv
<1>1. IInv /\ [HandoffNext]_handoffVars => IInv'
  BY NextInv
<1> QED BY InitInv, <1>1, PTL DEF HandoffSpec

\* Every variable keeps its type, and the process whose handle owns the lock
\* is running (maintenance.py, _DestinationLock).
THEOREM TypeCorrect == ASSUME "orphan" \notin HandoffFaults PROVE HandoffSpec => []HandoffTypeOK
<1>1. IInv => HandoffTypeOK
  BY DEF IInv
<1> QED BY <1>1, Inductive, PTL

\* A journal left behind by a request is named by the pointer, and the helper
\* that can recover it still exists, whichever processes were killed, unless
\* the script outlives the process that waits for it.
THEOREM JournalsAreRecoverable ==
    ASSUME "orphan" \notin HandoffFaults PROVE HandoffSpec => []RecoverableJournal
<1>1. IInv => RecoverableJournal
  BY DEF IInv
<1> QED BY <1>1, Inductive, PTL

-----------------------------------------------------------------------------
(* That an answered request is not begun.                                   *)

(* What is on its way to a result file is an answer.                        *)
Answers == \A p \in Procs : step[p] \in {"returned", "finish", "write"} => answer[p] # "none"

(* A launcher that refuses the recorded request does so under the lock,     *)
(* and the worker the pointer names does not run any more.                  *)
Refusing ==
    \A r \in Requests : step[Launcher(r)] \in {"finish", "write"} =>
        /\ handoffLock = Launcher(r) /\ pointer.req \in Requests
        /\ pointer.named => ~Alive(Worker(pointer.req))

(* A worker that still waits for its launcher, and is or may yet be named,  *)
(* has not been answered.                                                   *)
WaitingUnanswered ==
    \A r \in Requests :
        step[Worker(r)] = "wait" /\ (pointer = [req |-> r, named |-> TRUE] \/ step[Launcher(r)] = "name")
        => ~Settled(r)

(* The pointer a launcher may put back names nobody who waits.              *)
PreviousAnswered ==
    \A q, r \in Requests :
        step[Launcher(q)] \in Admitted /\ previous = [req |-> r, named |-> TRUE] =>
            Settled(r) /\ step[Worker(r)] # "wait"

(* A journal is of what has begun; a script that has not is of a request    *)
(* without an answer, and its worker waits for it.                          *)
Begun ==
    /\ journal # Nil => effect[journal] # "none"
    /\ ScriptBusy => script.req \in Subjects
    /\ script.phase = "journaled" => effect[script.req] # "none"
ScriptUnanswered ==
    ScriptBusy /\ ~script.recover /\ script.req \in Requests =>
        /\ script.by = Worker(script.req)
        /\ effect[script.req] = "none" => ~Settled(script.req)

AInv == /\ Answers /\ Refusing /\ WaitingUnanswered
        /\ PreviousAnswered /\ Begun /\ ScriptUnanswered

LEMMA WorkersDiffer ==
    /\ \A r, q \in Requests : Worker(r) = Worker(q) => r = q
    /\ \A r \in Requests, k \in Recoveries :
         /\ Worker(r) # Caller(k) /\ Worker(r) # Receiver(k)
         /\ Launcher(r) # Caller(k) /\ Launcher(r) # Receiver(k)
    /\ \A r, q \in Requests : Launcher(r) # Worker(q) /\ (Launcher(r) = Launcher(q) => r = q)
    /\ \A r \in Requests : Worker(r) # Installer /\ Launcher(r) # Installer
    /\ \A r \in Requests : r \notin Recoveries /\ r # FirstInstall
BY MaintenanceAssumption DEF Launcher, Worker, Caller, Receiver, Installer

LEMMA InitAnswered == HandoffInit => AInv
<1> SUFFICES ASSUME HandoffInit PROVE AInv
  OBVIOUS
<1> USE Processes
<1> QED BY DEF HandoffInit, AInv, Answers, Refusing, WaitingUnanswered, PreviousAnswered, Begun,
               ScriptUnanswered, Admitted, ScriptBusy, NoScript

(* A process moves on and touches nothing the argument reads but its own   *)
(* step, answer and handle.                                                *)
Advances(p, s) ==
    /\ Go(p, s) /\ s # "name"
    /\ UNCHANGED <<journal, pointer, previous, result, script, effect>>
    /\ \A o \in Procs \ {p} : answer'[o] = answer[o] /\ (handoffLock = o => handoffLock' = o)
    /\ s \in {"returned", "finish", "write"} => answer'[p] # "none"
    /\ \A r \in Requests :
         /\ p = Launcher(r) /\ s \in {"finish", "write"} =>
              step[p] \in {"finish", "write"} /\ handoffLock' = handoffLock
         /\ p = Launcher(r) /\ s \in Admitted => step[p] \in Admitted
         /\ p = Worker(r) => Alive(p) /\ (s = "wait" => ~Settled(r))

LEMMA AdvanceAnswered ==
    ASSUME IInv, AInv, NEW p \in Procs, NEW s, Advances(p, s)
    PROVE  AInv'
<1> USE Processes
<1>1. /\ \A o \in Procs : step'[o] = IF o = p THEN s ELSE step[o]
      /\ \A r \in Requests : Settled(r)' = Settled(r)
  BY DEF IInv, HandoffTypeOK, Advances, Go, Settled
<1>2. Answers'
  BY <1>1 DEF AInv, Answers, Advances
<1>3. Refusing'
  BY <1>1, WorkersDiffer DEF AInv, Refusing, Advances, Alive
<1>4. WaitingUnanswered'
  BY <1>1, WorkersDiffer DEF AInv, WaitingUnanswered, Advances
<1>5. PreviousAnswered'
  BY <1>1, WorkersDiffer DEF AInv, PreviousAnswered, Advances
<1>6. Begun' /\ ScriptUnanswered'
  BY <1>1 DEF AInv, Begun, ScriptUnanswered, ScriptBusy, Advances
<1> QED BY <1>2, <1>3, <1>4, <1>5, <1>6 DEF AInv

-----------------------------------------------------------------------------
(* The results.                                                            *)

LEMMA CheckResultAnswered ==
    ASSUME IInv, AInv, NEW p \in Procs, NEW n, CheckResult(p, n)
    PROVE  AInv'
<1>1. \E s \in {"leave", "write"} : Advances(p, s)
  BY DEF IInv, HandoffTypeOK, AInv, Answers, CheckResult, Files, Advances, Alive, Admitted, Go
<1> QED BY <1>1, AdvanceAnswered

LEMMA LeaveLockAnswered == ASSUME IInv, AInv, NEW p \in Procs, LeaveLock(p) PROVE AInv'
<1>1. \E s \in {"off", "done"} : Advances(p, s)
  BY DEF IInv, HandoffTypeOK, LeaveLock, Files, Advances, Alive, Admitted, Go
<1> QED BY <1>1, AdvanceAnswered

(* Writing the answer of a launcher, a worker or a recovery: who writes for *)
(* a request is the launcher under the lock, or its own worker.             *)
LEMMA WriteResultAnswered ==
    ASSUME IInv, AInv, NEW p \in Procs, NEW n, WriteResult(p, n),
           \A r \in Requests : n = r =>
             p = Worker(r) \/ (pointer.req = r /\ \E q \in Requests : p = Launcher(q))
    PROVE  AInv'
<1> USE Processes
<1>1. /\ \A o \in Procs : step'[o] = IF o = p THEN "leave" ELSE step[o]
      /\ step[p] = "write" /\ answer[p] # "none"
      /\ UNCHANGED <<handoffLock, answer, journal, pointer, previous, script, effect>>
  BY DEF IInv, HandoffTypeOK, AInv, Answers, WriteResult, Go, Files
<1>2. \A r \in Requests : result'[r] = result[r] \/ (n = r /\ result'[r] = answer[p])
  BY DEF IInv, HandoffTypeOK, WriteResult
<1>3. \A r \in Requests : Settled(r) => Settled(r)'
  BY <1>1, <1>2 DEF Settled
<1>4. \A r \in Requests : n # r => (Settled(r) <=> Settled(r)')
  BY <1>2 DEF Settled
<1>5. Answers' /\ Begun'
  BY <1>1 DEF AInv, Answers, Begun, ScriptBusy
<1>6. Refusing'
  BY <1>1, WorkersDiffer DEF AInv, Refusing, Alive
<1>7. WaitingUnanswered'
  <2> SUFFICES ASSUME NEW r \in Requests, step'[Worker(r)] = "wait", n = r,
                      pointer = [req |-> r, named |-> TRUE] \/ step'[Launcher(r)] = "name"
               PROVE  FALSE
    BY <1>1, <1>4 DEF AInv, WaitingUnanswered
  <2>1. step[Worker(r)] = "wait" /\ p # Worker(r)
    BY <1>1
  <2>2. PICK q \in Requests : p = Launcher(q)
    BY <2>1
  <2>3. handoffLock = p /\ pointer.req = r /\ (pointer.named => ~Alive(Worker(r)))
    BY <1>1, <2>1, <2>2 DEF AInv, Refusing
  <2>4. step'[Launcher(r)] = "name"
    BY <2>1, <2>3 DEF Alive
  <2>5. step[Launcher(r)] = "name" /\ Launcher(r) # p
    BY <1>1, <2>4
  <2> QED BY <2>3, <2>5 DEF IInv, LockOK, Admitted
<1>8. PreviousAnswered'
  BY <1>1, <1>3 DEF AInv, PreviousAnswered, Admitted
<1>9. ScriptUnanswered'
  <2> SUFFICES ASSUME ScriptBusy, ~script.recover, script.req \in Requests, n = script.req
               PROVE  FALSE
    BY <1>1, <1>4 DEF AInv, ScriptUnanswered, ScriptBusy
  <2>1. script.by = Worker(script.req) /\ step[script.by] = "running" /\ handoffLock = script.by
    BY DEF IInv, ScriptOK, LockOK, AInv, ScriptUnanswered
  <2>2. p # Worker(script.req)
    BY <1>1, <2>1
  <2>3. PICK q \in Requests : p = Launcher(q)
    BY <2>2
  <2> QED BY <1>1, <2>1, <2>3 DEF AInv, Refusing
<1> QED BY <1>5, <1>6, <1>7, <1>8, <1>9 DEF AInv

-----------------------------------------------------------------------------
(* The launcher.                                                           *)

LEMMA LaunchAnswered == ASSUME IInv, AInv, NEW r \in Requests, Launch(r) PROVE AInv'
<1>1. \E s \in {"admit"} : Advances(Launcher(r), s)
  BY Processes, WorkersDiffer DEF IInv, HandoffTypeOK, AInv, Answers, Launch, Advances,
     Alive, Admitted, Go, Files
<1> QED BY <1>1, Processes, AdvanceAnswered

LEMMA AdmitAnswered ==
    ASSUME IInv, AInv, NEW r \in Requests, Admit(r)
    PROVE  AInv'
<1> USE Processes
<1>1. /\ step[Launcher(r)] = "admit" /\ handoffLock = Launcher(r) /\ handoffLock' = handoffLock
      /\ \A o \in Procs \ {Launcher(r)} : step'[o] = step[o] /\ answer'[o] = answer[o]
      /\ step'[Launcher(r)] \in {"prepare", "finish", "leave"}
      /\ step'[Launcher(r)] = "prepare" =>
           previous' = pointer /\ (pointer = NoPointer \/ Settled(pointer.req))
      /\ step'[Launcher(r)] = "finish" =>
           answer'[Launcher(r)] # "none" /\ pointer.req \in Requests /\ ~RecordedAlive
      /\ UNCHANGED <<journal, pointer, result, script, effect>>
  BY WorkersDiffer DEF IInv, HandoffTypeOK, LockOK, Admit, Go, Admissible, Inactive
<1>2. Answers'
  BY <1>1, WorkersDiffer DEF AInv, Answers
<1>3. Refusing'
  BY <1>1, WorkersDiffer DEF AInv, Refusing, Alive, RecordedAlive
<1>4. WaitingUnanswered'
  BY <1>1, WorkersDiffer DEF AInv, WaitingUnanswered, Settled
<1>5. PreviousAnswered'
  <2> SUFFICES ASSUME NEW q \in Requests, NEW x \in Requests, step'[Launcher(q)] \in Admitted,
                      previous' = [req |-> x, named |-> TRUE]
               PROVE  Settled(x)' /\ step'[Worker(x)] # "wait"
    BY DEF PreviousAnswered
  <2>1. q = r /\ step'[Launcher(r)] = "prepare"
    BY <1>1, WorkersDiffer DEF IInv, LockOK, Admitted
  <2>2. pointer = [req |-> x, named |-> TRUE]
    BY <1>1, <2>1
  <2>3. Settled(x)
    BY <1>1, <2>1, <2>2 DEF NoPointer
  <2> QED BY <1>1, <2>2, <2>3, WorkersDiffer DEF AInv, WaitingUnanswered, Settled
<1>6. Begun'
  BY <1>1, WorkersDiffer DEF AInv, Begun, ScriptBusy, NoScript, Subjects
<1>7. ScriptUnanswered'
  BY <1>1, WorkersDiffer DEF AInv, ScriptUnanswered, ScriptBusy, NoScript, Settled, Subjects
<1> QED BY <1>2, <1>3, <1>4, <1>5, <1>6, <1>7 DEF AInv

LEMMA PrepareAnswered == ASSUME IInv, AInv, NEW r \in Requests, Prepare(r) PROVE AInv'
<1>1. \E s \in {"publish", "leave"} : Advances(Launcher(r), s)
  BY Processes, WorkersDiffer DEF IInv, HandoffTypeOK, AInv, Answers, Prepare, Advances,
     Alive, Admitted, Go
<1> QED BY <1>1, Processes, AdvanceAnswered

LEMMA PublishAnswered ==
    ASSUME IInv, AInv, NEW r \in Requests, Publish(r)
    PROVE  AInv'
<1> USE Processes
<1>1. /\ step[Launcher(r)] = "publish" /\ handoffLock = Launcher(r) /\ handoffLock' = handoffLock
      /\ \A o \in Procs : step'[o] = IF o = Launcher(r) THEN "spawn" ELSE step[o]
      /\ pointer' = [req |-> r, named |-> FALSE] /\ pointer'.named = FALSE
      /\ UNCHANGED <<journal, previous, result, answer, script, effect>>
  BY WorkersDiffer DEF IInv, HandoffTypeOK, LockOK, Admitted, Publish, Go
<1>2. Answers'
  BY <1>1, WorkersDiffer DEF AInv, Answers
<1>3. Refusing'
  BY <1>1, WorkersDiffer DEF AInv, Refusing, Alive, LockOK, Admitted, IInv
<1>4. WaitingUnanswered'
  BY <1>1, WorkersDiffer DEF AInv, WaitingUnanswered, Settled
<1>5. PreviousAnswered'
  BY <1>1, WorkersDiffer DEF AInv, PreviousAnswered, Admitted, LockOK, IInv, Settled
<1>6. Begun'
  BY <1>1, WorkersDiffer DEF AInv, Begun, ScriptBusy, NoScript, Subjects
<1>7. ScriptUnanswered'
  BY <1>1, WorkersDiffer DEF AInv, ScriptUnanswered, ScriptBusy, NoScript, Settled, Subjects
<1> QED BY <1>2, <1>3, <1>4, <1>5, <1>6, <1>7 DEF AInv

LEMMA SpawnAnswered ==
    ASSUME IInv, AInv, NEW r \in Requests, Spawn(r)
    PROVE  AInv'
<1> USE Processes
<1>1. /\ step[Launcher(r)] = "spawn" /\ handoffLock = Launcher(r) /\ handoffLock' = handoffLock
      /\ \A o \in Procs : step'[o] = IF o = Launcher(r) THEN "name"
                                     ELSE IF o = Worker(r) THEN "start" ELSE step[o]
      /\ UNCHANGED <<journal, pointer, previous, result, answer, script, effect>>
  BY WorkersDiffer DEF IInv, HandoffTypeOK, LockOK, Admitted, Spawn, Files
<1>2. Answers'
  BY <1>1, WorkersDiffer DEF AInv, Answers
<1>3. Refusing'
  BY <1>1, WorkersDiffer DEF AInv, Refusing, Alive, LockOK, Admitted, IInv
<1>4. WaitingUnanswered'
  BY <1>1, WorkersDiffer DEF AInv, WaitingUnanswered, Settled
<1>5. PreviousAnswered'
  BY <1>1, WorkersDiffer DEF AInv, PreviousAnswered, Admitted, LockOK, IInv, Settled
<1>6. Begun'
  BY <1>1, WorkersDiffer DEF AInv, Begun, ScriptBusy, NoScript, Subjects
<1>7. ScriptUnanswered'
  BY <1>1, WorkersDiffer DEF AInv, ScriptUnanswered, ScriptBusy, NoScript, Settled, Subjects
<1> QED BY <1>2, <1>3, <1>4, <1>5, <1>6, <1>7 DEF AInv

LEMMA SpawnFailsAnswered ==
    ASSUME IInv, AInv, NEW r \in Requests, SpawnFails(r)
    PROVE  AInv'
<1> USE Processes
<1>1. /\ step[Launcher(r)] = "spawn" /\ handoffLock = Launcher(r) /\ handoffLock' = handoffLock
      /\ \A o \in Procs : step'[o] = IF o = Launcher(r) THEN "leave" ELSE step[o]
      /\ pointer' = pointer \/ pointer' = previous
      /\ UNCHANGED <<journal, previous, result, answer, script, effect>>
  BY WorkersDiffer DEF IInv, HandoffTypeOK, LockOK, Admitted, SpawnFails, Go,
     RestoreOwnedPointer
<1>2. Answers'
  BY <1>1, WorkersDiffer DEF AInv, Answers
<1>3. Refusing'
  BY <1>1, WorkersDiffer DEF AInv, Refusing, Alive, LockOK, Admitted, IInv
<1>4. WaitingUnanswered'
  <2> SUFFICES ASSUME NEW x \in Requests, step'[Worker(x)] = "wait",
                      pointer' = [req |-> x, named |-> TRUE] \/ step'[Launcher(x)] = "name"
               PROVE  ~Settled(x)'
    BY DEF WaitingUnanswered
  <2>1. step[Worker(x)] = "wait" /\ (step'[Launcher(x)] = "name" => step[Launcher(x)] = "name")
    BY <1>1, WorkersDiffer
  <2>2. previous # [req |-> x, named |-> TRUE]
    BY <1>1, <2>1 DEF AInv, PreviousAnswered, Admitted
  <2> QED BY <1>1, <2>1, <2>2 DEF AInv, WaitingUnanswered, Settled
<1>5. PreviousAnswered'
  BY <1>1, WorkersDiffer DEF AInv, PreviousAnswered, Admitted, LockOK, IInv, Settled
<1>6. Begun'
  BY <1>1, WorkersDiffer DEF AInv, Begun, ScriptBusy, NoScript, Subjects
<1>7. ScriptUnanswered'
  BY <1>1, WorkersDiffer DEF AInv, ScriptUnanswered, ScriptBusy, NoScript, Settled, Subjects
<1> QED BY <1>2, <1>3, <1>4, <1>5, <1>6, <1>7 DEF AInv

LEMMA NameWorkerAnswered ==
    ASSUME IInv, AInv, NEW r \in Requests, NameWorker(r)
    PROVE  AInv'
<1> USE Processes
<1>1. /\ step[Launcher(r)] = "name" /\ handoffLock = Launcher(r) /\ handoffLock' = handoffLock
      /\ \A o \in Procs : step'[o] = IF o = Launcher(r) THEN "leave" ELSE step[o]
      /\ pointer' = pointer \/ pointer' = [req |-> r, named |-> TRUE]
      /\ UNCHANGED <<journal, previous, result, answer, script, effect>>
  BY WorkersDiffer DEF IInv, HandoffTypeOK, LockOK, Admitted, NameWorker, Go
<1>2. Answers'
  BY <1>1, WorkersDiffer DEF AInv, Answers
<1>3. Refusing'
  BY <1>1, WorkersDiffer DEF AInv, Refusing, Alive, LockOK, Admitted, IInv
<1>4. WaitingUnanswered'
  BY <1>1, WorkersDiffer DEF AInv, WaitingUnanswered, Settled
<1>5. PreviousAnswered'
  BY <1>1, WorkersDiffer DEF AInv, PreviousAnswered, Admitted, LockOK, IInv, Settled
<1>6. Begun'
  BY <1>1, WorkersDiffer DEF AInv, Begun, ScriptBusy, NoScript, Subjects
<1>7. ScriptUnanswered'
  BY <1>1, WorkersDiffer DEF AInv, ScriptUnanswered, ScriptBusy, NoScript, Settled, Subjects
<1> QED BY <1>2, <1>3, <1>4, <1>5, <1>6, <1>7 DEF AInv

-----------------------------------------------------------------------------
(* The script.                                                             *)

LEMMA ScriptBeginsAnswered ==
    ASSUME IInv, AInv, ScriptBegins,
           UNCHANGED <<handoffLock, pointer, previous, helper, result, authority, kills>>
    PROVE  AInv'
<1> USE Processes
<1>1. /\ script.phase = "begin" /\ script.req \in Subjects /\ ScriptBusy /\ script.recover = FALSE
      /\ journal' = script.req /\ effect' = [effect EXCEPT ![script.req] = "begun"]
      /\ script' = [script EXCEPT !.phase = "journaled"]
      /\ UNCHANGED <<step, answer, handoffLock, pointer, previous, result>>
  BY WorkersDiffer DEF IInv, HandoffTypeOK, Subjects, AInv, Begun, ScriptBegins, ScriptBusy,
     NoScript
<1>2. Answers'
  BY <1>1, WorkersDiffer DEF AInv, Answers
<1>3. Refusing'
  BY <1>1, WorkersDiffer DEF AInv, Refusing, Alive, LockOK, Admitted, IInv
<1>4. WaitingUnanswered'
  BY <1>1, WorkersDiffer DEF AInv, WaitingUnanswered, Settled
<1>5. PreviousAnswered'
  BY <1>1, WorkersDiffer DEF AInv, PreviousAnswered, Admitted, LockOK, IInv, Settled
<1>6. Begun'
  <2>1. journal' \in Subjects /\ effect'[journal'] = "begun" /\ script'.req = journal'
    BY <1>1 DEF IInv, HandoffTypeOK
  <2> QED BY <2>1 DEF Begun
<1>7. ScriptUnanswered'
  BY <1>1, WorkersDiffer DEF AInv, ScriptUnanswered, ScriptBusy, NoScript, Settled, Subjects
<1> QED BY <1>2, <1>3, <1>4, <1>5, <1>6, <1>7 DEF AInv

LEMMA EndedMoves ==
    ASSUME IInv, NEW rc, Ended(rc)
    PROVE  /\ script' = NoScript
           /\ \/ UNCHANGED <<step, answer>>
              \/ /\ script.by \in Procs /\ step[script.by] = "running" /\ handoffLock = script.by
                 /\ \A o \in Procs : step'[o] = IF o = script.by THEN "returned" ELSE step[o]
                 /\ \A o \in Procs \ {script.by} : answer'[o] = answer[o]
                 /\ answer'[script.by] # "none"
<1>1. CASE script.by # Nil /\ step[script.by] = "running"
  <2>1. script.by \in Procs /\ handoffLock = script.by
    BY <1>1 DEF IInv, HandoffTypeOK, LockOK
  <2>2. /\ step' = [step EXCEPT ![script.by] = "returned"]
        /\ answer' = [answer EXCEPT ![script.by] = IF rc = 0 THEN "complete" ELSE "refused"]
    BY <1>1 DEF Ended, Go
  <2>3. script' = NoScript
    BY DEF Ended
  <2> QED BY <1>1, <2>1, <2>2, <2>3 DEF IInv, HandoffTypeOK
<1>2. CASE ~(script.by # Nil /\ step[script.by] = "running")
  BY <1>2 DEF Ended
<1> QED BY <1>1, <1>2

LEMMA ScriptRecoversAnswered ==
    ASSUME IInv, AInv, ScriptRecovers,
           UNCHANGED <<handoffLock, pointer, previous, helper, result, authority, kills>>
    PROVE  AInv'
<1> USE Processes
<1>1. /\ journal \in Subjects /\ journal' = Nil
      /\ \A x \in Subjects : effect'[x] = "none" => effect[x] = "none"
      /\ script.phase = "begin" /\ (script' = script \/ script' = NoScript)
      /\ \/ UNCHANGED <<step, answer>>
         \/ /\ script.by \in Procs /\ step[script.by] = "running" /\ handoffLock = script.by
            /\ \A o \in Procs : step'[o] = IF o = script.by THEN "returned" ELSE step[o]
            /\ \A o \in Procs \ {script.by} : answer'[o] = answer[o]
            /\ answer'[script.by] # "none"
      /\ UNCHANGED <<handoffLock, pointer, previous, result>>
  <2>1. journal \in Subjects
    BY DEF IInv, HandoffTypeOK, ScriptRecovers
  <2>2. PICK e \in {"applied", "undone"} : Settle(journal, e)
    BY DEF ScriptRecovers
  <2>3. \A x \in Subjects : effect'[x] = "none" => effect[x] = "none"
    BY <2>1, <2>2 DEF Settle, IInv, HandoffTypeOK
  <2>4. Ended(0) \/ UNCHANGED <<script, step, answer>>
    BY DEF ScriptRecovers
  <2> QED BY <2>1, <2>2, <2>3, <2>4, EndedMoves DEF Settle, ScriptRecovers
<1>2. Answers'
  BY <1>1, WorkersDiffer DEF AInv, Answers
<1>3. Refusing'
  BY <1>1, WorkersDiffer DEF AInv, Refusing, Alive, LockOK, Admitted, IInv
<1>4. WaitingUnanswered'
  BY <1>1, WorkersDiffer DEF AInv, WaitingUnanswered, Settled
<1>5. PreviousAnswered'
  BY <1>1, WorkersDiffer DEF AInv, PreviousAnswered, Admitted, LockOK, IInv, Settled
<1>6. Begun'
  BY <1>1, WorkersDiffer DEF AInv, Begun, ScriptBusy, NoScript, Subjects
<1>7. ScriptUnanswered'
  BY <1>1, WorkersDiffer DEF AInv, ScriptUnanswered, ScriptBusy, NoScript, Settled, Subjects
<1> QED BY <1>2, <1>3, <1>4, <1>5, <1>6, <1>7 DEF AInv

LEMMA ScriptCompletesAnswered ==
    ASSUME IInv, AInv, ScriptCompletes,
           UNCHANGED <<handoffLock, pointer, previous, helper, result, authority, kills>>
    PROVE  AInv'
<1> USE Processes
<1>1. /\ journal' = Nil /\ script' = NoScript
      /\ \/ UNCHANGED <<step, answer>>
         \/ /\ script.by \in Procs /\ step[script.by] = "running" /\ handoffLock = script.by
            /\ \A o \in Procs : step'[o] = IF o = script.by THEN "returned" ELSE step[o]
            /\ \A o \in Procs \ {script.by} : answer'[o] = answer[o]
            /\ answer'[script.by] # "none"
      /\ UNCHANGED <<handoffLock, pointer, previous, result>>
  BY EndedMoves DEF ScriptCompletes, Settle
<1>2. Answers'
  BY <1>1, WorkersDiffer DEF AInv, Answers
<1>3. Refusing'
  BY <1>1, WorkersDiffer DEF AInv, Refusing, Alive, LockOK, Admitted, IInv
<1>4. WaitingUnanswered'
  BY <1>1, WorkersDiffer DEF AInv, WaitingUnanswered, Settled
<1>5. PreviousAnswered'
  BY <1>1, WorkersDiffer DEF AInv, PreviousAnswered, Admitted, LockOK, IInv, Settled
<1>6. Begun'
  BY <1>1, WorkersDiffer DEF AInv, Begun, ScriptBusy, NoScript, Subjects
<1>7. ScriptUnanswered'
  BY <1>1, WorkersDiffer DEF AInv, ScriptUnanswered, ScriptBusy, NoScript, Settled, Subjects
<1> QED BY <1>2, <1>3, <1>4, <1>5, <1>6, <1>7 DEF AInv

LEMMA ScriptUndoesAnswered ==
    ASSUME IInv, AInv, ScriptUndoes,
           UNCHANGED <<handoffLock, pointer, previous, helper, result, authority, kills>>
    PROVE  AInv'
<1> USE Processes
<1>1. /\ journal' = Nil /\ script' = NoScript
      /\ \/ UNCHANGED <<step, answer>>
         \/ /\ script.by \in Procs /\ step[script.by] = "running" /\ handoffLock = script.by
            /\ \A o \in Procs : step'[o] = IF o = script.by THEN "returned" ELSE step[o]
            /\ \A o \in Procs \ {script.by} : answer'[o] = answer[o]
            /\ answer'[script.by] # "none"
      /\ UNCHANGED <<handoffLock, pointer, previous, result>>
  BY EndedMoves DEF ScriptUndoes, Settle
<1>2. Answers'
  BY <1>1, WorkersDiffer DEF AInv, Answers
<1>3. Refusing'
  BY <1>1, WorkersDiffer DEF AInv, Refusing, Alive, LockOK, Admitted, IInv
<1>4. WaitingUnanswered'
  BY <1>1, WorkersDiffer DEF AInv, WaitingUnanswered, Settled
<1>5. PreviousAnswered'
  BY <1>1, WorkersDiffer DEF AInv, PreviousAnswered, Admitted, LockOK, IInv, Settled
<1>6. Begun'
  BY <1>1, WorkersDiffer DEF AInv, Begun, ScriptBusy, NoScript, Subjects
<1>7. ScriptUnanswered'
  BY <1>1, WorkersDiffer DEF AInv, ScriptUnanswered, ScriptBusy, NoScript, Settled, Subjects
<1> QED BY <1>2, <1>3, <1>4, <1>5, <1>6, <1>7 DEF AInv

LEMMA ScriptFailsAnswered ==
    ASSUME IInv, AInv, ScriptFails,
           UNCHANGED <<handoffLock, pointer, previous, helper, result, authority, kills>>
    PROVE  AInv'
<1> USE Processes
<1>1. /\ journal' = journal /\ effect' = effect /\ script' = NoScript
      /\ \/ UNCHANGED <<step, answer>>
         \/ /\ script.by \in Procs /\ step[script.by] = "running" /\ handoffLock = script.by
            /\ \A o \in Procs : step'[o] = IF o = script.by THEN "returned" ELSE step[o]
            /\ \A o \in Procs \ {script.by} : answer'[o] = answer[o]
            /\ answer'[script.by] # "none"
      /\ UNCHANGED <<handoffLock, pointer, previous, result>>
  BY EndedMoves DEF ScriptFails
<1>2. Answers'
  BY <1>1, WorkersDiffer DEF AInv, Answers
<1>3. Refusing'
  BY <1>1, WorkersDiffer DEF AInv, Refusing, Alive, LockOK, Admitted, IInv
<1>4. WaitingUnanswered'
  BY <1>1, WorkersDiffer DEF AInv, WaitingUnanswered, Settled
<1>5. PreviousAnswered'
  BY <1>1, WorkersDiffer DEF AInv, PreviousAnswered, Admitted, LockOK, IInv, Settled
<1>6. Begun'
  BY <1>1, WorkersDiffer DEF AInv, Begun, ScriptBusy, NoScript, Subjects
<1>7. ScriptUnanswered'
  BY <1>1, WorkersDiffer DEF AInv, ScriptUnanswered, ScriptBusy, NoScript, Settled, Subjects
<1> QED BY <1>2, <1>3, <1>4, <1>5, <1>6, <1>7 DEF AInv

-----------------------------------------------------------------------------
(* The worker, a recovery, an installation, and ends.                      *)

LEMMA WorkerReadsAnswered == ASSUME IInv, AInv, NEW r \in Requests, WorkerReads(r) PROVE AInv'
<1> DEFINE s == IF Settled(r) THEN "done" ELSE "wait"
<1>1. step[Worker(r)] = "start" /\ Go(Worker(r), s) /\ UNCHANGED <<handoffLock, result, answer>>
  BY DEF WorkerReads
<1>2. UNCHANGED <<journal, pointer, previous, script, effect>>
  BY DEF WorkerReads, Files
<1>3. Advances(Worker(r), s)
  BY <1>1, <1>2, WorkersDiffer DEF Advances, Alive, Admitted
<1> QED BY <1>3, Processes, AdvanceAnswered

LEMMA WorkerTimesOutAnswered == ASSUME IInv, AInv, NEW r \in Requests, WorkerTimesOut(r) PROVE AInv'
<1>1. \E s \in {"finish"} : Advances(Worker(r), s)
  BY Processes, WorkersDiffer DEF IInv, HandoffTypeOK, AInv, Answers, WorkerTimesOut,
     Advances, Alive, Admitted, Go, Conclude, Files
<1> QED BY <1>1, Processes, AdvanceAnswered

LEMMA WorkerActivatesAnswered ==
    ASSUME IInv, AInv, NEW r \in Requests, WorkerActivates(r)
    PROVE  AInv'
<1> USE Processes
<1>1. /\ step[Worker(r)] = "wait"
      /\ \A o \in Procs \ {Worker(r)} :
           /\ step'[o] = step[o] /\ answer'[o] = answer[o]
           /\ handoffLock = o => handoffLock' = o
      /\ \/ /\ pointer = [req |-> r, named |-> TRUE] /\ step'[Worker(r)] = "running"
            /\ script' = [req |-> r, recover |-> FALSE, by |-> Worker(r), phase |-> "begin"]
         \/ step'[Worker(r)] = "finish" /\ answer'[Worker(r)] # "none" /\ script' = script
      /\ UNCHANGED <<journal, pointer, previous, result, effect>>
  BY WorkersDiffer DEF IInv, HandoffTypeOK, WorkerActivates, Authorised, StartScript,
     ScriptBusy, Conclude, Go
<1>2. Answers'
  BY <1>1, WorkersDiffer DEF AInv, Answers
<1>3. Refusing'
  BY <1>1, WorkersDiffer DEF AInv, Refusing, Alive, LockOK, Admitted, IInv
<1>4. WaitingUnanswered'
  BY <1>1, WorkersDiffer DEF AInv, WaitingUnanswered, Settled
<1>5. PreviousAnswered'
  BY <1>1, WorkersDiffer DEF AInv, PreviousAnswered, Admitted, LockOK, IInv, Settled
<1>6. Begun'
  BY <1>1, WorkersDiffer DEF AInv, Begun, ScriptBusy, NoScript, Subjects
<1>7. ScriptUnanswered'
  <2>1. pointer = [req |-> r, named |-> TRUE] => ~Settled(r)'
    BY <1>1 DEF AInv, WaitingUnanswered, Settled
  <2> QED BY <1>1, <2>1 DEF AInv, ScriptUnanswered, ScriptBusy, Settled
<1> QED BY <1>2, <1>3, <1>4, <1>5, <1>6, <1>7 DEF AInv

LEMMA WorkerReturnsAnswered == ASSUME IInv, AInv, NEW r \in Requests, WorkerReturns(r) PROVE AInv'
<1>1. \E s \in {"finish"} : Advances(Worker(r), s)
  BY Processes, WorkersDiffer DEF IInv, HandoffTypeOK, AInv, Answers, WorkerReturns,
     Advances, Alive, Admitted, Go, Conclude, Files
<1> QED BY <1>1, Processes, AdvanceAnswered

LEMMA CallRecoveryAnswered ==
    ASSUME IInv, AInv, NEW k \in Recoveries, CallRecovery(k)
    PROVE  AInv'
<1> USE Processes
<1>1. /\ \A o \in Procs \ {Caller(k), Receiver(k)} :
           /\ step'[o] = step[o] /\ answer'[o] = answer[o]
           /\ handoffLock = o => handoffLock' = o
      /\ step'[Caller(k)] \in {"leave", "finish"}
      /\ step'[Caller(k)] = "finish" => answer'[Caller(k)] # "none"
      /\ step'[Receiver(k)] = "start" \/ step'[Receiver(k)] = step[Receiver(k)]
      /\ answer'[Receiver(k)] = answer[Receiver(k)]
      /\ UNCHANGED <<journal, pointer, previous, result, script, effect>>
  <2>1. CASE /\ handoffLock = Nil /\ handoffLock' = Caller(k) /\ UNCHANGED answer
             /\ step' = [step EXCEPT ![Caller(k)] = "leave", ![Receiver(k)] = "start"]
    BY <2>1 DEF IInv, HandoffTypeOK, CallRecovery
  <2>2. CASE Conclude(Caller(k), "refused", FALSE)
    BY <2>2, ProcessesDiffer DEF IInv, HandoffTypeOK, CallRecovery, Conclude, Go
  <2> QED BY <2>1, <2>2 DEF CallRecovery, Recoverable
<1>2. Answers'
  BY <1>1, WorkersDiffer DEF AInv, Answers
<1>3. Refusing'
  BY <1>1, WorkersDiffer DEF AInv, Refusing, Alive, LockOK, Admitted, IInv
<1>4. WaitingUnanswered'
  BY <1>1, WorkersDiffer DEF AInv, WaitingUnanswered, Settled
<1>5. PreviousAnswered'
  BY <1>1, WorkersDiffer DEF AInv, PreviousAnswered, Admitted, LockOK, IInv, Settled
<1>6. Begun'
  BY <1>1, WorkersDiffer DEF AInv, Begun, ScriptBusy, NoScript, Subjects
<1>7. ScriptUnanswered'
  BY <1>1, WorkersDiffer DEF AInv, ScriptUnanswered, ScriptBusy, NoScript, Settled, Subjects
<1> QED BY <1>2, <1>3, <1>4, <1>5, <1>6, <1>7 DEF AInv

LEMMA ReceiverReadsAnswered == ASSUME IInv, AInv, NEW k \in Recoveries, ReceiverReads(k) PROVE AInv'
<1>1. \E s \in {"wait", "finish"} : Advances(Receiver(k), s)
  BY Processes, WorkersDiffer DEF IInv, HandoffTypeOK, AInv, Answers, ReceiverReads,
     Advances, Alive, Admitted, Go, Conclude
<1> QED BY <1>1, Processes, AdvanceAnswered

LEMMA ReceiverTimesOutAnswered == ASSUME IInv, AInv, NEW k \in Recoveries, ReceiverTimesOut(k) PROVE AInv'
<1>1. \E s \in {"finish"} : Advances(Receiver(k), s)
  BY Processes, WorkersDiffer DEF IInv, HandoffTypeOK, AInv, Answers, ReceiverTimesOut,
     Advances, Alive, Admitted, Go, Conclude, Files
<1> QED BY <1>1, Processes, AdvanceAnswered

LEMMA ReceiverActsAnswered ==
    ASSUME IInv, AInv, NEW k \in Recoveries, ReceiverActs(k)
    PROVE  AInv'
<1> USE Processes
<1>1. /\ \A o \in Procs \ {Receiver(k)} :
           /\ step'[o] = step[o] /\ answer'[o] = answer[o]
           /\ handoffLock = o => handoffLock' = o
      /\ \/ /\ step'[Receiver(k)] = "running"
            /\ script'.recover = TRUE /\ script'.phase = "begin" /\ script'.req \in Subjects
         \/ step'[Receiver(k)] = "finish" /\ answer'[Receiver(k)] # "none" /\ script' = script
      /\ UNCHANGED <<journal, pointer, previous, result, effect>>
  BY WorkersDiffer DEF IInv, HandoffTypeOK, Subjects, ReceiverActs, StillAuthorised,
     StartScript, ScriptBusy, Conclude, Go
<1>2. Answers'
  BY <1>1, WorkersDiffer DEF AInv, Answers
<1>3. Refusing'
  BY <1>1, WorkersDiffer DEF AInv, Refusing, Alive, LockOK, Admitted, IInv
<1>4. WaitingUnanswered'
  BY <1>1, WorkersDiffer DEF AInv, WaitingUnanswered, Settled
<1>5. PreviousAnswered'
  BY <1>1, WorkersDiffer DEF AInv, PreviousAnswered, Admitted, LockOK, IInv, Settled
<1>6. Begun'
  BY <1>1, WorkersDiffer DEF AInv, Begun, ScriptBusy, NoScript, Subjects
<1>7. ScriptUnanswered'
  BY <1>1, WorkersDiffer DEF AInv, ScriptUnanswered, ScriptBusy, NoScript, Settled, Subjects
<1> QED BY <1>2, <1>3, <1>4, <1>5, <1>6, <1>7 DEF AInv

LEMMA ReceiverReturnsAnswered == ASSUME IInv, AInv, NEW k \in Recoveries, ReceiverReturns(k) PROVE AInv'
<1>1. \E s \in {"finish"} : Advances(Receiver(k), s)
  BY Processes, WorkersDiffer DEF IInv, HandoffTypeOK, AInv, Answers, ReceiverReturns,
     Advances, Alive, Admitted, Go, Conclude, Files
<1> QED BY <1>1, Processes, AdvanceAnswered

LEMMA InstallAnswered ==
    ASSUME IInv, AInv, Install
    PROVE  AInv'
<1> USE Processes
<1>1. /\ \A o \in Procs \ {Installer} : step'[o] = step[o] /\ (handoffLock = o => handoffLock' = o)
      /\ step'[Installer] = "running"
      /\ script'.req = FirstInstall /\ script'.phase = "begin"
      /\ UNCHANGED <<journal, pointer, previous, result, answer, effect>>
  BY WorkersDiffer DEF IInv, HandoffTypeOK, Install, StartScript, ScriptBusy, Go
<1>2. Answers'
  BY <1>1, WorkersDiffer DEF AInv, Answers
<1>3. Refusing'
  BY <1>1, WorkersDiffer DEF AInv, Refusing, Alive, LockOK, Admitted, IInv
<1>4. WaitingUnanswered'
  BY <1>1, WorkersDiffer DEF AInv, WaitingUnanswered, Settled
<1>5. PreviousAnswered'
  BY <1>1, WorkersDiffer DEF AInv, PreviousAnswered, Admitted, LockOK, IInv, Settled
<1>6. Begun'
  BY <1>1, WorkersDiffer DEF AInv, Begun, ScriptBusy, NoScript, Subjects
<1>7. ScriptUnanswered'
  BY <1>1, WorkersDiffer DEF AInv, ScriptUnanswered, ScriptBusy, NoScript, Settled, Subjects
<1> QED BY <1>2, <1>3, <1>4, <1>5, <1>6, <1>7 DEF AInv

LEMMA InstallReturnsAnswered == ASSUME IInv, AInv, InstallReturns PROVE AInv'
<1>1. \E s \in {"leave"} : Advances(Installer, s)
  BY Processes, WorkersDiffer DEF IInv, HandoffTypeOK, AInv, Answers, InstallReturns,
     Advances, Alive, Admitted, Go, Files
<1> QED BY <1>1, Processes, AdvanceAnswered

LEMMA KillProcessAnswered ==
    ASSUME IInv, AInv, NEW p \in Procs, KillProcess(p), "orphan" \notin HandoffFaults
    PROVE  AInv'
<1> USE Processes
<1>1. /\ \A o \in Procs : step'[o] = IF o = p THEN "dead" ELSE step[o]
      /\ \A o \in Procs \ {p} : handoffLock = o => handoffLock' = o
      /\ script' = script \/ script' = NoScript
      /\ UNCHANGED <<journal, pointer, previous, result, answer, effect>>
  BY WorkersDiffer DEF IInv, HandoffTypeOK, KillProcess, Go
<1>2. Answers'
  BY <1>1, WorkersDiffer DEF AInv, Answers
<1>3. Refusing'
  BY <1>1, WorkersDiffer DEF AInv, Refusing, Alive, LockOK, Admitted, IInv
<1>4. WaitingUnanswered'
  BY <1>1, WorkersDiffer DEF AInv, WaitingUnanswered, Settled
<1>5. PreviousAnswered'
  BY <1>1, WorkersDiffer DEF AInv, PreviousAnswered, Admitted, LockOK, IInv, Settled
<1>6. Begun'
  BY <1>1, WorkersDiffer DEF AInv, Begun, ScriptBusy, NoScript, Subjects
<1>7. ScriptUnanswered'
  BY <1>1, WorkersDiffer DEF AInv, ScriptUnanswered, ScriptBusy, NoScript, Settled, Subjects
<1> QED BY <1>2, <1>3, <1>4, <1>5, <1>6, <1>7 DEF AInv

LEMMA PowerLossAnswered ==
    ASSUME IInv, AInv, PowerLoss
    PROVE  AInv'
<1> USE Processes
<1>1. /\ \A o \in Procs : step'[o] \in {"off", "done", "dead"}
      /\ script' = NoScript
      /\ UNCHANGED <<journal, pointer, previous, result, answer, effect>>
  BY WorkersDiffer DEF IInv, HandoffTypeOK, PowerLoss, Alive
<1>2. Answers'
  BY <1>1, WorkersDiffer DEF AInv, Answers
<1>3. Refusing'
  BY <1>1, WorkersDiffer DEF AInv, Refusing, Alive, LockOK, Admitted, IInv
<1>4. WaitingUnanswered'
  BY <1>1, WorkersDiffer DEF AInv, WaitingUnanswered, Settled
<1>5. PreviousAnswered'
  BY <1>1, WorkersDiffer DEF AInv, PreviousAnswered, Admitted, LockOK, IInv, Settled
<1>6. Begun'
  BY <1>1, WorkersDiffer DEF AInv, Begun, ScriptBusy, NoScript, Subjects
<1>7. ScriptUnanswered'
  BY <1>1, WorkersDiffer DEF AInv, ScriptUnanswered, ScriptBusy, NoScript, Settled, Subjects
<1> QED BY <1>2, <1>3, <1>4, <1>5, <1>6, <1>7 DEF AInv

-----------------------------------------------------------------------------
LEMMA NextAnswered ==
    ASSUME "orphan" \notin HandoffFaults, IInv, AInv, [HandoffNext]_handoffVars
    PROVE  AInv'
<1> USE Processes
<1>1. CASE UNCHANGED handoffVars
  BY <1>1 DEF AInv, Answers, Refusing, WaitingUnanswered, PreviousAnswered, Begun,
     ScriptUnanswered,
     ScriptBusy, Settled, Alive, handoffVars
<1>2. CASE ScriptStep
  BY <1>2, ScriptBeginsAnswered, ScriptRecoversAnswered, ScriptCompletesAnswered,
     ScriptUndoesAnswered, ScriptFailsAnswered
  DEF ScriptStep
<1>3. ASSUME NEW r \in Requests, LauncherStep(r) PROVE AInv'
  <2>1. CASE Launch(r) \/ Admit(r) \/ Prepare(r) \/ Publish(r)
    BY <2>1, LaunchAnswered, AdmitAnswered, PrepareAnswered, PublishAnswered
  <2>2. CASE Spawn(r) \/ SpawnFails(r) \/ NameWorker(r)
    BY <2>2, SpawnAnswered, SpawnFailsAnswered, NameWorkerAnswered
  <2>3. CASE FinishResult(Launcher(r), pointer.req)
    BY <2>3, CheckResultAnswered, WriteResultAnswered, LeaveLockAnswered DEF FinishResult
  <2> QED BY <1>3, <2>1, <2>2, <2>3 DEF LauncherStep
<1>4. ASSUME NEW r \in Requests, WorkerStep(r) PROVE AInv'
  <2>1. CASE WorkerReads(r) \/ WorkerTimesOut(r) \/ WorkerActivates(r) \/ WorkerReturns(r)
    BY <2>1, WorkerReadsAnswered, WorkerTimesOutAnswered, WorkerActivatesAnswered,
       WorkerReturnsAnswered
  <2>2. CASE FinishResult(Worker(r), r)
    BY <2>2, CheckResultAnswered, WriteResultAnswered, LeaveLockAnswered DEF FinishResult
  <2> QED BY <1>4, <2>1, <2>2 DEF WorkerStep
<1>5. ASSUME NEW k \in Recoveries, RecoveryStep(k) PROVE AInv'
  <2>1. CASE CallRecovery(k) \/ ReceiverReads(k) \/ ReceiverTimesOut(k) \/ ReceiverActs(k) \/ ReceiverReturns(k)
    BY <2>1, CallRecoveryAnswered, ReceiverReadsAnswered, ReceiverTimesOutAnswered,
       ReceiverActsAnswered,
       ReceiverReturnsAnswered
  <2>2. CASE FinishResult(Caller(k), k) \/ FinishResult(Receiver(k), k)
    BY <2>2, WorkersDiffer, CheckResultAnswered, WriteResultAnswered,
       LeaveLockAnswered DEF FinishResult
  <2> QED BY <1>5, <2>1, <2>2 DEF RecoveryStep
<1>6. CASE InstallerStep
  BY <1>6, InstallAnswered, InstallReturnsAnswered, LeaveLockAnswered DEF InstallerStep
<1>7. CASE (\E p \in Procs : KillProcess(p)) \/ PowerLoss
  BY <1>7, KillProcessAnswered, PowerLossAnswered
<1> QED BY <1>1, <1>2, <1>3, <1>4, <1>5, <1>6, <1>7 DEF HandoffNext, HandoffWork

(* Only the script changes what a request has done, and it begins nothing   *)
(* that has its answer.                                                     *)
LEMMA EffectStep ==
    ASSUME IInv, AInv, [HandoffNext]_handoffVars,
           NEW r \in Requests, Settled(r), effect[r] = "none"
    PROVE  effect'[r] = "none"
<1> USE Processes
<1>1. CASE UNCHANGED effect
  BY <1>1
<1>2. CASE ScriptStep
  <2>1. CASE ScriptBegins
    <3>1. script.req # r
      BY <2>1 DEF AInv, ScriptUnanswered, ScriptBegins, ScriptBusy, NoScript
    <3> QED BY <2>1, <3>1 DEF IInv, HandoffTypeOK, ScriptBegins
  <2>2. CASE ScriptRecovers
    BY <2>2 DEF AInv, Begun, IInv, HandoffTypeOK, ScriptRecovers, Settle
  <2>3. CASE ScriptCompletes \/ ScriptUndoes
    <3>1. script.phase = "journaled" /\ script.req # r
      BY <2>3 DEF AInv, Begun, ScriptCompletes, ScriptUndoes
    <3> QED BY <2>3, <3>1 DEF IInv, HandoffTypeOK, ScriptCompletes, ScriptUndoes, Settle, Subjects
  <2>4. CASE ScriptFails
    BY <2>4 DEF ScriptFails
  <2> QED BY <1>2, <2>1, <2>2, <2>3, <2>4 DEF ScriptStep
<1>3. ASSUME NEW q \in Requests, LauncherStep(q) \/ WorkerStep(q) PROVE UNCHANGED effect
  BY <1>3 DEF LauncherStep, Launch, Admit, Prepare, Publish, Spawn, SpawnFails, NameWorker,
     WorkerStep,
     WorkerReads, WorkerTimesOut, WorkerActivates, WorkerReturns, FinishResult, CheckResult,
        WriteResult,
     LeaveLock, Files
<1>4. ASSUME NEW k \in Recoveries, RecoveryStep(k) PROVE UNCHANGED effect
  BY <1>4 DEF RecoveryStep, CallRecovery, ReceiverReads, ReceiverTimesOut, ReceiverActs,
     ReceiverReturns,
     FinishResult, CheckResult, WriteResult, LeaveLock, Files
<1>5. CASE InstallerStep \/ (\E p \in Procs : KillProcess(p)) \/ PowerLoss
  BY <1>1, <1>5 DEF InstallerStep, Install, InstallReturns, LeaveLock, KillProcess,
     PowerLoss, Files
<1> QED BY <1>1, <1>2, <1>3, <1>4, <1>5 DEF HandoffNext, HandoffWork, handoffVars

\* Once a request has its terminal result nobody begins its transaction any
\* more, whichever processes were killed, unless a script outlives the
\* process that waits for it (maintenance.py:201, "no request was replayed").
THEOREM NeverReplayed ==
    ASSUME "orphan" \notin HandoffFaults PROVE HandoffSpec => AnsweredNeverBegins
<1>1. AInv /\ IInv /\ [HandoffNext]_handoffVars => AInv'
  BY NextAnswered
<1>2. HandoffSpec => []AInv
  BY <1>1, InitAnswered, Inductive, PTL DEF HandoffSpec
<1>3. IInv /\ AInv /\ [HandoffNext]_handoffVars =>
        [\A r \in Requests : Settled(r) /\ effect[r] = "none" => effect'[r] = "none"]_handoffVars
  BY EffectStep
<1> QED BY <1>2, <1>3, Inductive, PTL DEF HandoffSpec, AnsweredNeverBegins
=============================================================================
