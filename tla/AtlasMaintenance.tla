-------------------------- MODULE AtlasMaintenance --------------------------
(***************************************************************************)
(* The handoff around the updater's script (portable/maintenance.py): the  *)
(* active Atlas.exe copies itself into a private helper, publishes a       *)
(* pointer to it and exits; the helper waits, runs the transaction and     *)
(* leaves one terminal result.  Any process may be killed between two      *)
(* steps, and a later request must decide from the files, and from which   *)
(* processes are alive, what became of the request before it.  The script  *)
(* itself is AtlasTransaction's; here it is begun, left behind a journal,  *)
(* completed or undone.                                                    *)
(***************************************************************************)
EXTENDS Integers, FiniteSets

CONSTANTS Requests,      \* nonces of updates and rollbacks
          Recoveries,    \* nonces of explicit recoveries
          FirstInstall,  \* the installation of a destination without Atlas
          Nil,
          HandoffFaults, \* what the environment may do, see below
          MaxKills       \* bound on processes killed
Subjects == Requests \cup {FirstInstall}
AllFaults == {"kill",     \* a process and the children it waits for end
              "orphan",   \* ... but the script it had started goes on
              "spawn",    \* preparing or starting a child fails
              "restore",  \* restoring the pointer fails too
              "unsaved"}  \* a result cannot be written
Launcher(r) == <<"launcher", r>>
Worker(r) == <<"worker", r>>
Caller(k) == <<"caller", k>>
Receiver(k) == <<"receiver", k>>
Installer == <<"installer", FirstInstall>>
Procs == ({"launcher", "worker"} \X Requests) \cup ({"caller", "receiver"} \X Recoveries)
         \cup {Installer}

ASSUME MaintenanceAssumption ==
    /\ HandoffFaults \subseteq AllFaults /\ MaxKills \in Nat
    /\ Nil \notin Requests \cup Recoveries \cup {FirstInstall}
    /\ FirstInstall \notin Requests /\ Requests \cap Recoveries = {}
    /\ Nil \notin Procs

VARIABLES
    step,        \* where each process is; "off", "done" and "dead" do not run
    handoffLock, \* the process whose handle owns .Atlas.maintenance.lock
    journal,     \* whose transaction Atlas.update-state.json records
    pointer,     \* Atlas.maintenance.json: a request, and whether its worker is named
    previous,    \* the pointer the launcher under the lock found
    helper,      \* the requests whose private copy and request.json exist
    result,      \* the terminal result file of each nonce
    answer,      \* what each process is about to write as its result
    authority,   \* the pointer a recovery receiver read before waiting
    script,      \* the running update_transaction.ps1, which holds its own lock
    effect,      \* what each request has done to the application slots
    installed,   \* the Atlas directory exists
    kills
handoffVars == <<step, handoffLock, journal, pointer, previous, helper, result, answer, authority,
                 script, effect, installed, kills>>

NoScript == [req |-> Nil, recover |-> FALSE, by |-> Nil, phase |-> "none"]
NoPointer == [req |-> Nil, named |-> FALSE]
Statuses == {"none", "complete", "refused", "inactive"}   \* "inactive" is a refusal
Alive(p) == step[p] \notin {"off", "done", "dead"}
Go(p, s) == step' = [step EXCEPT ![p] = s]
Settled(n) == result[n] # "none"

HandoffInit ==
    /\ step = [p \in Procs |-> "off"] /\ handoffLock = Nil
    /\ journal = Nil /\ pointer = NoPointer /\ previous = NoPointer
    /\ helper = {} /\ result = [n \in Requests \cup Recoveries |-> "none"]
    /\ answer = [p \in Procs |-> "none"] /\ authority = [k \in Recoveries |-> NoPointer]
    /\ script = NoScript /\ effect = [s \in Subjects |-> "none"]
    /\ installed \in BOOLEAN /\ kills = 0

-----------------------------------------------------------------------------
(* The terminal result: an existence check, then a replace.                *)

Files == <<journal, pointer, previous, helper, authority, script, effect, installed, kills>>
CheckResult(p, n) ==
    /\ step[p] = "finish"
    /\ Go(p, IF Settled(n) THEN "leave" ELSE "write")
    /\ UNCHANGED <<handoffLock, result, answer>> /\ UNCHANGED Files
WriteResult(p, n) ==
    /\ step[p] = "write"
    /\ \/ result' = [result EXCEPT ![n] = answer[p]]
       \/ "unsaved" \in HandoffFaults /\ UNCHANGED result
    /\ Go(p, "leave")
    /\ UNCHANGED <<handoffLock, answer>> /\ UNCHANGED Files
LeaveLock(p) ==
    /\ step[p] = "leave"
    /\ handoffLock' = IF handoffLock = p THEN Nil ELSE handoffLock
    /\ Go(p, IF p = Installer THEN "off" ELSE "done")
    /\ answer' = [answer EXCEPT ![p] = "none"]
    /\ UNCHANGED result /\ UNCHANGED Files
FinishResult(p, n) == CheckResult(p, n) \/ WriteResult(p, n) \/ LeaveLock(p)

(* Outcome s is on its way to the result file; held keeps the lock.         *)
Conclude(p, s, held) ==
    /\ Go(p, "finish") /\ answer' = [answer EXCEPT ![p] = s]
    /\ handoffLock' = IF handoffLock = p /\ ~held THEN Nil ELSE handoffLock

-----------------------------------------------------------------------------
(* The launcher: --update or --rollback of the installed Atlas.exe.        *)

Launch(r) ==
    /\ step[Launcher(r)] = "off" /\ installed /\ handoffLock = Nil
    /\ handoffLock' = Launcher(r) /\ Go(Launcher(r), "admit")
    /\ UNCHANGED <<result, answer>> /\ UNCHANGED Files

(* The recorded handoff has its result, or else is refused: as active while *)
(* its worker lives, or its launcher before a worker was named.             *)
RecordedAlive ==
    Alive(IF pointer.named THEN Worker(pointer.req) ELSE Launcher(pointer.req))
AdmissibleAnyJournal == pointer = NoPointer \/ Settled(pointer.req)   \* mutant
Admissible == journal = Nil /\ (pointer = NoPointer \/ Settled(pointer.req))
Inactive == journal = Nil /\ ~Admissible /\ pointer.req \in helper /\ ~RecordedAlive
Admit(r) ==
    /\ step[Launcher(r)] = "admit"
    /\ Go(Launcher(r), IF Admissible THEN "prepare" ELSE IF Inactive THEN "finish" ELSE "leave")
    /\ answer' = [answer EXCEPT ![Launcher(r)] = IF Inactive THEN "inactive" ELSE @]
    /\ previous' = IF Admissible THEN pointer ELSE NoPointer
    /\ UNCHANGED <<handoffLock, journal, pointer, helper, result, authority, script, effect, installed, kills>>

(* Completed helpers the pointer does not name are retired first.           *)
Retired == IF journal # Nil THEN {} ELSE {q \in helper \ {pointer.req} : result[q] = "complete"}
Prepare(r) ==
    /\ step[Launcher(r)] = "prepare"
    /\ \/ helper' = (helper \ Retired) \cup {r} /\ Go(Launcher(r), "publish")
       \/ "spawn" \in HandoffFaults /\ helper' = helper \ Retired /\ Go(Launcher(r), "leave")
    /\ UNCHANGED <<handoffLock, journal, pointer, previous, result, answer, authority, script, effect,
                   installed, kills>>
Publish(r) ==
    /\ step[Launcher(r)] = "publish"
    /\ pointer' = [req |-> r, named |-> FALSE] /\ Go(Launcher(r), "spawn")
    /\ UNCHANGED <<handoffLock, journal, previous, helper, result, answer, authority, script, effect,
                   installed, kills>>
Spawn(r) ==
    /\ step[Launcher(r)] = "spawn"
    /\ step' = [step EXCEPT ![Launcher(r)] = "name", ![Worker(r)] = "start"]
    /\ UNCHANGED <<handoffLock, result, answer>> /\ UNCHANGED Files
(* Only this attempt's own pointer is put back; its helper always goes.     *)
RestoreOwnedPointer(r) == IF pointer = [req |-> r, named |-> FALSE] THEN previous ELSE pointer
SpawnFails(r) ==
    /\ step[Launcher(r)] = "spawn" /\ "spawn" \in HandoffFaults
    /\ \/ pointer' = RestoreOwnedPointer(r)
       \/ "restore" \in HandoffFaults /\ UNCHANGED pointer
    /\ helper' = helper \ {r} /\ Go(Launcher(r), "leave")
    /\ UNCHANGED <<handoffLock, journal, previous, result, answer, authority, script, effect, installed, kills>>
(* A worker that has ended already has no identity to publish.              *)
NameWorker(r) ==
    /\ step[Launcher(r)] = "name"
    /\ \/ Alive(Worker(r)) /\ pointer' = [req |-> r, named |-> TRUE]
       \/ (~Alive(Worker(r)) \/ "spawn" \in HandoffFaults) /\ UNCHANGED pointer
    /\ Go(Launcher(r), "leave")
    /\ UNCHANGED <<handoffLock, journal, previous, helper, result, answer, authority, script, effect,
                   installed, kills>>
LauncherStep(r) ==
    \/ Launch(r) \/ Admit(r) \/ Prepare(r) \/ Publish(r) \/ Spawn(r) \/ SpawnFails(r) \/ NameWorker(r)
    \/ FinishResult(Launcher(r), pointer.req)

-----------------------------------------------------------------------------
(* The script, as its caller sees it.  A second one finds its lock held.   *)

StartScript(p, r, recover) ==
    script' = IF script = NoScript
              THEN [req |-> r, recover |-> recover, by |-> p, phase |-> "begin"] ELSE script
ScriptBusy == script # NoScript
Ended(rc) ==     \* the caller, if it still waits, reads the exit code
    /\ script' = NoScript
    /\ IF script.by # Nil /\ step[script.by] = "running"
       THEN /\ Go(script.by, "returned")
            /\ answer' = [answer EXCEPT ![script.by] = IF rc = 0 THEN "complete" ELSE "refused"]
       ELSE UNCHANGED <<step, answer>>
Settle(s, e) ==
    /\ effect' = [effect EXCEPT ![s] = e] /\ journal' = Nil
    /\ installed' = (installed \/ e = "applied")
ScriptBegins ==
    /\ script.phase = "begin" /\ journal = Nil /\ ~script.recover
    /\ journal' = script.req /\ effect' = [effect EXCEPT ![script.req] = "begun"]
    /\ script' = [script EXCEPT !.phase = "journaled"]
    /\ UNCHANGED <<step, answer, installed>>
ScriptRecovers ==       \* whatever journal there is comes first
    /\ script.phase = "begin" /\ journal # Nil
    /\ \E e \in {"applied", "undone"} :
          /\ Settle(journal, e)
          /\ \/ script.recover /\ Ended(0)
             \/ ~script.recover /\ UNCHANGED <<script, step, answer>>
ScriptCompletes ==
    /\ script.phase = "journaled" /\ Settle(script.req, "applied") /\ Ended(0)
ScriptUndoes ==
    /\ script.phase = "journaled" /\ Settle(script.req, "undone") /\ Ended(1)
ScriptFails ==          \* refused before the journal, or with the journal left
    /\ ScriptBusy /\ Ended(1)
    /\ UNCHANGED <<effect, journal, installed>>
ScriptStep ==
    /\ ScriptBegins \/ ScriptRecovers \/ ScriptCompletes \/ ScriptUndoes \/ ScriptFails
    /\ UNCHANGED <<handoffLock, pointer, previous, helper, result, authority, kills>>

-----------------------------------------------------------------------------
(* The worker: the helper's own Atlas.exe.                                 *)

WorkerReads(r) ==       \* an answered nonce ends without another result
    /\ step[Worker(r)] = "start"
    /\ Go(Worker(r), IF Settled(r) THEN "done" ELSE "wait")
    /\ UNCHANGED <<handoffLock, result, answer>> /\ UNCHANGED Files
WorkerTimesOut(r) ==
    /\ step[Worker(r)] = "wait" /\ Alive(Launcher(r))
    /\ Conclude(Worker(r), "refused", FALSE)
    /\ UNCHANGED result /\ UNCHANGED Files
AuthorisedByHelper(r) ==   \* mutant: the worker's own identity is not compared
    handoffLock = Nil /\ pointer.req = r /\ r \in helper
(* Under the lock the pointer must name this very process.                  *)
Authorised(r) == handoffLock = Nil /\ pointer = [req |-> r, named |-> TRUE] /\ r \in helper
WorkerActivatesSilently(r) ==   \* mutant: a refusal is raised outside the try
    /\ step[Worker(r)] = "wait" /\ ~Alive(Launcher(r))
    /\ IF Authorised(r) /\ ~ScriptBusy
       THEN /\ handoffLock' = Worker(r) /\ Go(Worker(r), "running")
            /\ StartScript(Worker(r), r, FALSE)
       ELSE Go(Worker(r), "done") /\ UNCHANGED <<handoffLock, script>>
    /\ UNCHANGED <<journal, pointer, previous, helper, result, answer, authority, effect, installed, kills>>
WorkerActivates(r) ==
    /\ step[Worker(r)] = "wait" /\ ~Alive(Launcher(r))
    /\ IF Authorised(r) /\ ~ScriptBusy
       THEN /\ handoffLock' = Worker(r) /\ Go(Worker(r), "running") /\ UNCHANGED answer
            /\ StartScript(Worker(r), r, FALSE)
       ELSE Conclude(Worker(r), "refused", FALSE) /\ UNCHANGED script
    /\ UNCHANGED <<journal, pointer, previous, helper, result, authority, effect, installed, kills>>
WorkerReturns(r) ==     \* the lock goes before the result is written
    /\ step[Worker(r)] = "returned"
    /\ Conclude(Worker(r), answer[Worker(r)], FALSE)
    /\ UNCHANGED result /\ UNCHANGED Files
WorkerStep(r) ==
    \/ WorkerReads(r) \/ WorkerTimesOut(r) \/ WorkerActivates(r) \/ WorkerReturns(r)
    \/ FinishResult(Worker(r), r)

-----------------------------------------------------------------------------
(* --recover: the caller starts the recorded helper, which waits for it.   *)

Recoverable == handoffLock = Nil /\ journal # Nil /\ pointer.req \in helper
CallRecovery(k) ==
    /\ step[Caller(k)] = "off"
    /\ \/ /\ Recoverable
          /\ handoffLock' = Caller(k) /\ authority' = [authority EXCEPT ![k] = pointer]
          /\ step' = [step EXCEPT ![Caller(k)] = "leave", ![Receiver(k)] = "start"]
          /\ UNCHANGED answer
       \/ /\ ~Recoverable \/ "spawn" \in HandoffFaults
          /\ Conclude(Caller(k), "refused", FALSE) /\ UNCHANGED authority
    /\ UNCHANGED <<journal, pointer, previous, helper, result, script, effect, installed, kills>>
ReceiverReads(k) ==     \* it must be the helper the pointer names
    /\ step[Receiver(k)] = "start"
    /\ \/ /\ pointer.req = authority[k].req /\ pointer.req \in helper
          /\ authority' = [authority EXCEPT ![k] = pointer]
          /\ Go(Receiver(k), "wait") /\ UNCHANGED <<handoffLock, answer>>
       \/ /\ ~(pointer.req = authority[k].req /\ pointer.req \in helper)
          /\ Conclude(Receiver(k), "refused", FALSE) /\ UNCHANGED authority
    /\ UNCHANGED <<journal, pointer, previous, helper, result, script, effect, installed, kills>>
ReceiverTimesOut(k) ==
    /\ step[Receiver(k)] = "wait" /\ Alive(Caller(k))
    /\ Conclude(Receiver(k), "refused", FALSE)
    /\ UNCHANGED result /\ UNCHANGED Files
(* What it read before waiting must still be what is recorded.              *)
StillAuthorised(k) == handoffLock = Nil /\ pointer = authority[k] /\ journal # Nil /\ pointer.req \in helper
ReceiverActs(k) ==
    /\ step[Receiver(k)] = "wait" /\ ~Alive(Caller(k))
    /\ IF StillAuthorised(k) /\ ~ScriptBusy
       THEN /\ handoffLock' = Receiver(k) /\ Go(Receiver(k), "running") /\ UNCHANGED answer
            /\ StartScript(Receiver(k), pointer.req, TRUE)
       ELSE Conclude(Receiver(k), "refused", FALSE) /\ UNCHANGED script
    /\ UNCHANGED <<journal, pointer, previous, helper, result, authority, effect, installed, kills>>
ReceiverReturns(k) ==   \* here the result is written under the lock
    /\ step[Receiver(k)] = "returned"
    /\ Conclude(Receiver(k), answer[Receiver(k)], TRUE)
    /\ UNCHANGED result /\ UNCHANGED Files
RecoveryStep(k) ==
    \/ CallRecovery(k) \/ ReceiverReads(k) \/ ReceiverTimesOut(k) \/ ReceiverActs(k) \/ ReceiverReturns(k)
    \/ FinishResult(Caller(k), k) \/ FinishResult(Receiver(k), k)

(* --install: the first installation, or the retry its own journal needs.   *)
Install ==
    /\ step[Installer] = "off" /\ handoffLock = Nil
    /\ journal = FirstInstall \/ (journal = Nil /\ ~installed)
    /\ ~ScriptBusy
    /\ handoffLock' = Installer /\ Go(Installer, "running")
    /\ StartScript(Installer, FirstInstall, FALSE)
    /\ UNCHANGED <<journal, pointer, previous, helper, result, answer, authority, effect, installed, kills>>
InstallReturns ==
    /\ step[Installer] = "returned"
    /\ Go(Installer, "leave")
    /\ UNCHANGED <<handoffLock, result, answer>> /\ UNCHANGED Files
InstallerStep == Install \/ InstallReturns \/ LeaveLock(Installer)

-----------------------------------------------------------------------------
(* A killed process loses its handle on the lock, and with it the script it *)
(* waits for unless that is orphaned.  Loss of power kills everything.      *)
KillProcess(p) ==
    /\ "kill" \in HandoffFaults /\ Alive(p) /\ kills < MaxKills
    /\ Go(p, "dead") /\ kills' = kills + 1
    /\ handoffLock' = IF handoffLock = p THEN Nil ELSE handoffLock
    /\ script' = IF script.by # p THEN script
                 ELSE IF "orphan" \in HandoffFaults THEN [script EXCEPT !.by = Nil] ELSE NoScript
    /\ UNCHANGED <<journal, pointer, previous, helper, result, answer, authority, effect, installed>>
PowerLoss ==
    /\ "kill" \in HandoffFaults /\ kills < MaxKills /\ \E p \in Procs : Alive(p)
    /\ step' = [p \in Procs |-> IF Alive(p) THEN "dead" ELSE step[p]]
    /\ handoffLock' = Nil /\ script' = NoScript /\ kills' = kills + 1
    /\ UNCHANGED <<journal, pointer, previous, helper, result, answer, authority, effect, installed>>
HandoffWork == ScriptStep \/ (\E r \in Requests : LauncherStep(r) \/ WorkerStep(r))
HandoffNext == HandoffWork \/ (\E k \in Recoveries : RecoveryStep(k)) \/ InstallerStep
        \/ (\E p \in Procs : KillProcess(p)) \/ PowerLoss
HandoffSpec == HandoffInit /\ [][HandoffNext]_handoffVars

(* A started process goes on, and so does the script.                       *)
HandoffFairness ==
    /\ WF_handoffVars(ScriptStep)
    /\ \A r \in Requests : /\ WF_handoffVars(step[Launcher(r)] # "off" /\ LauncherStep(r))
                           /\ WF_handoffVars(WorkerStep(r))
HandoffFairSpec == HandoffSpec /\ HandoffFairness

-----------------------------------------------------------------------------
(* Every variable keeps its type; a process under the lock is running.      *)
Pointers == [req : Requests \cup {Nil}, named : BOOLEAN]
HandoffTypeOK ==
    /\ step \in [Procs -> {"off", "admit", "prepare", "publish", "spawn", "name", "start", "wait",
                         "running", "returned", "finish", "write", "leave", "done", "dead"}]
    /\ handoffLock \in Procs \cup {Nil} /\ (handoffLock # Nil => Alive(handoffLock))
    /\ journal \in Subjects \cup {Nil} /\ pointer \in Pointers /\ previous \in Pointers
    /\ helper \subseteq Requests /\ result \in [Requests \cup Recoveries -> Statuses]
    /\ answer \in [Procs -> Statuses] /\ authority \in [Recoveries -> Pointers]
    /\ script \in [req : Subjects \cup {Nil}, recover : BOOLEAN, by : Procs \cup {Nil},
                   phase : {"none", "begin", "journaled"}]
    /\ effect \in [Subjects -> {"none", "begun", "applied", "undone"}]
    /\ installed \in BOOLEAN /\ kills \in 0..MaxKills

(* Recovery is directed by the pointer and runs the helper's code: whenever *)
(* a request's journal is there, the pointer names that request and its     *)
(* private copy still exists, whichever processes have died.                *)
RecoverableJournal ==
    journal \in Requests => pointer.req = journal /\ journal \in helper

(* "No request was replayed": once a nonce has its terminal result, its     *)
(* transaction is not begun any more by anyone.                             *)
AnsweredNeverBegins ==
    [][\A r \in Requests : Settled(r) /\ effect[r] = "none" => effect'[r] = "none"]_handoffVars

(* Every worker that starts leaves a terminal result unless it is killed:   *)
(* it never waits for ever on its launcher, the lock or the script.         *)
WorkerAnswers ==
    \A r \in Requests : step[Worker(r)] = "start" ~> Settled(r) \/ step[Worker(r)] = "dead"

=============================================================================
