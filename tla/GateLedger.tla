----------------------------- MODULE GateLedger -----------------------------
(***************************************************************************)
(* The engagement gate ledger (cisco_toolkit/gate_state.py): one JSON file *)
(* per engagement holding the binding, the document gates and the audit    *)
(* array.  Runs of the engine and people at the command line are separate  *)
(* processes that read it without a lock, decide, and write through        *)
(* _locked_update: take the sidecar lock, read the ledger again, apply the *)
(* change to what was read, replace the file, release the lock.            *)
(*                                                                         *)
(* One step is one visit to the file system.  The wording of rows, their   *)
(* times and authors are left out; two spellings of one engagement are one *)
(* value.                                                                  *)
(***************************************************************************)
EXTENDS Integers, Sequences, FiniteSets

CONSTANTS
  Writers,      \* processes that share the ledger
  Engagements,  \* identifiers an operator may mint
  None,         \* no identifier
  NoFile,       \* the ledger is absent
  Free,         \* nobody holds the sidecar lock
  Faults,       \* what the environment may do, see FaultKinds
  Signed,       \* the gates that are signed in the behaviours considered
  Generated,    \* the gated deliverables that are asked for in them
  MaxCalls,     \* bound on the calls of one behaviour
  MaxVanish     \* bound on the removals of the file

\* "kill": a process ends.  "io": a read or a replacement of the file fails
\* for good.  "timeout": LOCK_TIMEOUT_S passes under contention.  "nolock":
\* advisory locks fail on the volume, or the sidecar cannot be opened.
\* "vanish": somebody moves the file away.
FaultKinds == {"kill", "io", "timeout", "nolock", "vanish"}

GATE_KEYS == {"assessment_approved", "lld_approved", "baseline_captured",
              "cab_approved", "nrfu_signed"}

GENERATOR_REQUIRES ==
  [design |-> {"assessment_approved"},
   mop    |-> {"lld_approved", "baseline_captured"}]

Generators == DOMAIN GENERATOR_REQUIRES

Decisions == {"approved", "revoked"}
Attempts  == {"refuse", "override"}

Declarations == Engagements \cup {None}

\* A row of the audit array; found says whether its author had seen a ledger.
Row == [id : 1..MaxCalls, event : Decisions \cup Attempts \cup {"bind", "clear"},
        subject : GATE_KEYS \cup Generators \cup Engagements,
        declared : Declarations, found : BOOLEAN]

Ledger == [engagement : Declarations,
           gates : [GATE_KEYS -> Decisions \cup {"none"}],
           audit : Seq(Row)]

ASSUME LedgerAssumption ==
  /\ None \notin Engagements
  /\ NoFile \notin Ledger
  /\ Free \notin Writers
  /\ Faults \subseteq FaultKinds
  /\ Signed \subseteq GATE_KEYS
  /\ Generated \subseteq Generators
  /\ MaxCalls \in Nat
  /\ MaxVanish \in Nat

VARIABLES
  file,     \* the ledger, or NoFile
  lock,     \* the holder of the sidecar lock, or Free
  pc,       \* where each process is
  call,     \* the audit row each process is about to write
  store,    \* the ledger each process has read and changed, before it saves
  saved,    \* how the write of each process went
  answers,  \* what finished calls told their callers
  calls,    \* calls begun so far
  epoch,    \* times the file has vanished
  unserialised \* somebody has gone on without the lock, and logged a warning

ledgerVars == <<file, lock, pc, call, store, saved, answers, calls, epoch,
                unserialised>>

-----------------------------------------------------------------------------
(* The ledger and what may be read from it.                                *)

_new_store ==
  [engagement |-> None, gates |-> [g \in GATE_KEYS |-> "none"], audit |-> <<>>]

RowsOf(s) == IF s = NoFile THEN {} ELSE {s.audit[i] : i \in DOMAIN s.audit}

is_approved(s, g) == s.gates[g] = "approved"

missing_approvals(s, gen) ==
  {g \in GENERATOR_REQUIRES[gen] : ~is_approved(s, g)}

\* A run that declares nothing is governed by whatever ledger it stands next
\* to; one that declares an engagement only by a ledger bound to it.
ownership_error(s, declared) == declared # None /\ s.engagement # declared

\* Mutants of Refuses: an append that re-creates the ledger it had read, and
\* a binding that is checked against nothing.
RefusesNoGone(c, s) ==
  \/ c.event \in Decisions /\ s # NoFile /\ ownership_error(s, c.declared)
  \/ c.event = "bind" /\ s # NoFile /\ s.engagement \notin {None, c.subject}

RefusesNoRebind(c, s) ==
  \/ c.found /\ s = NoFile
  \/ c.event \in Decisions /\ s # NoFile /\ ownership_error(s, c.declared)

\* A refused update: the ledger the caller had seen is gone, it belongs to
\* another engagement, or a binding would be re-pointed.
Refuses(c, s) ==
  \/ c.found /\ s = NoFile
  \/ c.event \in Decisions /\ s # NoFile /\ ownership_error(s, c.declared)
  \/ c.event = "bind" /\ s # NoFile /\ s.engagement \notin {None, c.subject}

Binding(c, s) ==
  IF c.event = "bind" THEN c.subject
  ELSE IF s # NoFile THEN s.engagement
  ELSE IF c.event \in Decisions THEN c.declared ELSE None

\* Mutant of Applied: the row is appended and the gate is changed only when it
\* was not signed before.
AppliedOnce(c, s) ==
  LET base == IF s = NoFile THEN _new_store ELSE s
  IN  [engagement |-> Binding(c, s),
       gates |-> IF c.event \in Decisions /\ base.gates[c.subject] = "none"
                 THEN [base.gates EXCEPT ![c.subject] = c.event]
                 ELSE base.gates,
       audit |-> Append(base.audit, c)]

Applied(c, s) ==
  LET base == IF s = NoFile THEN _new_store ELSE s
  IN  [engagement |-> Binding(c, s),
       gates |-> IF c.event \in Decisions
                 THEN [base.gates EXCEPT ![c.subject] = c.event]
                 ELSE base.gates,
       audit |-> Append(base.audit, c)]

-----------------------------------------------------------------------------
NotSaved == -1

NoCall == [id |-> 0, event |-> "none", subject |-> None, declared |-> None,
           found |-> FALSE]

LedgerInit ==
  /\ file = NoFile
  /\ lock = Free
  /\ pc = [w \in Writers |-> "idle"]
  /\ call = [w \in Writers |-> NoCall]
  /\ store = [w \in Writers |-> NoFile]
  /\ saved = [w \in Writers |-> NotSaved]
  /\ answers = {}
  /\ calls = 0
  /\ epoch = 0
  /\ unserialised = FALSE

\* The next call of the model, within the bound.
NewCall ==
  /\ calls < MaxCalls
  /\ calls' = calls + 1

Ask(w, event, subject, declared, found) ==
  /\ pc[w] = "idle"
  /\ NewCall
  /\ call' = [call EXCEPT ![w] = [id |-> calls + 1, event |-> event,
                subject |-> subject, declared |-> declared, found |-> found]]
  /\ pc' = [pc EXCEPT ![w] = "lock"]
  /\ saved' = [saved EXCEPT ![w] = NotSaved]
  /\ UNCHANGED <<file, lock, store, answers, epoch, unserialised>>

\* A human signs or withdraws a gate.  Whether the ledger is there decides
\* now whether this call may create it later.
record_decision(w, gate, decision, declared) ==
  Ask(w, decision, gate, declared, file # NoFile)

bind_engagement(w, ident) ==
  Ask(w, "bind", ident, ident, file # NoFile)

\* enforce() finds the approvals missing on its unlocked read: it refuses, or
\* goes on under an override, and either way writes a row first.
EnforceMissing(w, gen, event, declared) ==
  /\ file # NoFile
  /\ ~ownership_error(file, declared)
  /\ missing_approvals(file, gen) # {}
  /\ Ask(w, event, gen, declared, TRUE)

\* enforce() answers from its unlocked read alone: upstream approvals are
\* there, nobody enrolled this engagement, or the ledger cannot be used.
\* Only the first leaves a verdict that later evidence must bear out.
EnforceClear(w, gen, declared) ==
  /\ pc[w] = "idle"
  /\ NewCall
  /\ file # NoFile
  /\ ~ownership_error(file, declared)
  /\ missing_approvals(file, gen) = {}
  /\ answers' = answers \cup
       {[row |-> [id |-> calls + 1, event |-> "clear", subject |-> gen,
                  declared |-> declared, found |-> TRUE], epoch |-> epoch]}
  /\ UNCHANGED <<file, lock, pc, call, store, saved, epoch, unserialised>>

-----------------------------------------------------------------------------
(* _ledger_lock and _locked_update.                                        *)

\* Mutant of Acquire: the ledger is read before the lock is asked for.
AcquireAfterRead(w) ==
  /\ \/ /\ pc[w] = "lock"
        /\ ~Refuses(call[w], file)
        /\ store' = [store EXCEPT ![w] = Applied(call[w], file)]
        /\ pc' = [pc EXCEPT ![w] = "wait"]
        /\ UNCHANGED lock
     \/ /\ pc[w] = "wait"
        /\ lock = Free
        /\ lock' = w
        /\ pc' = [pc EXCEPT ![w] = "save"]
        /\ UNCHANGED store
  /\ UNCHANGED <<file, call, saved, answers, calls, epoch, unserialised>>

Acquire(w) ==
  /\ pc[w] = "lock"
  /\ lock = Free
  /\ lock' = w
  /\ pc' = [pc EXCEPT ![w] = "read"]
  /\ UNCHANGED <<file, call, store, saved, answers, calls, epoch, unserialised>>

\* Without a working lock, or after waiting for one long enough, the write
\* goes on unserialised and says so.
Proceed(w) ==
  /\ pc[w] = "lock"
  /\ \/ "nolock" \in Faults
     \/ "timeout" \in Faults /\ lock # Free
  /\ pc' = [pc EXCEPT ![w] = "read"]
  /\ unserialised' = TRUE
  /\ UNCHANGED <<file, lock, call, store, saved, answers, calls, epoch>>

\* The ledger is read again, whatever the caller had read before.
Reread(w) ==
  /\ pc[w] = "read"
  /\ IF Refuses(call[w], file)
     THEN /\ pc' = [pc EXCEPT ![w] = "release"]
          /\ UNCHANGED store
     ELSE /\ pc' = [pc EXCEPT ![w] = "save"]
          /\ store' = [store EXCEPT ![w] = Applied(call[w], file)]
  /\ UNCHANGED <<file, lock, call, saved, answers, calls, epoch, unserialised>>

\* A unique temporary file, fsync, and one rename onto the ledger.
save_store(w) ==
  /\ pc[w] = "save"
  /\ file' = store[w]
  /\ saved' = [saved EXCEPT ![w] = epoch]
  /\ store' = [store EXCEPT ![w] = NoFile]
  /\ pc' = [pc EXCEPT ![w] = "release"]
  /\ UNCHANGED <<lock, call, answers, calls, epoch, unserialised>>

\* The read or the rename still fails after _RACE_RETRIES attempts; the
\* temporary file is removed and the ledger left alone.
Fails(w) ==
  /\ "io" \in Faults
  /\ pc[w] \in {"read", "save"}
  /\ store' = [store EXCEPT ![w] = NoFile]
  /\ pc' = [pc EXCEPT ![w] = "release"]
  /\ UNCHANGED <<file, lock, call, saved, answers, calls, epoch, unserialised>>

\* Mutant of Unlocked: a refused or failed update keeps the lock.
UnlockedAfterSave(w) == IF lock = w /\ saved[w] # NotSaved THEN Free ELSE lock

Unlocked(w) == IF lock = w THEN Free ELSE lock

\* The lock is released on every way out.  A write that happened is
\* acknowledged: a decision or a binding by its return, a refusal by
\* recorded, an override by the deliverable it lets through.
Finish(w) ==
  /\ pc[w] = "release"
  /\ lock' = Unlocked(w)
  /\ answers' = IF saved[w] = NotSaved THEN answers
                ELSE answers \cup {[row |-> call[w], epoch |-> saved[w]]}
  /\ call' = [call EXCEPT ![w] = NoCall]
  /\ saved' = [saved EXCEPT ![w] = NotSaved]
  /\ pc' = [pc EXCEPT ![w] = "idle"]
  /\ UNCHANGED <<file, store, calls, epoch, unserialised>>

-----------------------------------------------------------------------------
(* The environment.                                                        *)

\* The kernel releases the lock of a process that ends.
Kill(w) ==
  /\ "kill" \in Faults
  /\ pc[w] # "idle"
  /\ pc' = [pc EXCEPT ![w] = "idle"]
  /\ lock' = Unlocked(w)
  /\ store' = [store EXCEPT ![w] = NoFile]
  /\ call' = [call EXCEPT ![w] = NoCall]
  /\ saved' = [saved EXCEPT ![w] = NotSaved]
  /\ UNCHANGED <<file, answers, calls, epoch, unserialised>>

Vanish ==
  /\ "vanish" \in Faults
  /\ file # NoFile
  /\ epoch < MaxVanish
  /\ file' = NoFile
  /\ epoch' = epoch + 1
  /\ UNCHANGED <<lock, pc, call, store, saved, answers, calls, unserialised>>

\* Every call has been made and answered.
Quiet ==
  /\ calls = MaxCalls
  /\ \A w \in Writers : pc[w] = "idle"
  /\ UNCHANGED ledgerVars

Request(w) ==
  \/ \E g \in Signed, d \in Decisions, e \in Declarations : record_decision(w, g, d, e)
  \/ \E e \in Engagements : bind_engagement(w, e)
  \/ \E gen \in Generated, ev \in Attempts, e \in Declarations : EnforceMissing(w, gen, ev, e)
  \/ \E gen \in Generated, e \in Declarations : EnforceClear(w, gen, e)

Work(w) == Acquire(w) \/ Proceed(w) \/ Reread(w) \/ save_store(w) \/ Finish(w)

LedgerNext ==
  \/ \E w \in Writers : Request(w) \/ Work(w) \/ Fails(w) \/ Kill(w)
  \/ Vanish
  \/ Quiet

LedgerSpec == LedgerInit /\ [][LedgerNext]_ledgerVars

\* A process that is scheduled gets on with its call: it polls for the lock
\* every 50 ms and does nothing else than file operations under it.
LedgerFairness == \A w \in Writers : WF_ledgerVars(Work(w))

LedgerFairSpec == LedgerSpec /\ LedgerFairness
-----------------------------------------------------------------------------
(* Properties.                                                             *)

\* Every variable has its type.
LedgerTypeOK ==
  /\ file \in Ledger \cup {NoFile}
  /\ lock \in Writers \cup {Free}
  /\ pc \in [Writers -> {"idle", "lock", "read", "save", "release"}]
  /\ call \in [Writers -> Row \cup {NoCall}]
  /\ store \in [Writers -> Ledger \cup {NoFile}]
  /\ saved \in [Writers -> 0..MaxVanish \cup {NotSaved}]
  /\ answers \in SUBSET [row : Row, epoch : 0..MaxVanish]
  /\ calls \in 0..MaxCalls
  /\ epoch \in 0..MaxVanish
  /\ unserialised \in BOOLEAN

\* What a caller was told is in the ledger for as long as the file is: a
\* decision, a binding, a recorded refusal and an override by their row, a
\* clear verdict by the row that approved each gate it rests on.  No writer's
\* save may drop what another had saved (gate_state.py:537), unless somebody
\* has gone on without the lock.
Backed ==
  \A a \in answers : a.epoch = epoch =>
    IF a.row.event = "clear"
    THEN \A g \in GENERATOR_REQUIRES[a.row.subject] :
           \E r \in RowsOf(file) : r.event = "approved" /\ r.subject = g
    ELSE a.row \in RowsOf(file)
AnswersBacked == unserialised \/ Backed

\* The last word of the audit trail on each gate is what the gate says: an
\* approval or a withdrawal never takes effect without its row, nor a row
\* without its effect, whoever else was writing (gate_state.py:860).
GatesMatchAudit ==
  file # NoFile =>
    \A g \in GATE_KEYS :
      LET said == {i \in DOMAIN file.audit :
                     file.audit[i].event \in Decisions /\ file.audit[i].subject = g}
      IN  IF said = {} THEN file.gates[g] = "none"
          ELSE \E i \in said : /\ \A j \in said : j <= i
                               /\ file.gates[g] = file.audit[i].event

\* A ledger that exists began with a signature or a binding of somebody who
\* had found none: no other call brings one about, and none brings one back
\* that holds its own row only (gate_state.py:540).
EnrolledDeliberately ==
  file # NoFile =>
    /\ file.audit[1].event \in Decisions \cup {"bind"}
    /\ ~file.audit[1].found

\* While nobody has gone on without the lock, the engagement a ledger was
\* bound to is never re-pointed, so no approval signed in it is attributed to
\* another one (gate_state.py:1011).
BindingKept ==
  [][file # NoFile /\ file' # NoFile /\ file.engagement # None /\ ~unserialised
       => file'.engagement = file.engagement]_ledgerVars

\* Nobody waits for the ledger forever: the lock is given back on every way
\* out, also by a refused, failed or killed update (gate_state.py:421).
Answered == \A w \in Writers : pc[w] = "lock" ~> pc[w] = "idle"
=============================================================================
