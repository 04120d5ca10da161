-------------------------- MODULE GateLedgerProofs --------------------------
(***************************************************************************)
(* What the gate ledger keeps, for any number of writers and calls: its    *)
(* gates always agree with its audit trail and it is never brought back    *)
(* empty, whether or not the lock works; and when the lock works, nothing  *)
(* acknowledged is lost and no binding is re-pointed.                      *)
(***************************************************************************)
EXTENDS GateLedger, TLAPS

(* A row a process may be about to write: its subject fits its event, and   *)
(* only a signature or a binding may create a ledger.                       *)
WellMade(c) ==
  /\ c \in Row
  /\ c.event \in Decisions \cup Attempts \cup {"bind"}
  /\ c.event \in Decisions => c.subject \in GATE_KEYS
  /\ c.event = "bind" => c.subject \in Engagements /\ c.declared = c.subject
  /\ c.event \in Attempts => c.found

Said(s, g) == {i \in DOMAIN s.audit :
                 s.audit[i].event \in Decisions /\ s.audit[i].subject = g}

Agrees(s) ==
  \A g \in GATE_KEYS :
    IF Said(s, g) = {} THEN s.gates[g] = "none"
    ELSE \E i \in Said(s, g) : /\ \A j \in Said(s, g) : j <= i
                               /\ s.gates[g] = s.audit[i].event

Begun(s) ==
  /\ Len(s.audit) >= 1
  /\ s.audit[1].event \in Decisions \cup {"bind"}
  /\ ~s.audit[1].found

Good(s) == s = NoFile \/ (s \in Ledger /\ Agrees(s) /\ Begun(s))

(* What holds whether or not writers are serialised.                        *)
Pending == \A w \in Writers : pc[w] # "idle" => WellMade(call[w])
Prepared == \A w \in Writers : pc[w] = "save" => store[w] # NoFile
Sound == Good(file) /\ \A w \in Writers : Good(store[w])
IInv == LedgerTypeOK /\ Pending /\ Prepared /\ Sound

-----------------------------------------------------------------------------
LEMMA NoFileIsNoLedger == NoFile \notin Ledger
BY LedgerAssumption

LEMMA NewStoreTyped == _new_store \in Ledger
BY DEF _new_store, Ledger, Declarations

(* An update that is not refused turns a sound ledger, or none, into a      *)
(* sound one.                                                               *)
LEMMA AppliedTyped ==
  ASSUME NEW c, WellMade(c), NEW s, Good(s), ~Refuses(c, s)
  PROVE  Applied(c, s) \in Ledger
<1> DEFINE base == IF s = NoFile THEN _new_store ELSE s
<1>1. base \in Ledger
  BY NewStoreTyped DEF Good
<1>2. Binding(c, s) \in Declarations
  <2>1. c.declared \in Declarations
    BY DEF WellMade, Row
  <2>2. s # NoFile => s.engagement \in Declarations
    BY DEF Good, Ledger
  <2> QED BY <2>1, <2>2 DEF Binding, WellMade, Declarations
<1>3. (IF c.event \in Decisions THEN [base.gates EXCEPT ![c.subject] = c.event]
                                ELSE base.gates) \in [GATE_KEYS -> Decisions \cup {"none"}]
  BY <1>1 DEF Ledger, WellMade
<1>4. Append(base.audit, c) \in Seq(Row)
  BY <1>1 DEF Ledger, WellMade
<1> QED BY <1>2, <1>3, <1>4 DEF Applied, Ledger

LEMMA AppliedAudit ==
  ASSUME NEW c, WellMade(c), NEW s, Good(s), ~Refuses(c, s)
  PROVE  /\ s = NoFile => Applied(c, s).audit = <<c>>
         /\ s # NoFile => Applied(c, s).audit = Append(s.audit, c)
<1>1. Applied(c, s).audit = Append((IF s = NoFile THEN _new_store ELSE s).audit, c)
  BY Zenon DEF Applied
<1>2. _new_store.audit = <<>> /\ Append(<<>>, c) = <<c>>
  BY DEF _new_store
<1> QED BY <1>1, <1>2

LEMMA AppliedBegun ==
  ASSUME NEW c, WellMade(c), NEW s, Good(s), ~Refuses(c, s)
  PROVE  Begun(Applied(c, s))
<1>1. CASE s = NoFile
  <2>1. ~c.found
    BY <1>1 DEF Refuses, WellMade
  <2>2. c.event \in Decisions \cup {"bind"}
    BY <2>1 DEF WellMade
  <2>3. Applied(c, s).audit = <<c>>
    BY <1>1, AppliedAudit
  <2> QED BY <2>1, <2>2, <2>3 DEF Begun
<1>2. CASE s # NoFile
  <2>1. s.audit \in Seq(Row) /\ Begun(s) /\ Applied(c, s).audit = Append(s.audit, c)
    BY <1>2, AppliedAudit DEF Good, Ledger
  <2>2. Append(s.audit, c)[1] = s.audit[1] /\ Len(Append(s.audit, c)) >= 1
    BY <2>1 DEF Begun, WellMade
  <2> QED BY <2>1, <2>2 DEF Begun
<1> QED BY <1>1, <1>2

(* The row is the last word on the gate it is about and on no other.        *)
LEMMA AppliedAgrees ==
  ASSUME NEW c, WellMade(c), NEW s, Good(s), ~Refuses(c, s)
  PROVE  Agrees(Applied(c, s))
<1> DEFINE t == Applied(c, s)
           a == IF s = NoFile THEN <<>> ELSE s.audit
           old == IF s = NoFile THEN [g \in GATE_KEYS |-> "none"] ELSE s.gates
           n == Len(a)
           before(g) == {i \in 1..n : a[i].event \in Decisions /\ a[i].subject = g}
<1>1. a \in Seq(Row) /\ n \in Nat /\ old \in [GATE_KEYS -> Decisions \cup {"none"}]
  BY DEF Good, Ledger
<1>2. /\ t.audit = Append(a, c)
      /\ t.gates = IF c.event \in Decisions THEN [old EXCEPT ![c.subject] = c.event] ELSE old
  BY DEF Applied, _new_store
<1>3. \A g \in GATE_KEYS :
        IF before(g) = {} THEN old[g] = "none"
        ELSE \E i \in before(g) : (\A j \in before(g) : j <= i) /\ old[g] = a[i].event
  <2>1. CASE s = NoFile
    BY <2>1
  <2>2. CASE s # NoFile
    <3>1. \A g : before(g) = Said(s, g)
      BY <2>2, <1>1 DEF Said
    <3>2. Agrees(s) /\ a = s.audit /\ old = s.gates
      BY <2>2 DEF Good
    <3> HIDE DEF before, a, old
    <3> QED BY <3>1, <3>2, Zenon DEF Agrees
  <2> QED BY <2>1, <2>2
<1>4. DOMAIN t.audit = 1..n+1 /\ t.audit[n+1] = c /\ \A i \in 1..n : t.audit[i] = a[i]
  BY <1>1, <1>2 DEF WellMade
<1> HIDE DEF t, a, old, n
<1> SUFFICES ASSUME NEW g \in GATE_KEYS
             PROVE  IF Said(t, g) = {} THEN t.gates[g] = "none"
                    ELSE \E i \in Said(t, g) : /\ \A j \in Said(t, g) : j <= i
                                               /\ t.gates[g] = t.audit[i].event
  BY DEF Agrees, t
<1>5. CASE c.event \in Decisions /\ c.subject = g
  <2>1. n+1 \in Said(t, g) /\ \A j \in Said(t, g) : j <= n+1
    BY <1>1, <1>4, <1>5 DEF Said
  <2>2. t.gates[g] = t.audit[n+1].event
    BY <1>1, <1>2, <1>4, <1>5
  <2> QED BY <2>1, <2>2
<1>6. CASE ~(c.event \in Decisions /\ c.subject = g)
  <2>1. Said(t, g) = before(g)
    BY <1>1, <1>4, <1>6 DEF Said
  <2>2. t.gates[g] = old[g]
    BY <1>1, <1>2, <1>6
  <2>3. \A i \in before(g) : t.audit[i] = a[i]
    BY <1>4
  <2> HIDE DEF before
  <2> QED BY <1>3, <2>1, <2>2, <2>3
<1> QED BY <1>5, <1>6

LEMMA AppliedGood ==
  ASSUME NEW c, WellMade(c), NEW s, Good(s), ~Refuses(c, s)
  PROVE  /\ Applied(c, s) \in Ledger /\ Applied(c, s) # NoFile /\ Good(Applied(c, s))
         /\ RowsOf(s) \subseteq RowsOf(Applied(c, s)) /\ c \in RowsOf(Applied(c, s))
<1>1. Applied(c, s) \in Ledger /\ Applied(c, s) # NoFile
  BY AppliedTyped, NoFileIsNoLedger
<1>2. Good(Applied(c, s))
  BY <1>1, AppliedBegun, AppliedAgrees DEF Good
<1>3. CASE s = NoFile
  <2>1. Applied(c, s).audit = <<c>>
    BY <1>3, AppliedAudit
  <2> QED BY <1>1, <1>2, <1>3, <2>1 DEF RowsOf
<1>4. CASE s # NoFile
  <2>1. s.audit \in Seq(Row) /\ Applied(c, s).audit = Append(s.audit, c) /\ c \in Row
    BY <1>4, AppliedAudit DEF Good, Ledger, WellMade
  <2>2. /\ DOMAIN Append(s.audit, c) = 1..Len(s.audit)+1
        /\ Append(s.audit, c)[Len(s.audit)+1] = c
        /\ \A i \in DOMAIN s.audit : i \in 1..Len(s.audit)+1 /\ Append(s.audit, c)[i] = s.audit[i]
    BY <2>1
  <2>3. Len(s.audit)+1 \in 1..Len(s.audit)+1
    BY <2>1
  <2> QED BY <1>1, <1>2, <1>4, <2>1, <2>2, <2>3 DEF RowsOf
<1> QED BY <1>3, <1>4

-----------------------------------------------------------------------------
(* Type correctness and soundness, under every fault.                       *)

LEMMA InitTyped == LedgerInit => LedgerTypeOK
<1> SUFFICES ASSUME LedgerInit PROVE LedgerTypeOK
  OBVIOUS
<1>1. unserialised \in BOOLEAN
  BY DEF LedgerInit
<1> QED BY <1>1, LedgerAssumption DEF LedgerInit, LedgerTypeOK

LEMMA InitInv == LedgerInit => IInv
<1> SUFFICES ASSUME LedgerInit PROVE IInv
  OBVIOUS
<1>1. LedgerTypeOK
  BY InitTyped
<1>2. Pending /\ Prepared /\ Sound
  BY DEF LedgerInit, Pending, Prepared, Sound, Good
<1> QED BY <1>1, <1>2 DEF IInv

(* A request makes a row that may be written.                               *)
LEMMA AskInv ==
  ASSUME IInv, NEW w \in Writers, NEW event, NEW subject, NEW declared, NEW found,
         Ask(w, event, subject, declared, found),
         event \in Decisions \cup Attempts \cup {"bind"},
         subject \in GATE_KEYS \cup Generators \cup Engagements,
         declared \in Declarations, found \in BOOLEAN,
         event \in Decisions => subject \in GATE_KEYS,
         event = "bind" => subject \in Engagements /\ declared = subject,
         event \in Attempts => found
  PROVE  IInv'
<1> DEFINE c == [id |-> calls + 1, event |-> event, subject |-> subject,
                 declared |-> declared, found |-> found]
<1>1. calls + 1 \in 1..MaxCalls /\ calls' \in 0..MaxCalls
  BY LedgerAssumption DEF IInv, LedgerTypeOK, Ask, NewCall
<1>2. c \in Row
  BY <1>1 DEF Row
<1>3. WellMade(c)
  BY <1>2 DEF WellMade
<1>4. /\ call' = [call EXCEPT ![w] = c] /\ pc' = [pc EXCEPT ![w] = "lock"]
      /\ saved' = [saved EXCEPT ![w] = NotSaved]
      /\ UNCHANGED <<file, lock, store, answers, epoch, unserialised>>
  BY DEF Ask
<1> HIDE DEF c
<1>5. LedgerTypeOK'
  BY <1>1, <1>2, <1>4 DEF IInv, LedgerTypeOK
<1>6. Pending' /\ Prepared'
  BY <1>3, <1>4 DEF IInv, LedgerTypeOK, Pending, Prepared
<1>7. Sound'
  BY <1>4 DEF IInv, Sound, Good, Agrees, Said, Begun
<1> QED BY <1>5, <1>6, <1>7 DEF IInv

LEMMA RequestInv ==
  ASSUME IInv, NEW w \in Writers, Request(w)
  PROVE  IInv'
<1>1. ASSUME NEW g \in Signed, NEW d \in Decisions, NEW e \in Declarations,
             record_decision(w, g, d, e)
      PROVE  IInv'
  <2>1. Ask(w, d, g, e, file # NoFile) /\ g \in GATE_KEYS
    BY <1>1, LedgerAssumption DEF record_decision
  <2> QED BY <2>1, AskInv DEF Decisions, Attempts
<1>2. ASSUME NEW e \in Engagements, bind_engagement(w, e)
      PROVE  IInv'
  <2>1. Ask(w, "bind", e, e, file # NoFile) /\ e \in Declarations
    BY <1>2 DEF bind_engagement, Declarations
  <2> QED BY <2>1, AskInv DEF Decisions, Attempts
<1>3. ASSUME NEW gen \in Generated, NEW ev \in Attempts, NEW e \in Declarations,
             EnforceMissing(w, gen, ev, e)
      PROVE  IInv'
  <2>1. Ask(w, ev, gen, e, TRUE) /\ gen \in Generators
    BY <1>3, LedgerAssumption DEF EnforceMissing
  <2> QED BY <2>1, AskInv DEF Decisions, Attempts
<1>4. ASSUME NEW gen \in Generated, NEW e \in Declarations, EnforceClear(w, gen, e)
      PROVE  IInv'
  <2> DEFINE c == [id |-> calls + 1, event |-> "clear", subject |-> gen,
                   declared |-> e, found |-> TRUE]
  <2>1. calls + 1 \in 1..MaxCalls /\ calls' \in 0..MaxCalls
    BY <1>4, LedgerAssumption DEF IInv, LedgerTypeOK, EnforceClear, NewCall
  <2>2. c \in Row
    BY <2>1, LedgerAssumption DEF Row
  <2>3. /\ answers' = answers \cup {[row |-> c, epoch |-> epoch]}
        /\ UNCHANGED <<file, lock, pc, call, store, saved, epoch, unserialised>>
    BY <1>4 DEF EnforceClear
  <2> HIDE DEF c
  <2>4. LedgerTypeOK'
    BY <2>1, <2>2, <2>3 DEF IInv, LedgerTypeOK
  <2>5. Pending' /\ Prepared' /\ Sound'
    BY <2>3 DEF IInv, Pending, Prepared, Sound, Good, Agrees, Said, Begun
  <2> QED BY <2>4, <2>5 DEF IInv
<1> QED BY <1>1, <1>2, <1>3, <1>4 DEF Request

(* A step that leaves ledgers alone, or forgets the prepared one.           *)
LEMMA LeaveInv ==
  ASSUME IInv, NEW w \in Writers, NEW p \in {"idle", "read", "release"},
         pc[w] = "idle" => p = "idle",
         pc' = [pc EXCEPT ![w] = p], UNCHANGED file,
         store' = store \/ store' = [store EXCEPT ![w] = NoFile],
         call' = call \/ (p = "idle" /\ call' = [call EXCEPT ![w] = NoCall]),
         LedgerTypeOK'
  PROVE  IInv'
<1>1. Pending'
  BY DEF IInv, LedgerTypeOK, Pending
<1>2. Prepared'
  BY DEF IInv, LedgerTypeOK, Prepared
<1>3. Good(file') /\ \A v \in Writers : Good(store'[v])
  <2>1. Good(file) /\ Good(NoFile) /\ \A v \in Writers : Good(store[v])
    BY DEF IInv, Sound, Good
  <2>2. file' = file /\ \A v \in Writers : store'[v] \in {store[v], NoFile}
    BY DEF IInv, LedgerTypeOK
  <2> QED BY <2>1, <2>2
<1>4. Sound'
  BY <1>3, Zenon DEF Sound, Good, Agrees, Said, Begun
<1> QED BY <1>1, <1>2, <1>4 DEF IInv

LEMMA RereadInv ==
  ASSUME IInv, NEW w \in Writers, Reread(w)
  PROVE  IInv'
<1>1. pc[w] = "read" /\ WellMade(call[w])
  BY DEF Reread, IInv, Pending
<1>2. UNCHANGED <<file, lock, call, saved, answers, calls, epoch, unserialised>>
  BY DEF Reread
<1>3. CASE Refuses(call[w], file)
  <2>1. pc' = [pc EXCEPT ![w] = "release"] /\ UNCHANGED store
    BY <1>3 DEF Reread
  <2>2. LedgerTypeOK'
    BY <1>2, <2>1 DEF IInv, LedgerTypeOK
  <2> QED BY <1>1, <1>2, <2>1, <2>2, LeaveInv
<1>4. CASE ~Refuses(call[w], file)
  <2> DEFINE t == Applied(call[w], file)
  <2>1. t \in Ledger /\ t # NoFile /\ Good(t)
    BY <1>1, <1>4, AppliedGood DEF IInv, Sound
  <2>2. pc' = [pc EXCEPT ![w] = "save"] /\ store' = [store EXCEPT ![w] = t]
    BY <1>4 DEF Reread
  <2> HIDE DEF t
  <2>3. LedgerTypeOK'
    BY <1>2, <2>1, <2>2 DEF IInv, LedgerTypeOK
  <2>4. Pending' /\ Prepared'
    BY <1>1, <1>2, <2>1, <2>2 DEF IInv, LedgerTypeOK, Pending, Prepared
  <2>5. \A v \in Writers : Good(store'[v])
    BY <2>1, <2>2 DEF IInv, LedgerTypeOK, Sound
  <2>6. Good(file')
    BY <1>2 DEF IInv, Sound
  <2>7. Sound'
    BY <2>5, <2>6, Zenon DEF Sound, Good, Agrees, Said, Begun
  <2> QED BY <2>3, <2>4, <2>7 DEF IInv
<1> QED BY <1>3, <1>4

LEMMA SaveInv ==
  ASSUME IInv, NEW w \in Writers, save_store(w)
  PROVE  IInv'
<1>1. /\ pc[w] = "save" /\ file' = store[w] /\ saved' = [saved EXCEPT ![w] = epoch]
      /\ store' = [store EXCEPT ![w] = NoFile] /\ pc' = [pc EXCEPT ![w] = "release"]
      /\ UNCHANGED <<lock, call, answers, calls, epoch, unserialised>>
  BY DEF save_store
<1>2. LedgerTypeOK'
  BY <1>1 DEF IInv, LedgerTypeOK
<1>3. Pending' /\ Prepared'
  BY <1>1 DEF IInv, LedgerTypeOK, Pending, Prepared
<1>4. Good(store[w]) /\ Good(NoFile) /\ \A v \in Writers : Good(store[v])
  BY DEF IInv, Sound, Good
<1>5. Good(file') /\ \A v \in Writers : Good(store'[v])
  BY <1>1, <1>4 DEF IInv, LedgerTypeOK
<1>6. Sound'
  BY <1>5, Zenon DEF Sound, Good, Agrees, Said, Begun
<1> QED BY <1>2, <1>3, <1>6 DEF IInv

LEMMA QuietInv ==
  ASSUME IInv, UNCHANGED ledgerVars
  PROVE  IInv'
<1>1. LedgerTypeOK' /\ Pending' /\ Prepared'
  BY DEF ledgerVars, IInv, LedgerTypeOK, Pending, Prepared
<1>2. Sound'
  BY DEF ledgerVars, IInv, Sound, Good, Agrees, Said, Begun
<1> QED BY <1>1, <1>2 DEF IInv

LEMMA NextInv ==
  ASSUME IInv, [LedgerNext]_ledgerVars
  PROVE  IInv'
<1>1. ASSUME NEW w \in Writers, Request(w) PROVE IInv'
  BY <1>1, RequestInv
<1>2. ASSUME NEW w \in Writers, Acquire(w) PROVE IInv'
  <2>1. LedgerTypeOK'
    BY <1>2 DEF IInv, LedgerTypeOK, Acquire
  <2> QED BY <1>2, <2>1, LeaveInv DEF Acquire
<1>3. ASSUME NEW w \in Writers, Proceed(w) PROVE IInv'
  <2>1. LedgerTypeOK'
    BY <1>3 DEF IInv, LedgerTypeOK, Proceed
  <2> QED BY <1>3, <2>1, LeaveInv DEF Proceed
<1>4. ASSUME NEW w \in Writers, Reread(w) PROVE IInv'
  BY <1>4, RereadInv
<1>5. ASSUME NEW w \in Writers, save_store(w) PROVE IInv'
  BY <1>5, SaveInv
<1>6. ASSUME NEW w \in Writers, Fails(w) PROVE IInv'
  <2>1. LedgerTypeOK'
    BY <1>6 DEF IInv, LedgerTypeOK, Fails
  <2> QED BY <1>6, <2>1, LeaveInv DEF Fails
<1>7. ASSUME NEW w \in Writers, Finish(w) PROVE IInv'
  <2>1. saved[w] # NotSaved => [row |-> call[w], epoch |-> saved[w]] \in [row : Row, epoch : 0..MaxVanish]
    BY <1>7 DEF IInv, LedgerTypeOK, Pending, WellMade, Finish
  <2>2. answers' \in SUBSET [row : Row, epoch : 0..MaxVanish]
    BY <1>7, <2>1 DEF IInv, LedgerTypeOK, Finish
  <2>3. LedgerTypeOK'
    BY <1>7, <2>2 DEF IInv, LedgerTypeOK, Finish, Unlocked
  <2> QED BY <1>7, <2>3, LeaveInv DEF Finish
<1>8. ASSUME NEW w \in Writers, Kill(w) PROVE IInv'
  <2>1. LedgerTypeOK'
    BY <1>8 DEF IInv, LedgerTypeOK, Kill, Unlocked
  <2> QED BY <1>8, <2>1, LeaveInv DEF Kill
<1>9. CASE Vanish
  <2>1. LedgerTypeOK' /\ Pending' /\ Prepared'
    BY <1>9, LedgerAssumption DEF IInv, LedgerTypeOK, Pending, Prepared, Vanish
  <2>2. Sound'
    BY <1>9 DEF IInv, Sound, Good, Agrees, Said, Begun, Vanish
  <2> QED BY <2>1, <2>2 DEF IInv
<1>10. CASE UNCHANGED ledgerVars
  BY <1>10, QuietInv
<1> QED BY <1>1, <1>2, <1>3, <1>4, <1>5, <1>6, <1>7, <1>8, <1>9, <1>10 DEF LedgerNext, Work, Quiet

\* The strengthened invariant holds in every state, under every fault.
THEOREM Invariance == LedgerSpec => []IInv
<1> QED BY InitInv, NextInv, PTL DEF LedgerSpec

\* Every variable keeps its type, for any number of writers and under every
\* fault (gate_state.py:499).
THEOREM TypeCorrect == LedgerSpec => []LedgerTypeOK
<1>1. IInv => LedgerTypeOK
  BY DEF IInv
<1> QED BY <1>1, Invariance, PTL

\* The gates of the ledger are what its audit trail says, also when writers
\* are not serialised: an update that is lost is lost with its row
\* (gate_state.py:860).
THEOREM TrailIsTheRecord == LedgerSpec => []GatesMatchAudit
<1>1. IInv => GatesMatchAudit
  BY DEF IInv, Sound, Good, Agrees, Said, GatesMatchAudit
<1> QED BY <1>1, Invariance, PTL

\* Whatever is moved away and whoever writes, a ledger that exists was begun
\* by a signature or a binding of somebody who had found none
\* (gate_state.py:540).
THEOREM NeverResurrected == LedgerSpec => []EnrolledDeliberately
<1>1. IInv => EnrolledDeliberately
  BY DEF IInv, Sound, Good, Begun, EnrolledDeliberately
<1> QED BY <1>1, Invariance, PTL

-----------------------------------------------------------------------------
(* With a lock that works, a writer saves what it read, plus its row.       *)

Exclusive == \A w \in Writers : pc[w] \in {"read", "save", "release"} => lock = w

Builds(s, t, c) ==
  /\ RowsOf(s) \subseteq RowsOf(t)
  /\ c \in RowsOf(t)
  /\ s # NoFile /\ s.engagement # None => t.engagement = s.engagement

Fresh == \A w \in Writers : pc[w] = "save" => Builds(file, store[w], call[w])

Landed ==
  \A w \in Writers : saved[w] # NotSaved =>
    /\ pc[w] = "release"
    /\ saved[w] <= epoch
    /\ saved[w] = epoch => call[w] \in RowsOf(file)

NotAhead == \A a \in answers : a.epoch <= epoch

SInv == Exclusive /\ Fresh /\ Landed /\ NotAhead /\ Backed

LEMMA AppliedBuilds ==
  ASSUME NEW c, WellMade(c), NEW s, Good(s), ~Refuses(c, s)
  PROVE  Builds(s, Applied(c, s), c)
<1>1. RowsOf(s) \subseteq RowsOf(Applied(c, s)) /\ c \in RowsOf(Applied(c, s))
  BY AppliedGood
<1>2. Applied(c, s).engagement = Binding(c, s)
  BY DEF Applied
<1>3. s # NoFile /\ s.engagement # None => Binding(c, s) = s.engagement
  BY DEF Binding, Refuses
<1> QED BY <1>1, <1>2, <1>3 DEF Builds

LEMMA InitSInv == LedgerInit => SInv
BY DEF LedgerInit, SInv, Exclusive, Fresh, Landed, NotAhead, Backed

(* Nobody else is between reading and saving while one writer is.           *)
LEMMA Alone ==
  ASSUME SInv, LedgerAssumption, NEW w \in Writers, NEW v \in Writers, v # w,
         pc[w] \in {"read", "save", "release"}
  PROVE  pc[v] \in {"read", "save", "release"} => FALSE
BY DEF SInv, Exclusive

(* Answers stay backed while rows are only added and time stands still.     *)
LEMMA BackedGrows ==
  ASSUME SInv, UNCHANGED epoch, answers' = answers, RowsOf(file) \subseteq RowsOf(file')
  PROVE  NotAhead' /\ Backed'
<1>1. NotAhead'
  BY DEF SInv, NotAhead
<1>2. \A a \in answers : a.epoch = epoch =>
        IF a.row.event = "clear"
        THEN \A g \in GENERATOR_REQUIRES[a.row.subject] :
               \E r \in RowsOf(file') : r.event = "approved" /\ r.subject = g
        ELSE a.row \in RowsOf(file')
  BY DEF SInv, Backed
<1>3. RowsOf(file)' = RowsOf(file')
  BY DEF RowsOf
<1>4. Backed'
  BY <1>2, <1>3 DEF Backed
<1> QED BY <1>1, <1>4

LEMMA FreshStays ==
  ASSUME SInv, UNCHANGED <<file, pc, call, store>>
  PROVE  Fresh'
<1>1. \A v \in Writers : pc'[v] = "save" => Builds(file, store'[v], call'[v])
  BY DEF SInv, Fresh
<1>2. \A t, c : Builds(file, t, c) => Builds(file', t, c)
  OBVIOUS
<1>3. \A v \in Writers : pc'[v] = "save" => Builds(file', store'[v], call'[v])
  BY <1>1, <1>2
<1> QED BY <1>3, Zenon DEF Fresh, Builds, RowsOf

(* A step of one writer before it reads, or one that gives up.              *)
LEMMA AsideSInv ==
  ASSUME IInv, SInv, NEW w \in Writers, NEW p \in {"idle", "lock", "read", "release"},
         pc' = [pc EXCEPT ![w] = p], UNCHANGED <<file, answers, epoch>>,
         p = "read" => pc[w] = "lock" /\ lock = Free /\ lock' = w,
         p = "release" => pc[w] \in {"read", "save"} /\ lock' = lock,
         p \in {"idle", "lock"} => lock' \in {lock, Unlocked(w)},
         p = "lock" => pc[w] = "idle" /\ lock' = lock,
         \A v \in Writers : v # w => call'[v] = call[v] /\ store'[v] = store[v] /\ saved'[v] = saved[v],
         saved'[w] = NotSaved
  PROVE  SInv'
<1>1. Exclusive'
  BY LedgerAssumption DEF IInv, LedgerTypeOK, SInv, Exclusive, Unlocked
<1>2. Fresh'
  <2>1. \A v \in Writers : pc'[v] = "save" => v # w /\ pc[v] = "save"
    BY DEF IInv, LedgerTypeOK
  <2>2. \A v \in Writers : pc'[v] = "save" => Builds(file, store'[v], call'[v])
    BY <2>1 DEF SInv, Fresh
  <2> QED BY <2>2, Zenon DEF Fresh, Builds, RowsOf
<1>3. Landed'
  BY DEF IInv, LedgerTypeOK, SInv, Landed, RowsOf
<1>4. NotAhead' /\ Backed'
  BY BackedGrows
<1> QED BY <1>1, <1>2, <1>3, <1>4 DEF SInv

LEMMA NotSavedYet ==
  ASSUME SInv, NEW w \in Writers, pc[w] # "release"
  PROVE  saved[w] = NotSaved
BY DEF SInv, Landed

LEMMA AskSInv ==
  ASSUME IInv, SInv, NEW w \in Writers, NEW event, NEW subject, NEW declared, NEW found,
         Ask(w, event, subject, declared, found)
  PROVE  SInv'
<1>1. \A v \in Writers : v # w => call'[v] = call[v] /\ store'[v] = store[v] /\ saved'[v] = saved[v]
  BY DEF Ask, IInv, LedgerTypeOK
<1>2. saved'[w] = NotSaved
  BY DEF Ask, IInv, LedgerTypeOK
<1> QED BY <1>1, <1>2, AsideSInv DEF Ask

(* A clear verdict rests on approvals, and these on their rows.             *)
LEMMA ClearSInv ==
  ASSUME IInv, SInv, NEW w \in Writers, NEW gen \in Generated, NEW e, EnforceClear(w, gen, e)
  PROVE  SInv'
<1> DEFINE c == [id |-> calls + 1, event |-> "clear", subject |-> gen,
                 declared |-> e, found |-> TRUE]
<1>1. /\ answers' = answers \cup {[row |-> c, epoch |-> epoch]}
      /\ UNCHANGED <<file, lock, pc, call, store, saved, epoch>>
      /\ file # NoFile /\ missing_approvals(file, gen) = {}
  BY DEF EnforceClear
<1>2. \A g \in GENERATOR_REQUIRES[gen] : g \in GATE_KEYS /\ file.gates[g] = "approved"
  <2>1. gen \in {"design", "mop"}
    BY LedgerAssumption DEF Generators, GENERATOR_REQUIRES
  <2>2. \A g \in GENERATOR_REQUIRES[gen] : g \in GATE_KEYS
    BY <2>1 DEF GENERATOR_REQUIRES, GATE_KEYS
  <2> QED BY <1>1, <2>2 DEF missing_approvals, is_approved
<1>3. \A g \in GATE_KEYS : file.gates[g] = "approved" =>
        \E r \in RowsOf(file) : r.event = "approved" /\ r.subject = g
  <2> SUFFICES ASSUME NEW g \in GATE_KEYS, file.gates[g] = "approved"
               PROVE  \E r \in RowsOf(file) : r.event = "approved" /\ r.subject = g
    OBVIOUS
  <2>1. Agrees(file)
    BY <1>1 DEF IInv, Sound, Good
  <2>2. PICK i \in Said(file, g) : file.gates[g] = file.audit[i].event
    BY <2>1 DEF Agrees
  <2>3. i \in DOMAIN file.audit /\ file.audit[i].subject = g /\ file.audit[i].event = "approved"
    BY <2>2 DEF Said
  <2> QED BY <1>1, <2>3 DEF RowsOf
<1>4. Exclusive' /\ Fresh' /\ Landed'
  <2>1. Exclusive' /\ Landed'
    BY <1>1 DEF SInv, Exclusive, Landed, RowsOf
  <2>2. Fresh'
    BY <1>1, FreshStays
  <2> QED BY <2>1, <2>2
<1>5. NotAhead'
  BY <1>1 DEF IInv, LedgerTypeOK, SInv, NotAhead
<1>6. RowsOf(file)' = RowsOf(file)
  BY <1>1 DEF RowsOf
<1>7. Backed'
  <2> SUFFICES ASSUME NEW a \in answers', a.epoch = epoch'
               PROVE  IF a.row.event = "clear"
                      THEN \A g \in GENERATOR_REQUIRES[a.row.subject] :
                             \E r \in RowsOf(file)' : r.event = "approved" /\ r.subject = g
                      ELSE a.row \in RowsOf(file)'
    BY Zenon DEF Backed
  <2>1. CASE a \in answers
    BY <1>1, <1>6, <2>1 DEF SInv, Backed
  <2>2. CASE a = [row |-> c, epoch |-> epoch]
    BY <1>2, <1>3, <1>6, <2>2
  <2> QED BY <1>1, <2>1, <2>2
<1> QED BY <1>4, <1>5, <1>7 DEF SInv

LEMMA RereadSInv ==
  ASSUME IInv, SInv, NEW w \in Writers, Reread(w)
  PROVE  SInv'
<1>1. /\ pc[w] = "read" /\ WellMade(call[w])
      /\ UNCHANGED <<file, lock, call, saved, answers, calls, epoch>>
  BY DEF Reread, IInv, Pending
<1>2. CASE Refuses(call[w], file)
  <2>1. pc' = [pc EXCEPT ![w] = "release"] /\ UNCHANGED store
    BY <1>2 DEF Reread
  <2>2. saved'[w] = NotSaved
    BY <1>1, NotSavedYet
  <2> QED BY <1>1, <2>1, <2>2, AsideSInv
<1>3. CASE ~Refuses(call[w], file)
  <2>1. Builds(file, Applied(call[w], file), call[w])
    BY <1>1, <1>3, AppliedBuilds DEF IInv, Sound
  <2>2. pc' = [pc EXCEPT ![w] = "save"] /\ store' = [store EXCEPT ![w] = Applied(call[w], file)]
    BY <1>3 DEF Reread
  <2>3. Exclusive'
    BY <1>1, <2>2 DEF IInv, LedgerTypeOK, SInv, Exclusive
  <2>4. \A v \in Writers : pc'[v] = "save" => Builds(file, store'[v], call[v])
    BY <2>1, <2>2 DEF IInv, LedgerTypeOK, SInv, Fresh
  <2>5. Fresh'
    BY <1>1, <2>4, Zenon DEF Fresh, Builds, RowsOf
  <2>6. Landed'
    BY <1>1, <2>2 DEF IInv, LedgerTypeOK, SInv, Landed, RowsOf
  <2>7. NotAhead' /\ Backed'
    BY <1>1, BackedGrows
  <2> QED BY <2>3, <2>5, <2>6, <2>7 DEF SInv
<1> QED BY <1>2, <1>3

LEMMA SaveSInv ==
  ASSUME IInv, SInv, NEW w \in Writers, save_store(w)
  PROVE  SInv'
<1>1. /\ pc[w] = "save" /\ file' = store[w] /\ saved' = [saved EXCEPT ![w] = epoch]
      /\ store' = [store EXCEPT ![w] = NoFile] /\ pc' = [pc EXCEPT ![w] = "release"]
      /\ UNCHANGED <<lock, call, answers, calls, epoch>>
  BY DEF save_store
<1>2. \A v \in Writers : v # w => pc[v] \notin {"read", "save", "release"}
  BY <1>1, LedgerAssumption, Alone
<1>3. Exclusive'
  BY <1>1 DEF IInv, LedgerTypeOK, SInv, Exclusive
<1>4. Fresh'
  BY <1>1, <1>2 DEF IInv, LedgerTypeOK, Fresh
<1>5. RowsOf(file) \subseteq RowsOf(file') /\ call[w] \in RowsOf(file')
  BY <1>1 DEF SInv, Fresh, Builds
<1>6. \A v \in Writers : saved'[v] # NotSaved => v = w
  BY <1>1, <1>2, NotSavedYet DEF IInv, LedgerTypeOK
<1>7. saved'[w] <= epoch
  BY <1>1 DEF IInv, LedgerTypeOK
<1>8. RowsOf(file)' = RowsOf(file')
  BY DEF RowsOf
<1>9. Landed'
  BY <1>1, <1>5, <1>6, <1>7, <1>8 DEF IInv, LedgerTypeOK, Landed
<1>10. NotAhead' /\ Backed'
  BY <1>1, <1>5, BackedGrows
<1> QED BY <1>3, <1>4, <1>9, <1>10 DEF SInv

LEMMA FinishSInv ==
  ASSUME IInv, SInv, NEW w \in Writers, Finish(w)
  PROVE  SInv'
<1> DEFINE a0 == [row |-> call[w], epoch |-> saved[w]]
<1>1. /\ pc[w] = "release" /\ lock' = Unlocked(w) /\ pc' = [pc EXCEPT ![w] = "idle"]
      /\ saved' = [saved EXCEPT ![w] = NotSaved] /\ call' = [call EXCEPT ![w] = NoCall]
      /\ UNCHANGED <<file, store, calls, epoch>>
  BY DEF Finish
<1>2. Exclusive'
  BY <1>1 DEF IInv, LedgerTypeOK, SInv, Exclusive, Unlocked
<1>3. Fresh'
  BY <1>1 DEF IInv, LedgerTypeOK, SInv, Fresh, Builds, RowsOf
<1>4. Landed'
  BY <1>1 DEF IInv, LedgerTypeOK, SInv, Landed, RowsOf
<1>5. CASE saved[w] = NotSaved
  <2>1. answers' = answers
    BY <1>5 DEF Finish
  <2> QED BY <1>1, <1>2, <1>3, <1>4, <2>1, BackedGrows DEF SInv
<1>6. CASE saved[w] # NotSaved
  <2>1. answers' = answers \cup {a0}
    BY <1>6 DEF Finish
  <2>2. /\ saved[w] <= epoch
        /\ saved[w] = epoch => call[w] \in RowsOf(file)
        /\ call[w].event # "clear"
    BY <1>1, <1>6 DEF SInv, Landed, IInv, Pending, WellMade, Decisions, Attempts
  <2>3. NotAhead'
    BY <1>1, <2>1, <2>2 DEF SInv, NotAhead
  <2>4. RowsOf(file)' = RowsOf(file)
    BY <1>1 DEF RowsOf
  <2>5. Backed'
    <3> SUFFICES ASSUME NEW a \in answers', a.epoch = epoch'
                 PROVE  IF a.row.event = "clear"
                        THEN \A g \in GENERATOR_REQUIRES[a.row.subject] :
                               \E r \in RowsOf(file)' : r.event = "approved" /\ r.subject = g
                        ELSE a.row \in RowsOf(file)'
      BY Zenon DEF Backed
    <3>1. CASE a \in answers
      BY <1>1, <2>4, <3>1 DEF SInv, Backed
    <3>2. CASE a = a0
      BY <1>1, <2>2, <2>4, <3>2
    <3> QED BY <2>1, <3>1, <3>2
  <2> QED BY <1>2, <1>3, <1>4, <2>3, <2>5 DEF SInv
<1> QED BY <1>5, <1>6

LEMMA VanishSInv ==
  ASSUME IInv, SInv, Vanish
  PROVE  SInv'
<1>1. /\ file' = NoFile /\ epoch' = epoch + 1 /\ epoch \in Nat
      /\ UNCHANGED <<lock, pc, call, store, saved, answers, calls>>
  BY DEF Vanish, IInv, LedgerTypeOK
<1>2. Exclusive'
  BY <1>1 DEF SInv, Exclusive
<1>3. Fresh'
  BY <1>1 DEF SInv, Fresh, Builds, RowsOf
<1>4. \A a \in answers : a.epoch <= epoch /\ a.epoch \in Int
  BY DEF IInv, LedgerTypeOK, SInv, NotAhead
<1>5. NotAhead' /\ Backed'
  BY <1>1, <1>4 DEF NotAhead, Backed
<1>6. \A w \in Writers : saved[w] # NotSaved => saved[w] <= epoch /\ saved[w] \in Int /\ pc[w] = "release"
  BY DEF IInv, LedgerTypeOK, SInv, Landed
<1>7. Landed'
  BY <1>1, <1>6 DEF Landed
<1> QED BY <1>2, <1>3, <1>5, <1>7 DEF SInv

LEMMA QuietSInv ==
  ASSUME SInv, UNCHANGED ledgerVars
  PROVE  SInv'
<1>1. Exclusive' /\ Landed' /\ NotAhead'
  BY DEF ledgerVars, SInv, Exclusive, Landed, NotAhead, RowsOf
<1>2. Fresh'
  BY FreshStays DEF ledgerVars
<1>3. Backed'
  BY DEF ledgerVars, SInv, Backed, RowsOf
<1> QED BY <1>1, <1>2, <1>3 DEF SInv

LEMMA NextSInv ==
  ASSUME ~unserialised', IInv, SInv, [LedgerNext]_ledgerVars
  PROVE  SInv'
<1>1. ASSUME NEW w \in Writers, Request(w) PROVE SInv'
  <2>1. ASSUME NEW g \in Signed, NEW d \in Decisions, NEW e \in Declarations,
               record_decision(w, g, d, e)
        PROVE  SInv'
    BY <2>1, AskSInv DEF record_decision
  <2>2. ASSUME NEW e \in Engagements, bind_engagement(w, e) PROVE SInv'
    BY <2>2, AskSInv DEF bind_engagement
  <2>3. ASSUME NEW gen \in Generated, NEW ev \in Attempts, NEW e \in Declarations,
               EnforceMissing(w, gen, ev, e)
        PROVE  SInv'
    BY <2>3, AskSInv DEF EnforceMissing
  <2> QED BY <1>1, <2>1, <2>2, <2>3, ClearSInv DEF Request
<1>2. ASSUME NEW w \in Writers, Acquire(w) PROVE SInv'
  <2>1. saved'[w] = NotSaved
    BY <1>2, NotSavedYet DEF Acquire
  <2> QED BY <1>2, <2>1, AsideSInv DEF Acquire
<1>3. ASSUME NEW w \in Writers, Proceed(w) PROVE SInv'
  BY <1>3 DEF Proceed
<1>4. ASSUME NEW w \in Writers, Fails(w) PROVE SInv'
  <2>1. saved'[w] = NotSaved
    BY <1>4, NotSavedYet DEF Fails
  <2>2. \A v \in Writers : v # w => store'[v] = store[v]
    BY <1>4 DEF Fails, IInv, LedgerTypeOK
  <2> QED BY <1>4, <2>1, <2>2, AsideSInv DEF Fails
<1>5. ASSUME NEW w \in Writers, Kill(w) PROVE SInv'
  <2>1. \A v \in Writers : v # w => call'[v] = call[v] /\ store'[v] = store[v] /\ saved'[v] = saved[v]
    BY <1>5 DEF Kill, IInv, LedgerTypeOK
  <2>2. saved'[w] = NotSaved
    BY <1>5 DEF Kill, IInv, LedgerTypeOK
  <2> QED BY <1>5, <2>1, <2>2, AsideSInv DEF Kill
<1>6. CASE UNCHANGED ledgerVars
  BY <1>6, QuietSInv
<1> QED BY <1>1, <1>2, <1>3, <1>4, <1>5, <1>6, RereadSInv, SaveSInv, FinishSInv, VanishSInv
    DEF LedgerNext, Work, Quiet

(* The warning, once logged, stays.                                         *)
LEMMA WarningStays ==
  ASSUME [LedgerNext]_ledgerVars, unserialised
  PROVE  unserialised'
BY DEF LedgerNext, Work, Request, record_decision, bind_engagement, EnforceMissing, EnforceClear, Ask,
       Acquire, Proceed, Reread, save_store, Fails, Finish, Kill, Vanish, Quiet, ledgerVars

(* Until somebody goes on without the lock, writers are serialised.         *)
LEMMA SerialisedInv == LedgerSpec => [](IInv /\ (unserialised \/ SInv))
<1>1. LedgerInit => IInv /\ (unserialised \/ SInv)
  BY InitInv, InitSInv
<1>2. IInv /\ (unserialised \/ SInv) /\ [LedgerNext]_ledgerVars => (IInv /\ (unserialised \/ SInv))'
  <2> SUFFICES ASSUME IInv, unserialised \/ SInv, [LedgerNext]_ledgerVars
               PROVE  IInv' /\ (unserialised' \/ SInv')
    OBVIOUS
  <2>1. CASE unserialised'
    BY <2>1, NextInv
  <2>2. CASE ~unserialised'
    <3>1. SInv
      BY <2>2, WarningStays
    <3> QED BY <2>2, <3>1, NextInv, NextSInv
  <2> QED BY <2>1, <2>2
<1> QED BY <1>1, <1>2, PTL DEF LedgerSpec

\* As long as nobody goes on without the lock, no writer's save drops what
\* another had saved: every acknowledged row, and every row a clear verdict
\* rests on, is in the ledger as long as the file is (gate_state.py:537).
THEOREM NothingLost == LedgerSpec => []AnswersBacked
<1>1. IInv /\ (unserialised \/ SInv) => AnswersBacked
  BY DEF SInv, AnswersBacked
<1> QED BY <1>1, SerialisedInv, PTL

\* As long as nobody goes on without the lock, no ledger is bound to a second
\* engagement (gate_state.py:1011).
THEOREM BindingsKept == LedgerSpec => BindingKept
<1>1. IInv /\ (unserialised \/ SInv) /\ [LedgerNext]_ledgerVars =>
        [file # NoFile /\ file' # NoFile /\ file.engagement # None /\ ~unserialised
           => file'.engagement = file.engagement]_ledgerVars
  <2> SUFFICES ASSUME SInv, LedgerNext, file' # file, file # NoFile, file' # NoFile, file.engagement # None
               PROVE  file'.engagement = file.engagement
    BY DEF ledgerVars
  <2>1. PICK w \in Writers : save_store(w)
    BY DEF LedgerNext, Work, Request, record_decision, bind_engagement, EnforceMissing, EnforceClear, Ask,
           Acquire, Proceed, Reread, Fails, Finish, Kill, Vanish, Quiet, ledgerVars
  <2> QED BY <2>1 DEF save_store, SInv, Fresh, Builds
<1> QED BY <1>1, SerialisedInv, PTL DEF LedgerSpec, BindingKept
=============================================================================
