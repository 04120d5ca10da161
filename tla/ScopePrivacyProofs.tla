------------------------- MODULE ScopePrivacyProofs -------------------------
(***************************************************************************)
(* That no server, of any number with any number of threads, answers a     *)
(* request with a viewer that embeds a snapshot stored before the request  *)
(* began, and that a withdrawal lasts as long as its server.               *)
(***************************************************************************)
EXTENDS ScopePrivacy, TLAPS

(* Ids are given once: what is stored, was stored, or has been passed is    *)
(* not above the largest id committed.                                      *)
IdsGiven ==
  /\ \A r \in table : r.id <= lastRowId
  /\ \A s \in Servers : watermark[s] <= lastRowId
  /\ \A s \in Servers, q \in Requests : \A r \in stored[s][q] : r.embeds /\ r.id <= lastRowId

Locked(s, q) == at[s][q] \in {"locked", "read"}
LockHeld == \A s \in Servers, q \in Requests : Locked(s, q) => recheck[s] = q

(* A request that has read has passed all that was stored when it began.    *)
Passed ==
  \A s \in Servers, q \in Requests :
    at[s][q] = "read" => \A r \in stored[s][q] \cap table : r.id <= watermark[s]

IInv == ScopeTypeOK /\ IdsGiven /\ LockHeld /\ Passed /\ PassedIsClean /\ NeverServedOverStored

-----------------------------------------------------------------------------
(* What a thread's entry of a server's function becomes.                    *)
LEMMA UpdateEntry ==
  ASSUME NEW S, NEW R, NEW T, NEW f \in [S -> [R -> T]], NEW s \in S, NEW r \in R, NEW v \in T,
         NEW g, g = [f EXCEPT ![s][r] = v]
  PROVE  /\ g \in [S -> [R -> T]]
         /\ \A t \in S, u \in R : g[t][u] = IF t = s /\ u = r THEN v ELSE f[t][u]
OBVIOUS

LEMMA Numbers == ASSUME IInv PROVE lastRowId \in Nat /\ lastRowId <= MaxIds /\ MaxIds \in Nat
<1>1. lastRowId \in 0..MaxIds /\ MaxIds \in Nat
  BY ScopeAssumption DEF IInv, ScopeTypeOK
<1> QED BY <1>1

LEMMA InitInv == ScopeInit => IInv
<1> SUFFICES ASSUME ScopeInit PROVE IInv
  OBVIOUS
<1>1. ScopeTypeOK
  BY ScopeAssumption DEF ScopeInit, ScopeTypeOK
<1>2. IdsGiven /\ LockHeld /\ Passed /\ PassedIsClean /\ NeverServedOverStored
  BY DEF ScopeInit, IdsGiven, LockHeld, Locked, Passed, PassedIsClean, NeverServedOverStored
<1> QED BY <1>1, <1>2 DEF IInv

(* The highest id seen is of a row, or the watermark, and above every row.   *)
LEMMA Highest ==
  ASSUME IInv, NEW s \in Servers, NEW n \in 0..MaxIds + 1, IsHighest(s, n)
  PROVE  /\ n \in 0..MaxIds /\ n <= lastRowId /\ n >= watermark[s]
         /\ \A r \in table : r.id <= n
<1>1. \A r \in table : r \in StoredRow /\ r.id <= lastRowId
  BY DEF IInv, ScopeTypeOK, IdsGiven
<1>2. n = watermark[s] \/ \E r \in table : n = r.id /\ r.id > watermark[s]
  BY DEF IsHighest, NewRows
<1>3. \A r \in table : r.id > watermark[s] => r.id <= n
  BY DEF IsHighest, NewRows
<1>4. watermark[s] \in 0..MaxIds /\ watermark[s] <= lastRowId
  BY DEF IInv, ScopeTypeOK, IdsGiven
<1> QED BY <1>1, <1>2, <1>3, <1>4, ScopeAssumption DEF StoredRow

LEMMA BootInv == ASSUME IInv, NEW s \in Servers, Boot(s) PROVE IInv'
<1>1. PICK n \in 0..MaxIds + 1 : IsHighest(s, n) /\ watermark' = [watermark EXCEPT ![s] = n]
  BY DEF Boot
<1>2. n \in 0..MaxIds /\ n <= lastRowId /\ \A r \in table : r.id <= n
  BY <1>1, Highest
<1>3. /\ status' = [status EXCEPT ![s] = IF Embedded(table) = {} THEN "ready" ELSE "refused"]
      /\ UNCHANGED <<table, lastRowId, insert, recheck, at, hits, stored>>
  BY DEF Boot
<1>4. \A t \in Servers : watermark'[t] = IF t = s THEN n ELSE watermark[t]
  BY <1>1 DEF IInv, ScopeTypeOK
<1>5. ScopeTypeOK'
  BY <1>1, <1>2, <1>3 DEF IInv, ScopeTypeOK
<1>6. IdsGiven' /\ LockHeld'
  BY <1>2, <1>3, <1>4 DEF IInv, IdsGiven, LockHeld, Locked
<1>7. Passed'
  BY <1>2, <1>3, <1>4 DEF IInv, Passed
<1>8. status'[s] = "ready" => Embedded(table) = {}
  BY <1>3 DEF IInv, ScopeTypeOK
<1>9. \A t \in Servers : t # s => status'[t] = status[t]
  BY <1>3 DEF IInv, ScopeTypeOK
<1>10. PassedIsClean'
  BY <1>3, <1>4, <1>8, <1>9 DEF IInv, PassedIsClean, Embedded
<1>11. \A q \in Requests : \A r \in stored[s][q] : r.embeds
  BY DEF IInv, IdsGiven
<1>12. NeverServedOverStored'
  BY <1>3, <1>8, <1>9, <1>11 DEF IInv, NeverServedOverStored, Embedded
<1> QED BY <1>5, <1>6, <1>7, <1>10, <1>12 DEF IInv

LEMMA CrashInv == ASSUME IInv, NEW s \in Servers, Crash(s) PROVE IInv'
<1>1. /\ insert' \in [Servers -> {"none", "embeds", "plain", "observed embeds", "observed plain"}]
      /\ status' \in [Servers -> {"down", "ready", "refused"}]
      /\ table' = table /\ lastRowId' = lastRowId
  BY DEF IInv, ScopeTypeOK, Crash
<1>2. watermark' \in [Servers -> 0..MaxIds] /\ recheck' \in [Servers -> Requests \cup {Nobody}]
  <2>1. 0 \in 0..MaxIds /\ Nobody \in Requests \cup {Nobody}
    BY Numbers
  <2>2. watermark \in [Servers -> 0..MaxIds] /\ recheck \in [Servers -> Requests \cup {Nobody}]
    BY DEF IInv, ScopeTypeOK
  <2>3. watermark' = [watermark EXCEPT ![s] = 0] /\ recheck' = [recheck EXCEPT ![s] = Nobody]
    BY DEF Crash
  <2> QED BY <2>1, <2>2, <2>3
<1>3. at' \in [Servers -> [Requests -> {"idle", "begun", "waiting", "locked", "read", "answer"}]]
  BY DEF IInv, ScopeTypeOK, Crash
<1>4. hits' \in [Servers -> [Requests -> BOOLEAN]] /\ stored' \in [Servers -> [Requests -> SUBSET StoredRow]]
  BY DEF IInv, ScopeTypeOK, Crash
<1>5. ScopeTypeOK'
  BY <1>1, <1>2, <1>3, <1>4 DEF IInv, ScopeTypeOK
<1>6. /\ status'[s] = "down" /\ watermark'[s] = 0
      /\ \A q \in Requests : at'[s][q] = "idle" /\ stored'[s][q] = {}
  BY DEF IInv, ScopeTypeOK, Crash
<1>7. ASSUME NEW t \in Servers, t # s
      PROVE  /\ status'[t] = status[t] /\ watermark'[t] = watermark[t] /\ recheck'[t] = recheck[t]
             /\ at'[t] = at[t] /\ hits'[t] = hits[t] /\ stored'[t] = stored[t]
  BY <1>7 DEF IInv, ScopeTypeOK, Crash
<1>8. 0 <= lastRowId
  BY Numbers
<1>9. IdsGiven' /\ LockHeld' /\ Passed'
  <2>1. IdsGiven'
    BY <1>1, <1>6, <1>7, <1>8 DEF IInv, IdsGiven
  <2>2. LockHeld'
    BY <1>6, <1>7 DEF IInv, LockHeld, Locked
  <2>3. Passed'
    BY <1>1, <1>6, <1>7 DEF IInv, Passed
  <2> QED BY <2>1, <2>2, <2>3
<1>10. PassedIsClean' /\ NeverServedOverStored'
  <2>1. \A t \in Servers : status'[t] = "ready" => t # s
    BY <1>6
  <2>2. \A q \in Requests : at'[s][q] # "answer"
    BY <1>6
  <2>3. Embedded(table') = Embedded(table) /\ table' = table
    BY <1>1 DEF Embedded
  <2>4. PassedIsClean /\ NeverServedOverStored
    BY DEF IInv
  <2>5. ASSUME NEW t \in Servers, status'[t] = "ready"
        PROVE  \/ \A r \in Embedded(table') : r.id > watermark'[t]
               \/ \E q \in Requests : recheck'[t] = q /\ at'[t][q] = "read" /\ hits'[t][q]
    <3>1. /\ status'[t] = status[t] /\ watermark'[t] = watermark[t] /\ recheck'[t] = recheck[t]
          /\ at'[t] = at[t] /\ hits'[t] = hits[t]
      BY <1>7, <2>1, <2>5
    <3> QED BY <2>3, <2>4, <2>5, <3>1 DEF PassedIsClean
  <2>6. ASSUME NEW t \in Servers, NEW q \in Requests, at'[t][q] = "answer", status'[t] = "ready"
        PROVE  stored'[t][q] \cap table' = {}
    <3>1. status'[t] = status[t] /\ at'[t] = at[t] /\ stored'[t] = stored[t]
      BY <1>7, <2>1, <2>6
    <3> QED BY <2>3, <2>4, <2>6, <3>1 DEF NeverServedOverStored
  <2>7. PassedIsClean'
    BY <2>5 DEF PassedIsClean
  <2>8. NeverServedOverStored'
    BY <2>6 DEF NeverServedOverStored
  <2> QED BY <2>7, <2>8
<1> QED BY <1>5, <1>9, <1>10 DEF IInv

(* Steps on the table of snapshots.                                         *)
LEMMA InsertInv ==
  ASSUME IInv, NEW s \in Servers, BeginInsert(s) \/ Rollback(s) \/ Observe(s)
  PROVE  IInv'
<1>1. UNCHANGED <<table, lastRowId, watermark, recheck, at, hits, stored>>
  BY DEF BeginInsert, Rollback, Observe, scope, request
<1>2. insert' \in [Servers -> {"none", "embeds", "plain", "observed embeds", "observed plain"}]
  BY DEF IInv, ScopeTypeOK, BeginInsert, Rollback, Observe, Observed
<1>3. status' \in [Servers -> {"down", "ready", "refused"}]
  BY DEF IInv, ScopeTypeOK, BeginInsert, Rollback, Observe, scope
<1>4. \A t \in Servers : status'[t] = "ready" => status[t] = "ready"
  BY DEF IInv, ScopeTypeOK, BeginInsert, Rollback, Observe, scope
<1>5. ScopeTypeOK'
  BY <1>1, <1>2, <1>3 DEF IInv, ScopeTypeOK
<1>6. IdsGiven' /\ LockHeld' /\ Passed'
  BY <1>1 DEF IInv, IdsGiven, LockHeld, Locked, Passed
<1>7. PassedIsClean' /\ NeverServedOverStored'
  BY <1>1, <1>4 DEF IInv, PassedIsClean, NeverServedOverStored, Embedded
<1> QED BY <1>5, <1>6, <1>7 DEF IInv

LEMMA CommitInv == ASSUME IInv, NEW s \in Servers, Commit(s), lastRowId < MaxIds PROVE IInv'
<1> DEFINE n == [id |-> lastRowId + 1, embeds |-> insert[s] = "observed embeds"]
<1>1. /\ table' = table \cup {n} /\ lastRowId' = lastRowId + 1
      /\ insert' = [insert EXCEPT ![s] = "none"]
      /\ UNCHANGED <<status, watermark, recheck, at, hits, stored>>
  BY DEF Commit, scope, request
<1>2. /\ lastRowId \in 0..MaxIds /\ MaxIds \in Nat
      /\ lastRowId \in Nat /\ lastRowId + 1 \in 1..MaxIds
  BY Numbers
<1>a. (insert[s] = "observed embeds") \in BOOLEAN
  OBVIOUS
<1>b. n \in StoredRow /\ n.id = lastRowId + 1
  BY <1>2, <1>a DEF StoredRow
<1> HIDE DEF n
<1>3. ScopeTypeOK'
  <2>1. table' \subseteq StoredRow /\ lastRowId' \in 0..MaxIds
    <3>1. table \subseteq StoredRow
      BY DEF IInv, ScopeTypeOK
    <3> QED BY <1>1, <1>2, <1>b, <3>1
  <2>2. insert' \in [Servers -> {"none", "embeds", "plain", "observed embeds", "observed plain"}]
    BY <1>1 DEF IInv, ScopeTypeOK
  <2> QED BY <1>1, <2>1, <2>2 DEF IInv, ScopeTypeOK
<1>4. IdsGiven'
  <2>1. \A r \in StoredRow : r.id <= lastRowId => r.id <= lastRowId + 1
    <3>1. \A r \in StoredRow : r.id \in 1..MaxIds
      BY DEF StoredRow
    <3> QED BY <1>2, <3>1
  <2>2. \A t \in Servers : watermark[t] <= lastRowId + 1
    <3>1. \A t \in Servers : watermark[t] \in 0..MaxIds /\ watermark[t] <= lastRowId
      BY DEF IInv, ScopeTypeOK, IdsGiven
    <3> QED BY <1>2, <3>1
  <2>3. \A r \in table : r \in StoredRow /\ r.id <= lastRowId
    BY DEF IInv, ScopeTypeOK, IdsGiven
  <2>4. \A t \in Servers, q \in Requests : \A r \in stored[t][q] : r.embeds /\ r \in StoredRow /\ r.id <= lastRowId
    BY DEF IInv, ScopeTypeOK, IdsGiven
  <2>5. n.id <= lastRowId + 1
    BY <1>2, <1>b
  <2> QED BY <1>1, <2>1, <2>2, <2>3, <2>4, <2>5 DEF IdsGiven
<1>5. LockHeld'
  BY <1>1 DEF IInv, LockHeld, Locked
<1>6. \A t \in Servers, q \in Requests : stored[t][q] \cap table' = stored[t][q] \cap table
  <2>1. \A t \in Servers, q \in Requests : \A r \in stored[t][q] : r.id <= lastRowId /\ r.id \in Nat
    <3>1. \A r \in StoredRow : r.id \in Nat
      BY DEF StoredRow
    <3> QED BY <3>1 DEF IInv, ScopeTypeOK, IdsGiven
  <2>2. \A t \in Servers, q \in Requests : n \notin stored[t][q]
    BY <1>2, <1>b, <2>1
  <2> QED BY <1>1, <2>2
<1>7. Passed' /\ NeverServedOverStored'
  BY <1>1, <1>6 DEF IInv, Passed, NeverServedOverStored
<1>8. \A t \in Servers : n.id > watermark[t]
  <2>1. \A t \in Servers : watermark[t] \in 0..MaxIds /\ watermark[t] <= lastRowId
    BY DEF IInv, ScopeTypeOK, IdsGiven
  <2> QED BY <1>2, <1>b, <2>1
<1>9. PassedIsClean'
  BY <1>1, <1>8 DEF IInv, PassedIsClean, Embedded
<1> QED BY <1>3, <1>4, <1>5, <1>7, <1>9 DEF IInv

LEMMA DeleteInv == ASSUME IInv, NEW s \in Servers, Delete(s) PROVE IInv'
<1>1. table' \subseteq table /\ UNCHANGED <<lastRowId, insert, status, watermark, recheck, at, hits, stored>>
  BY DEF Delete, scope, request
<1>2. ScopeTypeOK' /\ IdsGiven' /\ LockHeld' /\ Passed'
  BY <1>1 DEF IInv, ScopeTypeOK, IdsGiven, LockHeld, Locked, Passed
<1>3. PassedIsClean' /\ NeverServedOverStored'
  BY <1>1 DEF IInv, PassedIsClean, NeverServedOverStored, Embedded
<1> QED BY <1>2, <1>3 DEF IInv

-----------------------------------------------------------------------------
(* Steps of a request.                                                      *)

\* Only this request moves, and not with the watermark.
LEMMA MoveInv ==
  ASSUME IInv, NEW s \in Servers, NEW q \in Requests,
         NEW p \in {"idle", "begun", "waiting", "locked", "answer"},
         at' = [at EXCEPT ![s][q] = p],
         UNCHANGED <<table, lastRowId, insert, status, watermark>>,
         hits' = hits \/ hits' = [hits EXCEPT ![s][q] = FALSE],
         at[s][q] # "read",
         p = "answer" => status[s] # "ready",
         \/ stored' = stored
         \/ stored' = [stored EXCEPT ![s][q] = Embedded(table)]
         \/ stored' = [stored EXCEPT ![s][q] = {}],
         \/ p # "locked" /\ recheck' = recheck
         \/ p = "locked" /\ recheck[s] = Nobody /\ recheck' = [recheck EXCEPT ![s] = q]
  PROVE  IInv'
<1>1. Embedded(table) \in SUBSET StoredRow /\ \A r \in Embedded(table) : r.embeds /\ r.id <= lastRowId
  BY DEF IInv, ScopeTypeOK, IdsGiven, Embedded
<1>2. /\ stored' \in [Servers -> [Requests -> SUBSET StoredRow]]
      /\ \A t \in Servers, u \in Requests :
           \/ stored'[t][u] = stored[t][u]
           \/ t = s /\ u = q /\ stored'[t][u] \in {Embedded(table), {}}
  <2>1. stored \in [Servers -> [Requests -> SUBSET StoredRow]] /\ {} \in SUBSET StoredRow
    BY DEF IInv, ScopeTypeOK
  <2>2. CASE stored' = stored
    BY <2>1, <2>2, Zenon
  <2>3. CASE stored' = [stored EXCEPT ![s][q] = Embedded(table)]
    BY <1>1, <2>1, <2>3, UpdateEntry
  <2>4. CASE stored' = [stored EXCEPT ![s][q] = {}]
    BY <2>1, <2>4, UpdateEntry
  <2> QED BY <2>2, <2>3, <2>4
<1>3. /\ hits' \in [Servers -> [Requests -> BOOLEAN]]
      /\ recheck' \in [Servers -> Requests \cup {Nobody}]
      /\ at' \in [Servers -> [Requests -> {"idle", "begun", "waiting", "locked", "read", "answer"}]]
      /\ \A t \in Servers, u \in Requests : ~(t = s /\ u = q) => hits'[t][u] = hits[t][u]
  <2>1. /\ hits' \in [Servers -> [Requests -> BOOLEAN]]
        /\ \A t \in Servers, u \in Requests : ~(t = s /\ u = q) => hits'[t][u] = hits[t][u]
    <3>1. hits \in [Servers -> [Requests -> BOOLEAN]] /\ FALSE \in BOOLEAN
      BY DEF IInv, ScopeTypeOK
    <3>2. CASE hits' = hits
      BY <3>1, <3>2, Zenon
    <3>3. CASE hits' = [hits EXCEPT ![s][q] = FALSE]
      BY <3>1, <3>3, UpdateEntry
    <3> QED BY <3>2, <3>3
  <2>2. recheck' \in [Servers -> Requests \cup {Nobody}]
    BY DEF IInv, ScopeTypeOK
  <2>3. at' \in [Servers -> [Requests -> {"idle", "begun", "waiting", "locked", "read", "answer"}]]
    BY DEF IInv, ScopeTypeOK
  <2> QED BY <2>1, <2>2, <2>3
<1>4. ScopeTypeOK'
  BY <1>2, <1>3 DEF IInv, ScopeTypeOK
<1>5. IdsGiven'
  BY <1>1, <1>2 DEF IInv, IdsGiven
<1>6. \A t \in Servers, u \in Requests : at'[t][u] = IF t = s /\ u = q THEN p ELSE at[t][u]
  BY DEF IInv, ScopeTypeOK
<1>7. LockHeld'
  <2> SUFFICES ASSUME NEW t \in Servers, NEW u \in Requests, at'[t][u] \in {"locked", "read"}
               PROVE  recheck'[t] = u
    BY DEF LockHeld, Locked
  <2>1. CASE t = s /\ u = q
    <3>1. p = "locked" /\ recheck' = [recheck EXCEPT ![s] = q]
      BY <1>6, <2>1
    <3> QED BY <2>1, <3>1 DEF IInv, ScopeTypeOK
  <2>2. CASE ~(t = s /\ u = q)
    <3>1. recheck[t] = u /\ u # Nobody
      BY <1>6, <2>2, ScopeAssumption DEF IInv, LockHeld, Locked
    <3>2. CASE t = s
      <4>1. recheck' = recheck
        BY <3>1, <3>2
      <4> QED BY <3>1, <4>1
    <3>3. CASE t # s
      BY <3>1, <3>3 DEF IInv, ScopeTypeOK
    <3> QED BY <3>2, <3>3
  <2> QED BY <2>1, <2>2
<1>8. Passed'
  BY <1>2, <1>6 DEF IInv, Passed
<1>9. PassedIsClean'
  <2> SUFFICES ASSUME NEW t \in Servers, status[t] = "ready"
               PROVE  (\/ \A r \in Embedded(table) : r.id > watermark[t]
                       \/ \E u \in Requests : recheck[t] = u /\ at[t][u] = "read" /\ hits[t][u])'
    BY DEF PassedIsClean
  <2>1. CASE \A r \in Embedded(table) : r.id > watermark[t]
    BY <2>1 DEF Embedded
  <2>2. CASE \E u \in Requests : recheck[t] = u /\ at[t][u] = "read" /\ hits[t][u]
    <3>1. PICK u \in Requests : recheck[t] = u /\ at[t][u] = "read" /\ hits[t][u]
      BY <2>2
    <3>2. ~(t = s /\ u = q) /\ at'[t][u] = "read"
      BY <1>6, <3>1
    <3>3. recheck'[t] = u
      BY <3>1, ScopeAssumption DEF IInv, ScopeTypeOK
    <3>4. hits'[t][u]
      BY <1>3, <3>1, <3>2
    <3> QED BY <3>2, <3>3, <3>4
  <2> QED BY <2>1, <2>2 DEF IInv, PassedIsClean
<1>10. NeverServedOverStored'
  BY <1>2, <1>6 DEF IInv, NeverServedOverStored
<1> QED BY <1>4, <1>5, <1>7, <1>8, <1>9, <1>10 DEF IInv

LEMMA RecheckInv == ASSUME IInv, NEW s \in Servers, NEW q \in Requests, Recheck(s, q) PROVE IInv'
<1>1. PICK n \in 0..MaxIds + 1 : IsHighest(s, n) /\ watermark' = [watermark EXCEPT ![s] = n]
  BY DEF Recheck
<1>2. /\ hits' = [hits EXCEPT ![s][q] = Embedded(NewRows(s)) # {}]
      /\ at[s][q] = "locked" /\ at' = [at EXCEPT ![s][q] = "read"]
      /\ UNCHANGED <<table, lastRowId, insert, status, recheck, stored>>
  BY DEF Recheck, At
<1>3. /\ n \in 0..MaxIds /\ n <= lastRowId /\ n >= watermark[s]
      /\ \A r \in table : r.id <= n
  BY <1>1, Highest
<1>4. (Embedded(NewRows(s)) # {}) \in BOOLEAN
  OBVIOUS
<1>5. ScopeTypeOK'
  BY <1>1, <1>2, <1>3 DEF IInv, ScopeTypeOK
<1>6. IdsGiven'
  BY <1>1, <1>2, <1>3 DEF IInv, ScopeTypeOK, IdsGiven
<1>7. \A t \in Servers, u \in Requests : at'[t][u] = IF t = s /\ u = q THEN "read" ELSE at[t][u]
  BY <1>2 DEF IInv, ScopeTypeOK
<1>8. LockHeld'
  BY <1>2, <1>7 DEF IInv, LockHeld, Locked
<1>9. \A t \in Servers : watermark'[t] = IF t = s THEN n ELSE watermark[t]
  BY <1>1 DEF IInv, ScopeTypeOK
<1>10. \A u \in Requests : u # q => at[s][u] # "read"
  BY <1>2 DEF IInv, LockHeld, Locked
<1>11. Passed'
  BY <1>2, <1>3, <1>7, <1>9, <1>10 DEF IInv, Passed
<1>12. PassedIsClean'
  <2> SUFFICES ASSUME NEW t \in Servers, status[t] = "ready"
               PROVE  (\/ \A r \in Embedded(table) : r.id > watermark[t]
                       \/ \E u \in Requests : recheck[t] = u /\ at[t][u] = "read" /\ hits[t][u])'
    BY <1>2 DEF PassedIsClean
  <2>1. CASE t # s
    <3>1. \A u \in Requests : hits'[t][u] = hits[t][u] /\ at'[t][u] = at[t][u]
      BY <1>2, <2>1 DEF IInv, ScopeTypeOK
    <3>2. watermark'[t] = watermark[t] /\ recheck'[t] = recheck[t] /\ table' = table
      BY <1>2, <1>9, <2>1
    <3> QED BY <3>1, <3>2 DEF IInv, PassedIsClean, Embedded
  <2>2. CASE t = s
    <3>1. recheck[s] = q /\ at'[s][q] = "read" /\ recheck' = recheck
      BY <1>2, <1>7 DEF IInv, LockHeld, Locked
    <3>2. hits'[s][q] = (Embedded(NewRows(s)) # {})
      BY <1>2 DEF IInv, ScopeTypeOK
    <3>3. CASE hits'[s][q]
      BY <2>2, <3>1, <3>3
    <3>4. CASE ~hits'[s][q]
      <4>1. \A r \in Embedded(table) : r.id > watermark[s]
        BY <1>2, <2>2 DEF IInv, PassedIsClean, LockHeld, Locked
      <4>2. Embedded(table) = {}
        BY <3>2, <3>4, <4>1 DEF Embedded, NewRows
      <4> QED BY <1>2, <4>2 DEF Embedded
    <3> QED BY <3>3, <3>4
  <2> QED BY <2>1, <2>2
<1>13. NeverServedOverStored'
  BY <1>2, <1>7 DEF IInv, NeverServedOverStored
<1> QED BY <1>5, <1>6, <1>8, <1>11, <1>12, <1>13 DEF IInv

LEMMA DecideInv == ASSUME IInv, NEW s \in Servers, NEW q \in Requests, Decide(s, q) PROVE IInv'
<1>1. /\ status' = IF hits[s][q] THEN [status EXCEPT ![s] = "refused"] ELSE status
      /\ recheck' = [recheck EXCEPT ![s] = Nobody]
      /\ at[s][q] = "read" /\ at' = [at EXCEPT ![s][q] = "answer"]
      /\ UNCHANGED <<table, lastRowId, insert, watermark, hits, stored>>
  BY DEF Decide, At
<1>2. ScopeTypeOK'
  BY <1>1 DEF IInv, ScopeTypeOK
<1>3. IdsGiven'
  BY <1>1 DEF IInv, IdsGiven
<1>4. \A t \in Servers, u \in Requests : at'[t][u] = IF t = s /\ u = q THEN "answer" ELSE at[t][u]
  BY <1>1 DEF IInv, ScopeTypeOK
<1>5. \A u \in Requests : u # q => ~Locked(s, u)
  BY <1>1 DEF IInv, LockHeld, Locked
<1>6. LockHeld'
  BY <1>1, <1>4, <1>5 DEF IInv, ScopeTypeOK, LockHeld, Locked
<1>7. Passed'
  BY <1>1, <1>4 DEF IInv, Passed
<1>8. \A t \in Servers : status'[t] = "ready" => status[t] = "ready" /\ (t = s => ~hits[s][q])
  BY <1>1 DEF IInv, ScopeTypeOK
<1>9. recheck[s] = q
  BY <1>1 DEF IInv, LockHeld, Locked
<1>10. status'[s] = "ready" => \A r \in Embedded(table) : r.id > watermark[s]
  BY <1>8, <1>9 DEF IInv, PassedIsClean
<1>11. PassedIsClean'
  <2> SUFFICES ASSUME NEW t \in Servers, status'[t] = "ready"
               PROVE  (\/ \A r \in Embedded(table) : r.id > watermark[t]
                       \/ \E u \in Requests : recheck[t] = u /\ at[t][u] = "read" /\ hits[t][u])'
    BY DEF PassedIsClean
  <2>1. CASE t = s
    BY <1>1, <1>10, <2>1 DEF Embedded
  <2>2. CASE t # s
    <3>1. recheck'[t] = recheck[t] /\ \A u \in Requests : at'[t][u] = at[t][u]
      BY <1>1, <1>4, <2>2 DEF IInv, ScopeTypeOK
    <3> QED BY <1>1, <1>8, <3>1 DEF IInv, PassedIsClean, Embedded
  <2> QED BY <2>1, <2>2
<1>12. status'[s] = "ready" => stored[s][q] \cap table = {}
  <2> SUFFICES ASSUME status'[s] = "ready", NEW r \in stored[s][q] \cap table PROVE FALSE
    OBVIOUS
  <2>1. r.id <= watermark[s] /\ r \in Embedded(table)
    BY <1>1 DEF IInv, Passed, IdsGiven, Embedded
  <2>2. r.id > watermark[s] /\ r \in StoredRow /\ watermark[s] \in 0..MaxIds
    BY <1>10, <2>1 DEF IInv, ScopeTypeOK
  <2>3. r.id \in 1..MaxIds
    BY <2>2 DEF StoredRow
  <2> QED BY <2>1, <2>2, <2>3
<1>13. NeverServedOverStored'
  BY <1>1, <1>4, <1>8, <1>12 DEF IInv, NeverServedOverStored
<1> QED BY <1>2, <1>3, <1>6, <1>7, <1>11, <1>13 DEF IInv

(* Ids do not run out between the start of a transaction and its commit.    *)
Room == \A s \in Servers : insert[s] # "none" =>
          lastRowId < MaxIds /\ \A t \in Servers : t # s => insert[t] = "none"

LEMMA InitRoom == ScopeInit => Room
BY DEF ScopeInit, Room

LEMMA NextRoom == ASSUME IInv, Room, [ScopeNext]_scopeVars PROVE Room'
<1>1. ASSUME NEW s \in Servers, Boot(s) \/ Delete(s) PROVE Room'
  BY <1>1 DEF Room, Boot, Delete
<1>2. ASSUME NEW s \in Servers, Crash(s) \/ Rollback(s) \/ Commit(s) PROVE Room'
  BY <1>2 DEF IInv, ScopeTypeOK, Room, Crash, Rollback, Commit
<1>3. ASSUME NEW s \in Servers, BeginInsert(s) PROVE Room'
  BY ZenonT(40), <1>3 DEF IInv, ScopeTypeOK, Room, BeginInsert, WriterFree
<1>4. ASSUME NEW s \in Servers, Observe(s) PROVE Room'
  BY <1>4 DEF IInv, ScopeTypeOK, Room, Observe, Observed
<1>5. ASSUME NEW s \in Servers, NEW q \in Requests, Check(s, q) PROVE Room'
  BY <1>5 DEF Room, Check, Begin, Shortcut, Enter, Lock, Recheck, Decide, Answer
<1>6. CASE UNCHANGED scopeVars
  BY <1>6 DEF Room, scopeVars
<1> QED BY <1>1, <1>2, <1>3, <1>4, <1>5, <1>6 DEF ScopeNext

LEMMA NextInv == ASSUME IInv, Room, [ScopeNext]_scopeVars PROVE IInv'
<1>1. ASSUME NEW s \in Servers, Commit(s) PROVE IInv'
  <2>1. lastRowId < MaxIds
    BY <1>1 DEF Commit, Room
  <2> QED BY <1>1, <2>1, CommitInv
<1>2. ASSUME NEW s \in Servers, NEW q \in Requests, Begin(s, q) PROVE IInv'
  BY <1>2, MoveInv DEF Begin, At, scope
<1>3. ASSUME NEW s \in Servers, NEW q \in Requests, Shortcut(s, q) PROVE IInv'
  BY <1>3, MoveInv DEF Shortcut, At, scope
<1>4. ASSUME NEW s \in Servers, NEW q \in Requests, Enter(s, q) PROVE IInv'
  BY <1>4, MoveInv DEF Enter, At, scope
<1>5. ASSUME NEW s \in Servers, NEW q \in Requests, Lock(s, q) PROVE IInv'
  BY <1>5, MoveInv DEF Lock, At
<1>6. ASSUME NEW s \in Servers, NEW q \in Requests, Answer(s, q) PROVE IInv'
  BY <1>6, MoveInv DEF Answer, At, scope
<1>7. ASSUME NEW s \in Servers, NEW q \in Requests, Check(s, q) PROVE IInv'
  BY <1>2, <1>3, <1>4, <1>5, <1>6, <1>7, RecheckInv, DecideInv DEF Check
<1>8. CASE UNCHANGED scopeVars
  BY <1>8 DEF scopeVars, IInv, ScopeTypeOK, IdsGiven, LockHeld, Locked, Passed, PassedIsClean, NeverServedOverStored,
              Embedded
<1> QED BY <1>1, <1>7, <1>8, BootInv, CrashInv, InsertInv, DeleteInv DEF ScopeNext

\* The strengthened invariant holds in every state, and the ids stay in their room.
THEOREM Invariance == ScopeSpec => [](IInv /\ Room)
<1>1. ScopeInit => IInv /\ Room
  BY InitInv, InitRoom
<1>2. IInv /\ Room /\ [ScopeNext]_scopeVars => (IInv /\ Room)'
  BY NextInv, NextRoom
<1> QED BY <1>1, <1>2, PTL DEF ScopeSpec

\* Every variable keeps its type, for any number of servers and threads
\* (app.py:2943).
THEOREM TypeCorrect == ScopeSpec => []ScopeTypeOK
<1>1. IInv /\ Room => ScopeTypeOK
  BY DEF IInv
<1> QED BY <1>1, Invariance, PTL

\* No request is answered with a viewer that embeds a snapshot stored before
\* the request began and still there, whichever server stored it
\* (app.py:2960).
THEOREM NeverServed == ScopeSpec => []NeverServedOverStored
<1>1. IInv /\ Room => NeverServedOverStored
  BY DEF IInv
<1> QED BY <1>1, Invariance, PTL

\* Nothing the watermark has passed is embedded in a build that is served
\* (app.py:2967).
THEOREM WatermarkSafe == ScopeSpec => []PassedIsClean
<1>1. IInv /\ Room => PassedIsClean
  BY DEF IInv
<1> QED BY <1>1, Invariance, PTL

\* A withdrawn build stays withdrawn until its server stops: no check that was
\* under way, and no later one, takes it back (app.py:2942).
THEOREM StaysWithdrawn == ScopeSpec => WithdrawnForGood
<1>1. IInv /\ Room /\ [ScopeNext]_scopeVars =>
        [\A s \in Servers : status[s] = "refused" => status'[s] \in {"refused", "down"}]_scopeVars
  <2> SUFFICES ASSUME IInv, [ScopeNext]_scopeVars, NEW s \in Servers, status[s] = "refused"
               PROVE  status'[s] \in {"refused", "down"}
    OBVIOUS
  <2>1. status \in [Servers -> {"down", "ready", "refused"}]
    BY DEF IInv, ScopeTypeOK
  <2>2. CASE UNCHANGED status
    BY <2>2
  <2>3. ASSUME NEW v \in Servers, Boot(v) \/ Crash(v) PROVE status'[s] \in {"refused", "down"}
    BY <2>1, <2>3 DEF Boot, Crash
  <2>4. ASSUME NEW v \in Servers, Observe(v) PROVE status'[s] \in {"refused", "down"}
    BY <2>1, <2>4 DEF Observe
  <2>5. ASSUME NEW v \in Servers, NEW q \in Requests, Decide(v, q)
        PROVE  status'[s] \in {"refused", "down"}
    BY <2>1, <2>5 DEF Decide
  <2>6. CASE UNCHANGED scopeVars
    BY <2>6 DEF scopeVars
  <2> QED BY <2>2, <2>3, <2>4, <2>5, <2>6 DEF ScopeNext, Check, BeginInsert, Commit, Rollback, Delete,
       Begin, Shortcut, Enter, Lock, Recheck, Answer, scope
<1> QED BY <1>1, Invariance, PTL DEF ScopeSpec, WithdrawnForGood
=============================================================================
