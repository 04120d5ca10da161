---------------------------- MODULE ScopePrivacy ----------------------------
(***************************************************************************)
(* The withdrawal of an Atlas Scope build that embeds the digest of a      *)
(* stored snapshot (webapp/backend/app.py, _current_scope_status, and the  *)
(* insert path of storage.py).  Several servers share one database: a      *)
(* server hears of its own inserts through an observer, before the commit, *)
(* and of other servers' through a watermark over row ids that each        *)
(* request for the viewer advances under a lock.                           *)
(*                                                                         *)
(* A snapshot is its id and whether its digest is one of the build's       *)
(* tokens.  A build that is not ready, or has no token, takes no part.     *)
(***************************************************************************)
EXTENDS Integers, FiniteSets

CONSTANTS
  Servers,  \* processes of AssessHub on one database
  Requests, \* request threads of each server
  Nobody,   \* no thread holds a lock
  MaxIds    \* bound on the snapshot ids of a behaviour

ASSUME ScopeAssumption == MaxIds \in Nat /\ Nobody \notin Requests

VARIABLES
  table,     \* committed rows of the snapshots table
  lastRowId, \* AUTOINCREMENT: the largest id ever committed
  insert,    \* the transaction each server has open
  status,    \* app.state.scope_status of each server
  watermark, \* scope_digest_watermark
  recheck,   \* the thread that holds scope_recheck_lock
  at,        \* where each request of each server is
  hits,      \* whether a request's read met a token
  stored     \* embedded rows that were stored when a request began

scope == <<status, watermark, recheck>>
request == <<at, hits, stored>>
scopeVars == <<table, lastRowId, insert, status, watermark, recheck, at, hits, stored>>

StoredRow == [id : 1..MaxIds, embeds : BOOLEAN]
Embedded(R) == {r \in R : r.embeds}
NewRows(s) == {r \in table : r.id > watermark[s]}

Up(s) == status[s] # "down"

\* One thread of a server at a time is in its Store, across a transaction;
\* one transaction at a time writes to the database.
StoreFree(s) == insert[s] = "none"
WriterFree == \A s \in Servers : insert[s] = "none"

ScopeInit ==
  /\ table = {}
  /\ lastRowId = 0
  /\ insert = [s \in Servers |-> "none"]
  /\ status = [s \in Servers |-> "down"]
  /\ watermark = [s \in Servers |-> 0]
  /\ recheck = [s \in Servers |-> Nobody]
  /\ at = [s \in Servers |-> [q \in Requests |-> "idle"]]
  /\ hits = [s \in Servers |-> [q \in Requests |-> FALSE]]
  /\ stored = [s \in Servers |-> [q \in Requests |-> {}]]

-----------------------------------------------------------------------------
\* The highest id seen: of the rows above the watermark, or the watermark.
IsHighest(s, n) ==
  /\ n = watermark[s] \/ n \in {r.id : r \in NewRows(s)}
  /\ \A r \in NewRows(s) : r.id <= n

(* Start and end of a server.                                              *)

\* Every stored snapshot is checked (the watermark of a server that is down
\* is 0) before the observer is registered and the first route is served.
Boot(s) ==
  /\ status[s] = "down"
  /\ status' = [status EXCEPT ![s] = IF Embedded(table) = {} THEN "ready" ELSE "refused"]
  /\ \E n \in 0..MaxIds + 1 : /\ IsHighest(s, n)
                              /\ watermark' = [watermark EXCEPT ![s] = n]
  /\ UNCHANGED <<table, lastRowId, insert, recheck, at, hits, stored>>

\* Everything in memory goes, an open transaction is rolled back.
Crash(s) ==
  /\ Up(s)
  /\ status' = [status EXCEPT ![s] = "down"]
  /\ watermark' = [watermark EXCEPT ![s] = 0]
  /\ insert' = [insert EXCEPT ![s] = "none"]
  /\ recheck' = [recheck EXCEPT ![s] = Nobody]
  /\ at' = [at EXCEPT ![s] = [q \in Requests |-> "idle"]]
  /\ hits' = [hits EXCEPT ![s] = [q \in Requests |-> FALSE]]
  /\ stored' = [stored EXCEPT ![s] = [q \in Requests |-> {}]]
  /\ UNCHANGED <<table, lastRowId>>

-----------------------------------------------------------------------------
(* _add_snapshot_prepared: insert, observe, commit, inside one transaction *)
(* and under the Store's lock.                                             *)

BeginInsert(s) ==
  /\ Up(s)
  /\ WriterFree
  /\ lastRowId < MaxIds
  /\ \E e \in {"embeds", "plain"} : insert' = [insert EXCEPT ![s] = e]
  /\ UNCHANGED <<table, lastRowId, scope, request>>

Observed(e) == IF e = "embeds" THEN "observed embeds" ELSE "observed plain"

\* _withdraw_scope_embedding, called with the digest of the new row.
Observe(s) ==
  /\ insert[s] \in {"embeds", "plain"}
  /\ status' = IF insert[s] = "embeds" THEN [status EXCEPT ![s] = "refused"] ELSE status
  /\ insert' = [insert EXCEPT ![s] = Observed(insert[s])]
  /\ UNCHANGED <<table, lastRowId, watermark, recheck, request>>

Commit(s) ==
  /\ insert[s] \in {"observed embeds", "observed plain"}
  /\ table' = table \cup {[id |-> lastRowId + 1, embeds |-> insert[s] = "observed embeds"]}
  /\ lastRowId' = lastRowId + 1
  /\ insert' = [insert EXCEPT ![s] = "none"]
  /\ UNCHANGED <<scope, request>>

\* Any exception rolls back; the id is given again.
Rollback(s) ==
  /\ insert[s] # "none"
  /\ insert' = [insert EXCEPT ![s] = "none"]
  /\ UNCHANGED <<table, lastRowId, scope, request>>

Delete(s) ==
  /\ Up(s)
  /\ WriterFree
  /\ \E r \in table : table' = table \ {r}
  /\ UNCHANGED <<lastRowId, insert, scope, request>>

-----------------------------------------------------------------------------
(* _current_scope_status, for one request of a server.                     *)

At(s, q, from, to) ==
  /\ at[s][q] = from
  /\ at' = [at EXCEPT ![s][q] = to]

\* A request for the viewer, or for its link.
Begin(s, q) ==
  /\ Up(s)
  /\ At(s, q, "idle", "begun")
  /\ stored' = [stored EXCEPT ![s][q] = Embedded(table)]
  /\ UNCHANGED <<table, lastRowId, insert, scope, hits>>

\* A withdrawn build needs no check.
Shortcut(s, q) ==
  /\ status[s] = "refused"
  /\ At(s, q, "begun", "answer")
  /\ UNCHANGED <<table, lastRowId, insert, scope, hits, stored>>

Enter(s, q) ==
  /\ status[s] = "ready"
  /\ At(s, q, "begun", "waiting")
  /\ UNCHANGED <<table, lastRowId, insert, scope, hits, stored>>

Lock(s, q) ==
  /\ recheck[s] = Nobody
  /\ recheck' = [recheck EXCEPT ![s] = q]
  /\ At(s, q, "waiting", "locked")
  /\ UNCHANGED <<table, lastRowId, insert, status, watermark, hits, stored>>

\* Mutant of Recheck: the lock covers the read and the watermark only.
RecheckUnlocks(s, q) ==
  /\ StoreFree(s)
  /\ hits' = [hits EXCEPT ![s][q] = Embedded(NewRows(s)) # {}]
  /\ \E n \in 0..MaxIds + 1 : /\ IsHighest(s, n)
                              /\ watermark' = [watermark EXCEPT ![s] = n]
  /\ recheck' = [recheck EXCEPT ![s] = Nobody]
  /\ At(s, q, "locked", "read")
  /\ UNCHANGED <<table, lastRowId, insert, status, stored>>

\* snapshot_blob_digests_after, and the watermark that follows it.
Recheck(s, q) ==
  /\ StoreFree(s)
  /\ hits' = [hits EXCEPT ![s][q] = Embedded(NewRows(s)) # {}]
  /\ \E n \in 0..MaxIds + 1 : /\ IsHighest(s, n)
                              /\ watermark' = [watermark EXCEPT ![s] = n]
  /\ At(s, q, "locked", "read")
  /\ UNCHANGED <<table, lastRowId, insert, status, recheck, stored>>

\* Mutant of Decide: the status is what this request found.
DecideEitherWay(s, q) ==
  /\ status' = [status EXCEPT ![s] = IF hits[s][q] THEN "refused" ELSE "ready"]
  /\ recheck' = [recheck EXCEPT ![s] = Nobody]
  /\ At(s, q, "read", "answer")
  /\ UNCHANGED <<table, lastRowId, insert, watermark, hits, stored>>

Decide(s, q) ==
  /\ status' = IF hits[s][q] THEN [status EXCEPT ![s] = "refused"] ELSE status
  /\ recheck' = [recheck EXCEPT ![s] = Nobody]
  /\ At(s, q, "read", "answer")
  /\ UNCHANGED <<table, lastRowId, insert, watermark, hits, stored>>

\* The status is read once more; a ready build is served.
Answer(s, q) ==
  /\ At(s, q, "answer", "idle")
  /\ stored' = [stored EXCEPT ![s][q] = {}]
  /\ hits' = [hits EXCEPT ![s][q] = FALSE]
  /\ UNCHANGED <<table, lastRowId, insert, scope>>

-----------------------------------------------------------------------------
Check(s, q) ==
  \/ Begin(s, q) \/ Shortcut(s, q) \/ Enter(s, q) \/ Lock(s, q)
  \/ Recheck(s, q) \/ Decide(s, q) \/ Answer(s, q)

ScopeNext ==
  \E s \in Servers :
    \/ Boot(s) \/ Crash(s)
    \/ BeginInsert(s) \/ Observe(s) \/ Commit(s) \/ Rollback(s) \/ Delete(s)
    \/ \E q \in Requests : Check(s, q)

ScopeSpec == ScopeInit /\ [][ScopeNext]_scopeVars

-----------------------------------------------------------------------------
(* Properties.                                                             *)

\* Every variable has its type.
ScopeTypeOK ==
  /\ table \subseteq StoredRow
  /\ lastRowId \in 0..MaxIds
  /\ insert \in [Servers -> {"none", "embeds", "plain", "observed embeds", "observed plain"}]
  /\ status \in [Servers -> {"down", "ready", "refused"}]
  /\ watermark \in [Servers -> 0..MaxIds]
  /\ recheck \in [Servers -> Requests \cup {Nobody}]
  /\ at \in [Servers -> [Requests -> {"idle", "begun", "waiting", "locked", "read", "answer"}]]
  /\ hits \in [Servers -> [Requests -> BOOLEAN]]
  /\ stored \in [Servers -> [Requests -> SUBSET StoredRow]]

\* A request is never answered with the viewer when it began after a snapshot
\* whose digest the viewer embeds was stored, by whichever server, and that
\* snapshot is still there (app.py:2960).
NeverServedOverStored ==
  \A s \in Servers, q \in Requests :
    at[s][q] = "answer" /\ status[s] = "ready" => stored[s][q] \cap table = {}

\* What the watermark has passed has been acted upon: no row at or below it
\* is embedded while the build is served, unless a request that holds the
\* lock is about to withdraw it (app.py:2967).
PassedIsClean ==
  \A s \in Servers : status[s] = "ready" =>
    \/ \A r \in Embedded(table) : r.id > watermark[s]
    \/ \E q \in Requests : recheck[s] = q /\ at[s][q] = "read" /\ hits[s][q]

\* A withdrawal is for the life of the server: no later check takes it back
\* (app.py:2942).
WithdrawnForGood ==
  [][\A s \in Servers : status[s] = "refused" => status'[s] \in {"refused", "down"}]_scopeVars
=============================================================================
