--------------------------- MODULE WarRoomProofs ----------------------------
(* Theorems about WarRoom, for any plan, any clocks and any number of       *)
(* server processes, snapshots and comparisons.                             *)
EXTENDS WarRoom, WellFoundedInduction, TLAPS

RecFields == {"status", "outcome", "step", "check", "close", "deviated", "latest", "anchor"}
(* A record but for its two derived leaves. *)
Shaped(r) ==
    /\ DOMAIN r = RecFields
    /\ r.step \in Atomic!Bindings
    /\ r.check \in [Checks -> {"pending", "pass", "fail", "na"}]
    /\ r.close \in [Waves -> {"open"} \cup Atomic!Closed]
(* What is signed in r is unchanged in n. *)
SignedKept(r, n) ==
    \A w \in Waves : ~Atomic!OpenWave(r, w) =>
       /\ n.close[w] = r.close[w]
       /\ \A s \in Steps : WaveOf[s] = w => n.step[s] = r.step[s]
       /\ \A c \in Checks : WaveOf[c] = w => n.check[c] = r.check[c]

LEMMA ApplyKeepsSigned ==
    ASSUME NEW r, Shaped(r), NEW q \in Atomic!Requests, NEW t \in 1..MaxTime, Atomic!Allowed(r, q)
    PROVE  Shaped(Atomic!Apply(r, q, t)) /\ SignedKept(r, Atomic!Apply(r, q, t))
<1> DEFINE l == [r EXCEPT !.deviated = @ \/ Atomic!Deviates(q)]
           n == Atomic!Apply(r, q, t)
<1> SUFFICES Shaped(n) /\ SignedKept(r, n)
    OBVIOUS
<1>1. /\ DOMAIN l = RecFields /\ l.step = r.step /\ l.check = r.check /\ l.close = r.close
    BY DEF Shaped, RecFields
<1>2. CASE q.op = "step"
    <2>1. q.item \in Steps /\ q.to \in {"pending", "done", "skipped"}
        BY <1>2 DEF Atomic!Requests
    <2>2. n = [l EXCEPT !.step[q.item] =
                  [status |-> q.to, at |-> IF q.to = "pending" THEN 0 ELSE t]]
        BY <1>2 DEF Atomic!Apply
    <2>3. /\ DOMAIN n = RecFields /\ n.check = r.check /\ n.close = r.close
          /\ n.step = [r.step EXCEPT ![q.item] =
                          [status |-> q.to, at |-> IF q.to = "pending" THEN 0 ELSE t]]
        BY <1>1, <2>2 DEF RecFields
    <2>4. n.step \in Atomic!Bindings
        BY <2>1, <2>3, LimitsAssumption DEF Shaped, Atomic!Bindings, Atomic!Times
    <2>5. Atomic!OpenWave(r, WaveOf[q.item])
        BY <1>2 DEF Atomic!Allowed
    <2> HIDE DEF n, l
    <2> QED
        BY <2>1, <2>3, <2>4, <2>5 DEF Shaped, SignedKept, Atomic!Bindings
<1>3. CASE q.op = "check"
    <2>1. q.item \in Checks /\ q.to \in {"pending", "pass", "fail", "na"}
        BY <1>3 DEF Atomic!Requests
    <2>2. n = [l EXCEPT !.check[q.item] = q.to]
        BY <1>3 DEF Atomic!Apply
    <2>3. /\ DOMAIN n = RecFields /\ n.step = r.step /\ n.close = r.close
          /\ n.check = [r.check EXCEPT ![q.item] = q.to]
        BY <1>1, <2>2 DEF RecFields
    <2>4. Atomic!OpenWave(r, WaveOf[q.item])
        BY <1>3 DEF Atomic!Allowed
    <2> HIDE DEF n, l
    <2> QED
        BY <2>1, <2>3, <2>4 DEF Shaped, SignedKept
<1>4. CASE q.op = "closeout"
    <2>1. q.item \in Waves /\ q.to \in Atomic!Closed
        BY <1>4 DEF Atomic!Requests
    <2>2. n = [l EXCEPT !.close[q.item] = q.to]
        BY <1>4 DEF Atomic!Apply
    <2>3. /\ DOMAIN n = RecFields /\ n.step = r.step /\ n.check = r.check
          /\ n.close = [r.close EXCEPT ![q.item] = q.to]
        BY <1>1, <2>2 DEF RecFields
    <2>4. Atomic!OpenWave(r, q.item)
        BY <1>4 DEF Atomic!Allowed
    <2> HIDE DEF n, l
    <2> QED
        BY <2>1, <2>3, <2>4 DEF Shaped, SignedKept
<1>5. CASE q.op = "event"
    <2>1. n = l
        BY <1>5 DEF Atomic!Apply
    <2> QED
        BY <1>1, <2>1 DEF Shaped, SignedKept
<1>6. CASE q.op = "finish"
    <2>1. n = [l EXCEPT !.status = q.to, !.outcome = Atomic!DeriveOutcome(r, q.to)]
        BY <1>6 DEF Atomic!Apply
    <2>2. DOMAIN n = RecFields /\ n.step = r.step /\ n.check = r.check /\ n.close = r.close
        BY <1>1, <2>1 DEF RecFields
    <2> HIDE DEF n, l
    <2> QED
        BY <2>2 DEF Shaped, SignedKept
<1> QED
    BY <1>2, <1>3, <1>4, <1>5, <1>6 DEF Atomic!Requests

-----------------------------------------------------------------------------
(* A flight's copy keeps what is signed for as long as it is fresh: the     *)
(* save that may not take any other is what makes the invariant inductive.  *)
RunFields == {"rec", "before", "started", "ended", "watermark"}
RunOK ==
    /\ DOMAIN run = RunFields
    /\ Running => Shaped(run.rec) /\ run.started \in 1..MaxTime /\ run.before \in SnapIds
MutationOK(f) ==
    /\ DOMAIN f = {"fresh", "rec", "ended"}
    /\ Shaped(f.rec)
    /\ f.fresh => Running /\ SignedKept(run.rec, f.rec)
MutationsOK == DOMAIN mut = Procs /\ \A p \in Procs : mut[p] # Idle => MutationOK(mut[p])
SignedInv == RunOK /\ MutationsOK
SignedStep == Running /\ run'.started = run.started => SignedKept(run.rec, run'.rec)

LEMMA ProjectedKeeps ==
    ASSUME RunOK, Running
    PROVE  /\ Shaped(Projected) /\ Projected.step = run.rec.step
           /\ Projected.check = run.rec.check /\ Projected.close = run.rec.close
<1>1. Shaped(run.rec)
    BY DEF RunOK
<1> QED
    BY <1>1 DEF Projected, Shaped, RecFields

(* Once something else is committed no flight is fresh. *)
LEMMA OutdatedFlights ==
    ASSUME MutationsOK
    PROVE  /\ DOMAIN Outdated(mut) = Procs
           /\ \A p \in Procs : Outdated(mut)[p] # Idle =>
                 /\ DOMAIN Outdated(mut)[p] = {"fresh", "rec", "ended"}
                 /\ Shaped(Outdated(mut)[p].rec) /\ Outdated(mut)[p].fresh = FALSE
<1> SUFFICES ASSUME NEW p \in Procs, Outdated(mut)[p] # Idle
             PROVE  /\ DOMAIN Outdated(mut)[p] = {"fresh", "rec", "ended"}
                    /\ Shaped(Outdated(mut)[p].rec) /\ Outdated(mut)[p].fresh = FALSE
    BY DEF Outdated
<1>1. mut[p] # Idle /\ Outdated(mut)[p] = [mut[p] EXCEPT !.fresh = FALSE]
    BY DEF Outdated
<1>2. DOMAIN mut[p] = {"fresh", "rec", "ended"} /\ Shaped(mut[p].rec)
    BY <1>1 DEF MutationsOK, MutationOK
<1>3. Outdated(mut)[p].rec = mut[p].rec
    BY <1>1, <1>2
<1> QED
    BY <1>1, <1>2, <1>3

LEMMA OutdatedOK ==
    ASSUME MutationsOK,
           \/ mut' = Outdated(mut)
           \/ \E p \in Procs : mut' = [Outdated(mut) EXCEPT ![p] = Idle]
    PROVE  MutationsOK'
<1>1. DOMAIN mut' = Procs
    BY OutdatedFlights
<1>2. ASSUME NEW q \in Procs, mut'[q] # Idle
      PROVE  MutationOK(mut[q])'
    <2>1. mut'[q] = Outdated(mut)[q]
        BY <1>2, OutdatedFlights
    <2>2. /\ DOMAIN mut'[q] = {"fresh", "rec", "ended"}
          /\ Shaped(mut'[q].rec) /\ mut'[q].fresh = FALSE
        BY <1>2, <2>1, OutdatedFlights
    <2> QED
        BY <2>2 DEF MutationOK, Shaped, SignedKept, RecFields
<1> QED
    BY <1>1, <1>2 DEF MutationsOK

-----------------------------------------------------------------------------
(* The steps, by what they do to the run and the mutations in flight.       *)
LEMMA QuietSigned ==
    ASSUME SignedInv, UNCHANGED <<run, mut>>
    PROVE  SignedInv' /\ SignedStep
BY DEF SignedInv, RunOK, MutationsOK, MutationOK, Running, Shaped, SignedKept, SignedStep

LEMMA StartRunSigned ==
    ASSUME SignedInv, NEW p \in Procs, NEW b \in SnapIds, StartRun(p, b)
    PROVE  SignedInv' /\ SignedStep
<1>1. ~Running /\ UNCHANGED mut
    BY DEF StartRun
<1>2. PICK t \in 1..MaxTime :
          \E m : run' = [rec |-> Atomic!Started, before |-> b, started |-> t, ended |-> 0,
                        watermark |-> m]
    BY DEF StartRun
<1>3. Shaped(Atomic!Started)
    BY LimitsAssumption
    DEF Shaped, RecFields, Atomic!Started, Atomic!Unactioned, Atomic!Bindings, Atomic!Times
<1>4. RunOK'
    BY <1>2, <1>3 DEF RunOK, RunFields, Shaped
<1>5. MutationsOK'
    <2> SUFFICES ASSUME NEW q \in Procs, mut[q] # Idle
                 PROVE  MutationOK(mut[q])'
        BY <1>1 DEF SignedInv, MutationsOK
    <2>1. MutationOK(mut[q]) /\ mut'[q] = mut[q]
        BY <1>1 DEF SignedInv, MutationsOK
    <2>2. ~mut[q].fresh
        BY <1>1, <2>1 DEF MutationOK
    <2> QED
        BY <2>1, <2>2 DEF MutationOK, Shaped
<1> QED
    BY <1>1, <1>4, <1>5 DEF SignedInv, SignedStep

LEMMA RemovedSigned ==
    ASSUME SignedInv, run' = NoRun, mut' = Outdated(mut)
    PROVE  SignedInv' /\ SignedStep
<1>1. RunOK'
    BY DEF RunOK, RunFields, Running, NoRun
<1>2. MutationsOK'
    BY OutdatedOK DEF SignedInv
<1>3. ASSUME Running
      PROVE  run'.started # run.started
    BY <1>3 DEF SignedInv, RunOK, NoRun
<1> QED
    BY <1>1, <1>2, <1>3 DEF SignedInv, SignedStep

LEMMA MutateReadSigned ==
    ASSUME SignedInv, NEW p \in Procs, MutateRead(p)
    PROVE  SignedInv' /\ SignedStep
<1>1. Running /\ UNCHANGED run
    BY DEF MutateRead, Live, files
<1>2. PICK q \in Atomic!Requests, t \in 1..MaxTime :
          /\ Atomic!Allowed(Projected, q)
          /\ \E e : mut' = [mut EXCEPT ![p] = [fresh |-> TRUE, rec |-> Atomic!Apply(Projected, q, t),
                                               ended |-> e]]
    BY DEF MutateRead
<1> DEFINE n == Atomic!Apply(Projected, q, t)
<1>3. Shaped(n) /\ SignedKept(Projected, n)
    BY <1>1, <1>2, ProjectedKeeps, ApplyKeepsSigned DEF SignedInv
<1>4. SignedKept(run.rec, n)
    BY <1>1, <1>3, ProjectedKeeps DEF SignedInv, SignedKept, Atomic!OpenWave
<1> HIDE DEF n
<1>5. ASSUME NEW f \in Procs, mut'[f] # Idle
      PROVE  MutationOK(mut[f])'
    <2>1. CASE f = p
        <3>1. \E e : mut'[f] = [fresh |-> TRUE, rec |-> n, ended |-> e]
            BY <1>2, <2>1 DEF SignedInv, MutationsOK, n
        <3> QED
            BY <1>1, <1>3, <1>4, <3>1 DEF MutationOK, Shaped, SignedKept, Running
    <2>2. CASE f # p
        <3>1. mut'[f] = mut[f] /\ MutationOK(mut[f])
            BY <1>2, <1>5, <2>2 DEF SignedInv, MutationsOK
        <3> QED
            BY <1>1, <3>1 DEF MutationOK, Shaped, SignedKept, Running
    <2> QED
        BY <2>1, <2>2
<1>6. MutationsOK'
    BY <1>2, <1>5 DEF SignedInv, MutationsOK
<1> QED
    BY <1>1, <1>6 DEF SignedInv, RunOK, Running, Shaped, SignedStep, SignedKept

(* A save or a comparison puts n in the place of the record. *)
LEMMA WrittenSigned ==
    ASSUME SignedInv, NEW p \in Procs, Running, NEW n, NEW e, Shaped(n), SignedKept(run.rec, n),
           run' = [run EXCEPT !.rec = n, !.ended = e],
           mut' = Outdated(mut) \/ mut' = [Outdated(mut) EXCEPT ![p] = Idle]
    PROVE  SignedInv' /\ SignedStep
<1>1. /\ DOMAIN run' = RunFields /\ run'.rec = n
      /\ run'.started = run.started /\ run'.before = run.before
    BY DEF SignedInv, RunOK, RunFields
<1>2. RunOK'
    BY <1>1 DEF SignedInv, RunOK, Shaped
<1>3. MutationsOK'
    BY OutdatedOK DEF SignedInv
<1> QED
    BY <1>1, <1>2, <1>3 DEF SignedInv, SignedStep

LEMMA MutateSaveSigned ==
    ASSUME SignedInv, NEW p \in Procs, MutateSave(p)
    PROVE  SignedInv' /\ SignedStep
<1>1. CASE mut[p].fresh /\ Live /\ Authority.valid
    <2> DEFINE n == Authorised(mut[p].rec)
    <2>1. MutationOK(mut[p]) /\ Running
        BY <1>1 DEF MutateSave, SignedInv, MutationsOK, Live
    <2>2. Shaped(mut[p].rec) /\ SignedKept(run.rec, mut[p].rec)
        BY <1>1, <2>1 DEF MutationOK
    <2>3. /\ DOMAIN n = RecFields
          /\ n.step = mut[p].rec.step /\ n.check = mut[p].rec.check /\ n.close = mut[p].rec.close
        BY <2>2 DEF Authorised, Shaped, RecFields
    <2>4. /\ run' = [run EXCEPT !.rec = n, !.ended = mut[p].ended]
          /\ mut' = [Outdated(mut) EXCEPT ![p] = Idle]
        BY <1>1 DEF MutateSave
    <2> HIDE DEF n
    <2>5. Shaped(n) /\ SignedKept(run.rec, n)
        BY <2>2, <2>3 DEF Shaped, SignedKept
    <2> QED
        BY <2>1, <2>4, <2>5, WrittenSigned
<1>2. CASE ~(mut[p].fresh /\ Live /\ Authority.valid)
    <2>1. UNCHANGED run /\ mut' = [mut EXCEPT ![p] = Idle]
        BY <1>2 DEF MutateSave
    <2>2. ASSUME NEW f \in Procs, mut'[f] # Idle
          PROVE  MutationOK(mut[f])'
        <3>1. mut'[f] = mut[f] /\ MutationOK(mut[f])
            BY <2>1, <2>2 DEF SignedInv, MutationsOK
        <3> QED
            BY <2>1, <3>1 DEF MutationOK, Shaped, SignedKept, Running
    <2>3. MutationsOK'
        BY <2>1, <2>2 DEF SignedInv, MutationsOK
    <2> QED
        BY <2>1, <2>3 DEF SignedInv, RunOK, Running, Shaped, SignedStep, SignedKept
<1> QED
    BY <1>1, <1>2

LEMMA CompareAppendSigned ==
    ASSUME SignedInv, NEW p \in Procs, CompareAppend(p)
    PROVE  SignedInv' /\ SignedStep
<1>1. CASE UNCHANGED <<run, mut>>
    BY <1>1, QuietSigned
<1>2. CASE ~UNCHANGED <<run, mut>>
    <2>1. PICK latest, anchor :
             /\ Live /\ mut' = Outdated(mut)
             /\ run' = [run EXCEPT !.rec = [Projected EXCEPT !.latest = latest, !.anchor = anchor]]
        BY <1>2 DEF CompareAppend
    <2> DEFINE n == [Projected EXCEPT !.latest = latest, !.anchor = anchor]
    <2>2. /\ Running /\ Shaped(Projected) /\ Projected.step = run.rec.step
          /\ Projected.check = run.rec.check /\ Projected.close = run.rec.close
        BY <2>1, ProjectedKeeps DEF Live, SignedInv
    <2>3. /\ DOMAIN n = RecFields /\ n.step = run.rec.step
          /\ n.check = run.rec.check /\ n.close = run.rec.close
        BY <2>2 DEF Shaped, RecFields
    <2>4. run' = [run EXCEPT !.rec = n, !.ended = run.ended]
        BY <2>1 DEF SignedInv, RunOK, RunFields
    <2> HIDE DEF n
    <2>5. Shaped(n) /\ SignedKept(run.rec, n)
        BY <2>2, <2>3 DEF Shaped, SignedKept
    <2> QED
        BY <2>1, <2>2, <2>4, <2>5, WrittenSigned
<1> QED
    BY <1>1, <1>2

LEMMA RestartSigned ==
    ASSUME SignedInv, NEW p \in Procs, Restart(p)
    PROVE  SignedInv' /\ SignedStep
<1>1. UNCHANGED run /\ mut' = [mut EXCEPT ![p] = Idle]
    BY DEF Restart, files
<1>2. ASSUME NEW f \in Procs, mut'[f] # Idle
      PROVE  MutationOK(mut[f])'
    <2>1. mut'[f] = mut[f] /\ MutationOK(mut[f])
        BY <1>1, <1>2 DEF SignedInv, MutationsOK
    <2> QED
        BY <1>1, <2>1 DEF MutationOK, Shaped, SignedKept, Running
<1>3. MutationsOK'
    BY <1>1, <1>2 DEF SignedInv, MutationsOK
<1> QED
    BY <1>1, <1>3 DEF SignedInv, RunOK, Running, Shaped, SignedStep, SignedKept

LEMMA SignedNext ==
    ASSUME SignedInv, [Next]_vars
    PROVE  SignedInv' /\ SignedStep
<1>1. CASE UNCHANGED vars
    BY <1>1, QuietSigned DEF vars
<1>2. ASSUME NEW p \in Procs, UploadBegin(p) \/ UploadCommit(p) \/ CompareRead(p)
      PROVE  SignedInv' /\ SignedStep
    BY <1>2, QuietSigned DEF UploadBegin, UploadCommit, CompareRead, files
<1>3. ASSUME NEW p \in Procs, DeleteExecution(p)
      PROVE  SignedInv' /\ SignedStep
    BY <1>3, RemovedSigned DEF DeleteExecution
<1>4. ASSUME NEW i \in Discarded, DeleteSnapshot(i)
      PROVE  SignedInv' /\ SignedStep
    BY <1>4, QuietSigned, RemovedSigned DEF DeleteSnapshot
<1>5. ASSUME NEW p \in Restarting, Restart(p)
      PROVE  SignedInv' /\ SignedStep
    BY <1>5, RestartSigned, OfferAssumption
<1> QED
    BY <1>1, <1>2, <1>3, <1>4, <1>5, StartRunSigned, MutateReadSigned, MutateSaveSigned,
       CompareAppendSigned DEF Next

(* Whatever the servers do, the steps, the checks and the decision of a     *)
(* closed-out wave never change.                                            *)
THEOREM SignedRecordKept == Spec => SignedRecordFrozen
<1>1. Init => SignedInv
    BY DEF Init, SignedInv, RunOK, RunFields, MutationsOK, Running, NoRun
<1>2. SignedInv /\ [Next]_vars => SignedInv'
    BY SignedNext
<1>3. SignedInv /\ [Next]_vars =>
        [Running /\ run'.started = run.started =>
         \A w \in Waves : ~Atomic!OpenWave(run.rec, w) =>
            /\ run'.rec.close[w] = run.rec.close[w]
            /\ \A s \in Steps : WaveOf[s] = w => run'.rec.step[s] = run.rec.step[s]
            /\ \A c \in Checks : WaveOf[c] = w => run'.rec.check[c] = run.rec.check[c]]_vars
    BY SignedNext DEF SignedStep, SignedKept
<1> QED
    BY <1>1, <1>2, <1>3, PTL DEF Spec, SignedRecordFrozen

-----------------------------------------------------------------------------
(* Receipts exist only while their run does, name snapshots that are kept   *)
(* when they are appended, and a comparison in flight names snapshots.      *)
CmpFields == {"fresh", "after", "verdict", "binding", "trial"}
ComparisonOK(f) ==
    /\ DOMAIN f = CmpFields /\ f.after \in SnapIds /\ f.verdict \in {"PASS", "FAIL"}
    /\ f.binding \in Atomic!Bindings /\ f.trial \in {NoTrial} \cup Trials
ComparisonsOK == DOMAIN cmp = Procs /\ \A p \in Procs : cmp[p] # Idle => ComparisonOK(cmp[p])
SnapsOK == DOMAIN snaps = SnapIds /\ \A i \in SnapIds : "state" \in DOMAIN snaps[i]
ReceiptsOK == receipts \in Seq(Receipts) /\ (~Running => receipts = <<>>)
KeptInv == SignedInv /\ ComparisonsOK /\ SnapsOK /\ ReceiptsOK /\ ReceiptSourcesKept

LEMMA SourcesAreSnapshots ==
    ASSUME Running, RunOK, NEW r \in Receipts
    PROVE  Sources(r) \subseteq SnapIds
<1>1. run.before \in SnapIds /\ r.after \in SnapIds
    BY DEF RunOK, Receipts
<1>2. ASSUME r.trial # NoTrial
      PROVE  r.trial.pre \in SnapIds /\ r.trial.post \in SnapIds
    BY <1>2 DEF Receipts, Trials
<1> QED
    BY <1>1, <1>2 DEF Sources

LEMMA ReceiptedAreSnapshots ==
    ASSUME RunOK, ReceiptsOK
    PROVE  Receipted \subseteq SnapIds
<1>1. CASE Running
    BY <1>1, SourcesAreSnapshots DEF Receipted, ReceiptsOK
<1>2. CASE ~Running
    BY <1>2 DEF Receipted, ReceiptsOK
<1> QED
    BY <1>1, <1>2

LEMMA OutdatedComparisons ==
    ASSUME ComparisonsOK,
           \/ cmp' = Outdated(cmp)
           \/ \E p \in Procs : cmp' = [Outdated(cmp) EXCEPT ![p] = Idle]
    PROVE  ComparisonsOK'
<1>1. DOMAIN cmp' = Procs
    BY DEF Outdated
<1>2. ASSUME NEW q \in Procs, cmp'[q] # Idle
      PROVE  ComparisonOK(cmp[q])'
    <2>1. cmp[q] # Idle /\ cmp'[q] = [cmp[q] EXCEPT !.fresh = FALSE]
        BY <1>2 DEF Outdated
    <2>2. ComparisonOK(cmp[q])
        BY <2>1 DEF ComparisonsOK
    <2>3. /\ DOMAIN cmp'[q] = CmpFields /\ cmp'[q].after = cmp[q].after
          /\ cmp'[q].verdict = cmp[q].verdict /\ cmp'[q].binding = cmp[q].binding
          /\ cmp'[q].trial = cmp[q].trial
        BY <2>1, <2>2 DEF ComparisonOK, CmpFields
    <2> QED
        BY <2>2, <2>3 DEF ComparisonOK
<1> QED
    BY <1>1, <1>2 DEF ComparisonsOK

(* Steps that leave receipts, snapshots and the run's first snapshot alone. *)
LEMMA SameReceipts ==
    ASSUME KeptInv, UNCHANGED <<snaps, receipts>>, Running' = Running, run'.before = run.before
    PROVE  SnapsOK' /\ ReceiptsOK' /\ ReceiptSourcesKept'
BY DEF KeptInv, SnapsOK, ReceiptsOK, ReceiptSourcesKept, Receipted, Sources, Kept

LEMMA SameComparisons ==
    ASSUME ComparisonsOK, UNCHANGED cmp \/ \E p \in Procs : cmp' = [cmp EXCEPT ![p] = Idle]
    PROVE  ComparisonsOK'
BY DEF ComparisonsOK, ComparisonOK

LEMMA CompareReadKept ==
    ASSUME KeptInv, NEW p \in Procs, CompareRead(p)
    PROVE  ComparisonsOK'
<1>1. PICK c \in Comparisons :
         cmp' = [cmp EXCEPT ![p] = [fresh |-> TRUE, after |-> c.after, verdict |-> c.verdict,
                                    binding |-> Projected.step, trial |-> c.trial]]
    BY DEF CompareRead
<1>2. /\ c.after \in SnapIds /\ c.verdict \in {"PASS", "FAIL"}
      /\ c.trial \in {NoTrial} \cup Trials
    BY OfferAssumption
<1>3. Projected.step \in Atomic!Bindings
    BY ProjectedKeeps DEF CompareRead, Live, KeptInv, SignedInv, Shaped
<1> QED
    BY <1>1, <1>2, <1>3 DEF KeptInv, ComparisonsOK, ComparisonOK, CmpFields

LEMMA CompareAppendKept ==
    ASSUME KeptInv, NEW p \in Procs, CompareAppend(p)
    PROVE  ComparisonsOK' /\ SnapsOK' /\ ReceiptsOK' /\ ReceiptSourcesKept'
<1> DEFINE r == [after |-> cmp[p].after, verdict |-> cmp[p].verdict,
                 binding |-> cmp[p].binding, trial |-> cmp[p].trial]
<1>1. CASE UNCHANGED <<run, receipts>> /\ cmp' = [cmp EXCEPT ![p] = Idle]
    BY <1>1, SameReceipts, SameComparisons DEF CompareAppend, KeptInv, Running
<1>2. CASE ~(UNCHANGED <<run, receipts>> /\ cmp' = [cmp EXCEPT ![p] = Idle])
    <2>1. /\ Live /\ Admitted(r) /\ receipts' = Append(receipts, r)
          /\ cmp' = [Outdated(cmp) EXCEPT ![p] = Idle] /\ UNCHANGED snaps
        BY <1>2 DEF CompareAppend
    <2>2. PICK rec : run' = [run EXCEPT !.rec = rec]
        BY <1>2 DEF CompareAppend
    <2>3. run'.before = run.before
        BY <2>2 DEF KeptInv, SignedInv, RunOK, RunFields
    <2>4. ComparisonsOK'
        BY <2>1, OutdatedComparisons DEF KeptInv
    <2>5. cmp[p] # Idle /\ r \in Receipts
        BY DEF CompareAppend, KeptInv, ComparisonsOK, ComparisonOK, Receipts
    <2>6. Running'
        <3>1. run'.started = run.started /\ run.started \in 1..MaxTime
            BY <2>1, <2>2 DEF KeptInv, SignedInv, RunOK, RunFields, Live
        <3> QED
            BY <3>1 DEF Running, NoRun
    <2>7. ReceiptsOK'
        BY <2>1, <2>5, <2>6 DEF KeptInv, ReceiptsOK
    <2>8. \A i \in Sources(r) : Kept(i)
        BY <2>1 DEF Admitted
    <2>9. Receipted' = Receipted \cup Sources(r)
        BY <2>1, <2>3, <2>5 DEF Receipted, Sources, KeptInv, ReceiptsOK
    <2> QED
        BY <2>1, <2>4, <2>7, <2>8, <2>9 DEF KeptInv, SnapsOK, ReceiptSourcesKept, Kept
<1> QED
    BY <1>1, <1>2

LEMMA MutateSaveKept ==
    ASSUME KeptInv, NEW p \in Procs, MutateSave(p)
    PROVE  ComparisonsOK' /\ SnapsOK' /\ ReceiptsOK' /\ ReceiptSourcesKept'
<1>1. CASE UNCHANGED <<run, cmp>>
    BY <1>1, SameReceipts, SameComparisons DEF MutateSave, KeptInv, Running
<1>2. CASE ~UNCHANGED <<run, cmp>>
    <2>1. /\ Live /\ cmp' = Outdated(cmp) /\ UNCHANGED <<snaps, receipts>>
          /\ run' = [run EXCEPT !.rec = Authorised(mut[p].rec), !.ended = mut[p].ended]
        BY <1>2 DEF MutateSave
    <2>2. /\ run'.started = run.started /\ run'.before = run.before
          /\ run.started \in 1..MaxTime
        BY <2>1 DEF KeptInv, SignedInv, RunOK, RunFields, Live
    <2>3. Running'
        BY <2>2 DEF Running, NoRun
    <2>4. Running
        BY <2>1 DEF Live
    <2> QED
        BY <2>1, <2>2, <2>3, <2>4, SameReceipts, OutdatedComparisons DEF KeptInv
<1> QED
    BY <1>1, <1>2

LEMMA StartRunKept ==
    ASSUME KeptInv, NEW p \in Procs, NEW b \in SnapIds, StartRun(p, b)
    PROVE  ComparisonsOK' /\ SnapsOK' /\ ReceiptsOK' /\ ReceiptSourcesKept'
<1>1. receipts = <<>> /\ UNCHANGED <<snaps, receipts, cmp>>
    BY DEF StartRun, KeptInv, ReceiptsOK
<1>2. Receipted' = {}
    BY <1>1 DEF Receipted
<1> QED
    BY <1>1, <1>2, SameComparisons DEF KeptInv, SnapsOK, ReceiptsOK, ReceiptSourcesKept

LEMMA DeleteExecutionKept ==
    ASSUME KeptInv, NEW p \in Procs, DeleteExecution(p)
    PROVE  ComparisonsOK' /\ SnapsOK' /\ ReceiptsOK' /\ ReceiptSourcesKept'
<1>1. receipts = <<>> /\ UNCHANGED <<snaps, receipts>> /\ cmp' = Outdated(cmp)
    BY DEF DeleteExecution
<1>2. Receipted' = {}
    BY <1>1 DEF Receipted
<1> QED
    BY <1>1, <1>2, OutdatedComparisons DEF KeptInv, SnapsOK, ReceiptsOK, ReceiptSourcesKept

LEMMA UploadCommitKept ==
    ASSUME KeptInv, NEW p \in Procs, UploadCommit(p)
    PROVE  ComparisonsOK' /\ SnapsOK' /\ ReceiptsOK' /\ ReceiptSourcesKept'
<1>1. /\ UNCHANGED <<run, receipts, cmp>>
      /\ \E x, y : snaps' = [snaps EXCEPT ![nextId + 1] =
                                [state |-> "kept", collected |-> x, uploaded |-> y]]
    BY DEF UploadCommit
<1>2. SnapsOK' /\ \A i \in SnapIds : Kept(i) => Kept(i)'
    BY <1>1 DEF KeptInv, SnapsOK, Kept
<1>3. Receipted' = Receipted /\ Receipted \subseteq SnapIds
    BY <1>1, ReceiptedAreSnapshots DEF Receipted, Sources, KeptInv, SignedInv
<1> QED
    BY <1>1, <1>2, <1>3, SameComparisons DEF KeptInv, ReceiptsOK, ReceiptSourcesKept, Running

LEMMA DeleteSnapshotKept ==
    ASSUME KeptInv, NEW i \in Discarded, DeleteSnapshot(i)
    PROVE  ComparisonsOK' /\ SnapsOK' /\ ReceiptsOK' /\ ReceiptSourcesKept'
<1>1. /\ i \notin Receipted /\ UNCHANGED receipts
      /\ snaps' = [snaps EXCEPT ![i].state = "deleted"]
      /\ UNCHANGED cmp \/ cmp' = Outdated(cmp)
    BY DEF DeleteSnapshot
<1>2. SnapsOK' /\ \A j \in SnapIds \ {i} : Kept(j) => Kept(j)'
    BY <1>1 DEF KeptInv, SnapsOK, Kept
<1>3. ComparisonsOK'
    BY <1>1, SameComparisons, OutdatedComparisons DEF KeptInv
<1>4. CASE receipts = <<>>
    <2>1. Receipted' = {}
        BY <1>1, <1>4 DEF Receipted
    <2> QED
        BY <1>1, <1>2, <1>3, <1>4, <2>1 DEF KeptInv, ReceiptsOK, ReceiptSourcesKept
<1>5. CASE receipts # <<>>
    <2>1. Running /\ run.before \in Receipted
        <3>1. Running /\ 1 \in 1..Len(receipts)
            BY <1>5 DEF KeptInv, ReceiptsOK
        <3>2. run.before \in Sources(receipts[1])
            BY DEF Sources
        <3> QED
            BY <3>1, <3>2 DEF Receipted
    <2>2. UNCHANGED run
        BY <1>1, <2>1 DEF DeleteSnapshot
    <2>3. Receipted' = Receipted /\ Receipted \subseteq SnapIds
        BY <1>1, <2>2, ReceiptedAreSnapshots DEF Receipted, Sources, KeptInv, SignedInv
    <2> QED
        BY <1>1, <1>2, <1>3, <2>1, <2>2, <2>3 DEF KeptInv, ReceiptsOK, ReceiptSourcesKept, Running
<1> QED
    BY <1>4, <1>5

LEMMA KeptNext ==
    ASSUME KeptInv, [Next]_vars
    PROVE  KeptInv'
<1>1. SignedInv'
    BY SignedNext DEF KeptInv
<1> SUFFICES ComparisonsOK' /\ SnapsOK' /\ ReceiptsOK' /\ ReceiptSourcesKept'
    BY <1>1 DEF KeptInv
<1>2. CASE UNCHANGED vars
    BY <1>2, SameReceipts, SameComparisons DEF vars, KeptInv, Running
<1>3. ASSUME NEW p \in Procs, UploadBegin(p) \/ MutateRead(p)
      PROVE  ComparisonsOK' /\ SnapsOK' /\ ReceiptsOK' /\ ReceiptSourcesKept'
    BY <1>3, SameReceipts, SameComparisons DEF UploadBegin, MutateRead, files, KeptInv, Running
<1>4. ASSUME NEW p \in Procs, CompareRead(p)
      PROVE  ComparisonsOK' /\ SnapsOK' /\ ReceiptsOK' /\ ReceiptSourcesKept'
    BY <1>4, SameReceipts, CompareReadKept DEF CompareRead, files, Running
<1>5. ASSUME NEW p \in Restarting, Restart(p)
      PROVE  ComparisonsOK' /\ SnapsOK' /\ ReceiptsOK' /\ ReceiptSourcesKept'
    BY <1>5, OfferAssumption, SameReceipts, SameComparisons DEF Restart, files, KeptInv, Running
<1> QED
    BY <1>2, <1>3, <1>4, <1>5, StartRunKept, MutateSaveKept, CompareAppendKept, UploadCommitKept,
       DeleteExecutionKept, DeleteSnapshotKept DEF Next

LEMMA KeptInit ==
    ASSUME Init
    PROVE  KeptInv
<1>1. SignedInv
    BY DEF Init, SignedInv, RunOK, RunFields, MutationsOK, Running, NoRun
<1>2. ComparisonsOK /\ SnapsOK
    BY DEF Init, ComparisonsOK, SnapsOK, Absent
<1>3. ReceiptsOK /\ ReceiptSourcesKept
    BY DEF Init, ReceiptsOK, ReceiptSourcesKept, Receipted
<1> QED
    BY <1>1, <1>2, <1>3 DEF KeptInv

(* Every snapshot that a comparison receipt compares, or that its trial     *)
(* observed, is still in the database.                                      *)
THEOREM SourcesKept == Spec => []ReceiptSourcesKept
<1>1. Init => KeptInv
    BY KeptInit
<1>2. KeptInv /\ [Next]_vars => KeptInv'
    BY KeptNext
<1>3. KeptInv => ReceiptSourcesKept
    BY DEF KeptInv
<1> QED
    BY <1>1, <1>2, <1>3, PTL DEF Spec
-----------------------------------------------------------------------------
(* Induction over the receipts.  The library's induction theorems take the  *)
(* predicate as an operator; this one takes the set where it holds, and     *)
(* follows from the minimum of the numbers outside it.                      *)
LEMMA SetInduction ==
    ASSUME NEW S, 0 \in S, \A n \in Nat : n \in S => n + 1 \in S
    PROVE  Nat \subseteq S
<1> DEFINE R == OpToRel(<, Nat)
           T == {n \in Nat : n \notin S}
<1> SUFFICES ASSUME T # {} PROVE FALSE
    OBVIOUS
<1>1. IsWellFoundedOn(R, Nat) /\ T \subseteq Nat
    BY NatLessThanWellFounded
<1> HIDE DEF R
<1>2. PICK x \in T : \A y \in T : ~ (<<y, x>> \in R)
    <2> HIDE DEF T
    <2> QED
        BY <1>1, WFMin
<1>3. x \in Nat /\ x # 0 /\ x - 1 \in Nat /\ x - 1 \notin S
    OBVIOUS
<1>4. <<x - 1, x>> \in R
    BY <1>3 DEF R, OpToRel
<1> QED
    BY <1>2, <1>3, <1>4

(* _execution_receipt_authority_locked as a fold: one value for each prefix *)
(* of the receipts, of which Authority is the last.                         *)
Nothing == [valid |-> TRUE, latest |-> Atomic!NoLatest, anchor |-> Atomic!NoAnchor]
FoldsTo(f, k) ==
    f = [n \in 0..k |-> IF n = 0 THEN Nothing ELSE Folded(f[n - 1], receipts[n])]

LEMMA FoldExists == Len(receipts) \in Nat => \E f : FoldsTo(f, Len(receipts))
<1> DEFINE S == {k \in Nat : \E f : FoldsTo(f, k)}
<1>1. 0 \in S
    <2>1. FoldsTo([n \in 0..0 |-> Nothing], 0)
        BY DEF FoldsTo
    <2> QED
        BY <2>1
<1>2. ASSUME NEW k \in Nat, k \in S
      PROVE  k + 1 \in S
    <2>1. PICK f : FoldsTo(f, k)
        BY <1>2
    <2> DEFINE g == [n \in 0..k + 1 |-> IF n \in 0..k THEN f[n] ELSE Folded(f[k], receipts[k + 1])]
    <2>2. ASSUME NEW n \in 0..k + 1
          PROVE  g[n] = IF n = 0 THEN Nothing ELSE Folded(g[n - 1], receipts[n])
        <3>1. CASE n = 0
            BY <2>1, <3>1 DEF FoldsTo
        <3>2. CASE n \in 1..k
            <4>1. n - 1 \in 0..k /\ n \in 0..k /\ n # 0 /\ n - 1 \in 0..k+1
                BY <3>2
            <4>2. g[n] = f[n] /\ g[n - 1] = f[n - 1]
                BY <4>1
            <4>3. f[n] = Folded(f[n - 1], receipts[n])
                BY <2>1, <4>1 DEF FoldsTo
            <4> QED
                BY <4>1, <4>2, <4>3
        <3>3. CASE n = k + 1
            <4>1. n - 1 = k /\ k \in 0..k+1 /\ n \notin 0..k /\ n # 0 /\ k \in 0..k
                BY <3>3
            <4>2. g[n - 1] = f[k] /\ g[n] = Folded(f[k], receipts[k + 1])
                BY <4>1
            <4> QED
                BY <3>3, <4>1, <4>2
        <3> QED
            BY <3>1, <3>2, <3>3
    <2>3. FoldsTo(g, k + 1)
        <3>1. g = [n \in 0..k + 1 |-> IF n = 0 THEN Nothing ELSE Folded(g[n - 1], receipts[n])]
            <4> HIDE DEF g
            <4>1. g = [n \in 0..k + 1 |-> g[n]]
              BY DEF g
            <4> QED
            BY <2>2, <4>1
        <3> QED
            BY <3>1 DEF FoldsTo
    <2> QED
        BY <2>3
<1> HIDE DEF S
<1>3. Nat \subseteq S
    BY <1>1, <1>2, SetInduction
<1> QED
    BY <1>3 DEF S

LEMMA FoldUnique ==
    \A f, g : Len(receipts) \in Nat /\ FoldsTo(f, Len(receipts)) /\ FoldsTo(g, Len(receipts)) => f = g
<1> SUFFICES ASSUME NEW f, NEW g, Len(receipts) \in Nat,
                    FoldsTo(f, Len(receipts)), FoldsTo(g, Len(receipts))
             PROVE  f = g
    OBVIOUS
<1> DEFINE S == {k \in Nat : k \in 0..Len(receipts) => f[k] = g[k]}
<1>1. 0 \in S
    BY DEF FoldsTo
<1>2. ASSUME NEW k \in Nat, k \in S
      PROVE  k + 1 \in S
    <2> SUFFICES ASSUME k + 1 \in 0..Len(receipts) PROVE f[k + 1] = g[k + 1]
        OBVIOUS
    <2>1. k \in 0..Len(receipts) /\ (k + 1) - 1 = k /\ k + 1 # 0
        OBVIOUS
    <2>2. f[k] = g[k]
        BY <1>2, <2>1
    <2>3. f[k + 1] = Folded(f[k], receipts[k + 1]) /\ g[k + 1] = Folded(g[k], receipts[k + 1])
        BY <2>1 DEF FoldsTo
    <2> QED
        BY <2>2, <2>3
<1>3. Nat \subseteq S
    <2> HIDE DEF S
    <2> QED
        BY <1>1, <1>2, SetInduction
<1>4. \A k \in 0..Len(receipts) : f[k] = g[k]
    BY <1>3
<1>5. DOMAIN f = 0..Len(receipts) /\ DOMAIN g = 0..Len(receipts)
    BY DEF FoldsTo
<1>6. f = [k \in 0..Len(receipts) |-> f[k]] /\ g = [k \in 0..Len(receipts) |-> g[k]]
    BY DEF FoldsTo
<1> QED
    BY <1>4, <1>6

AuthorityFolds ==
    \A f : Len(receipts) \in Nat /\ FoldsTo(f, Len(receipts)) => Authority = f[Len(receipts)]
LEMMA AuthorityOfFold == AuthorityFolds
<1> SUFFICES ASSUME NEW f, Len(receipts) \in Nat, FoldsTo(f, Len(receipts))
             PROVE  Authority = f[Len(receipts)]
    BY DEF AuthorityFolds
<1> DEFINE c == CHOOSE g : FoldsTo(g, Len(receipts))
<1>1. FoldsTo(c, Len(receipts))
    OBVIOUS
<1>2. c = f
    BY <1>1, FoldUnique
<1>3. Authority = c[Len(receipts)]
    BY DEF Authority, FoldsTo, Nothing
<1> QED
    BY <1>2, <1>3

(* ... in the next state as well. *)
LEMMA NextAuthorityOfFold ==
    \A f : Len(receipts)' \in Nat /\ FoldsTo(f, Len(receipts))' => Authority' = f[Len(receipts)']
<1>1. AuthorityFolds'
    BY AuthorityOfFold, PTL
<1> QED
    BY <1>1 DEF AuthorityFolds

(* What a prefix of the receipts leaves: the latest comparison and the      *)
(* anchor name snapshots that those receipts compare.                       *)
Compared == {receipts[n].after : n \in 1..Len(receipts)}
LeavesOK(a) ==
    /\ a.valid \in BOOLEAN
    /\ a.latest \in Atomic!Latest /\ a.latest.after \in {0} \cup Compared
    /\ a.anchor \in Atomic!Anchors
    /\ a.anchor # Atomic!NoAnchor => a.anchor.recovery \in Compared

LEMMA NothingOK == LeavesOK(Nothing)
<1>1. Atomic!NoLatest \in Atomic!Latest
    BY LimitsAssumption DEF Atomic!NoLatest, Atomic!Latest, Atomic!Unactioned, Atomic!Bindings, Atomic!Times
<1> QED
    BY <1>1 DEF Nothing, LeavesOK, Atomic!NoLatest, Atomic!Anchors

(* A trial that moves the anchor leaves a well-formed one. *)
LEMMA AnchorAfterOK ==
    ASSUME NEW a \in Atomic!Anchors, NEW trial \in Trials, NEW after \in SnapIds
    PROVE  /\ AnchorAfter(a, trial, after) \in Atomic!Anchors
           /\ AnchorAfter(a, trial, after) # Atomic!NoAnchor =>
                 /\ Failing(trial)
                 /\ AnchorAfter(a, trial, after).recovery = after
                 /\ AnchorAfter(a, trial, after).scenario = trial.scenario
           /\ Failing(trial) => AnchorAfter(a, trial, after) # Atomic!NoAnchor
<1>1. CASE Failing(trial)
    <2> DEFINE s == IF a.status = "observed_failure" THEN a.status ELSE trial.status
    <2>1. s \in {"observed_failure", "not_verified"} /\ trial.scenario \in Scenarios
        BY <1>1 DEF Failing, Trials
    <2>2. AnchorAfter(a, trial, after) = [status |-> s, scenario |-> trial.scenario, recovery |-> after]
        BY <1>1 DEF AnchorAfter
    <2> HIDE DEF s
    <2> QED
        BY <1>1, <2>1, <2>2 DEF Atomic!Anchors, Atomic!NoAnchor, SnapIds
<1>2. CASE ~Failing(trial)
    BY <1>2 DEF AnchorAfter, Atomic!Anchors
<1> QED
    BY <1>1, <1>2

LEMMA FoldedOK ==
    ASSUME NEW a, LeavesOK(a), receipts \in Seq(Receipts), NEW n \in 1..Len(receipts)
    PROVE  LeavesOK(Folded(a, receipts[n]))
<1> DEFINE r == receipts[n]
           g == Folded(a, r)
<1>1. r \in Receipts /\ r.after \in Compared
    BY DEF Compared
<1>0. r.after \in SnapIds
    BY <1>1 DEF Receipts
<1>2. g.valid \in BOOLEAN
    BY DEF Folded
<1>3. g.latest \in Atomic!Latest /\ g.latest.after = r.after
    BY <1>0, <1>1 DEF Folded, LatestOf, Receipts, Atomic!Latest, SnapIds, Atomic!SnapIds
<1>4. \/ g.anchor = a.anchor
      \/ r.trial # NoTrial /\ g.anchor = AnchorAfter(a.anchor, r.trial, r.after)
    BY DEF Folded, Retrial
<1>5. /\ g.anchor \in Atomic!Anchors
      /\ g.anchor # Atomic!NoAnchor => g.anchor.recovery \in Compared
    <2> HIDE DEF g
    <2>1. CASE g.anchor = a.anchor
        BY <2>1 DEF LeavesOK
    <2>2. CASE r.trial # NoTrial /\ g.anchor = AnchorAfter(a.anchor, r.trial, r.after)
        <3>1. r.trial \in Trials
            BY <1>1, <2>2 DEF Receipts
        <3> QED
            BY <1>0, <1>1, <2>2, <3>1, AnchorAfterOK DEF LeavesOK
    <2> QED
        BY <1>4, <2>1, <2>2
<1> QED
    BY <1>1, <1>2, <1>3, <1>5 DEF LeavesOK

LEMMA FoldOK ==
    ASSUME receipts \in Seq(Receipts), NEW f, FoldsTo(f, Len(receipts))
    PROVE  \A k \in 0..Len(receipts) : LeavesOK(f[k])
<1> DEFINE S == {k \in Nat : k \in 0..Len(receipts) => LeavesOK(f[k])}
<1>1. 0 \in S
    BY NothingOK DEF FoldsTo
<1>2. ASSUME NEW k \in Nat, k \in S
      PROVE  k + 1 \in S
    <2> SUFFICES ASSUME k + 1 \in 0..Len(receipts) PROVE LeavesOK(f[k + 1])
        OBVIOUS
    <2>1. k \in 0..Len(receipts) /\ k + 1 \in 1..Len(receipts) /\ (k + 1) - 1 = k /\ k + 1 # 0
        OBVIOUS
    <2>2. f[k + 1] = Folded(f[k], receipts[k + 1])
        BY <2>1 DEF FoldsTo
    <2> QED
        BY <1>2, <2>1, <2>2, FoldedOK
<1>3. Nat \subseteq S
    <2> HIDE DEF S
    <2> QED
        BY <1>1, <1>2, SetInduction
<1> QED
    BY <1>3

LEMMA AuthorityLeaves ==
    ASSUME receipts \in Seq(Receipts)
    PROVE  LeavesOK(Authority)
<1>1. PICK f : FoldsTo(f, Len(receipts))
    BY FoldExists
<1> QED
    BY <1>1, FoldOK, AuthorityOfFold DEF AuthorityFolds

(* Receipts are re-validated against the snapshots they name and the run's  *)
(* start: what leaves those alone leaves the result alone.                  *)
LEMMA FoldedStable ==
    ASSUME NEW a, LeavesOK(a), NEW r \in Receipts, NEW known,
           Sources(r) \subseteq known, Compared \subseteq known,
           \A i \in known : snaps'[i] = snaps[i],
           run'.before = run.before, run'.started = run.started
    PROVE  Folded(a, r)' = Folded(a, r)
<1>1. r.after \in known /\ run.before \in known
      /\ (r.trial # NoTrial => r.trial.pre \in known /\ r.trial.post \in known)
    BY DEF Sources
<1>2. PostChange(r.after, r.binding)' = PostChange(r.after, r.binding)
    BY <1>1 DEF PostChange, CompletedBefore
<1>3. a.latest.after # 0 => Newer(r.after, a.latest.after)' = Newer(r.after, a.latest.after)
    BY <1>1 DEF Newer, LeavesOK
<1>4. r.trial # NoTrial =>
         TrialInOrder(r.trial, r.after, r.binding)' = TrialInOrder(r.trial, r.after, r.binding)
    BY <1>1 DEF TrialInOrder, CompletedBefore, Kept
<1>5. a.anchor # Atomic!NoAnchor => Retrial(a.anchor, r.trial)' = Retrial(a.anchor, r.trial)
    BY <1>1 DEF Retrial, Newer, LeavesOK
<1> DEFINE v == /\ a.valid
                /\ PostChange(r.after, r.binding)
                /\ a.latest.after # 0 /\ a.latest.binding = r.binding => Newer(r.after, a.latest.after)
                /\ r.trial # NoTrial =>
                      TrialInOrder(r.trial, r.after, r.binding) /\ run.before < r.trial.pre
           b == IF \/ a.anchor = Atomic!NoAnchor /\ r.trial # NoTrial
                   \/ a.anchor # Atomic!NoAnchor /\ Retrial(a.anchor, r.trial)
                THEN AnchorAfter(a.anchor, r.trial, r.after) ELSE a.anchor
<1>6. v' = v
    BY <1>2, <1>3, <1>4
<1>7. b' = b
    BY <1>5 DEF AnchorAfter
<1>8. Folded(a, r) = [valid |-> v, latest |-> LatestOf(r), anchor |-> b]
    BY DEF Folded
<1>9. Folded(a, r)' = [valid |-> v', latest |-> LatestOf(r), anchor |-> b']
    BY DEF Folded, LatestOf
<1> HIDE DEF v, b
<1> QED
    BY <1>6, <1>7, <1>8, <1>9

LEMMA ReceiptsKnown ==
    ASSUME receipts \in Seq(Receipts)
    PROVE  /\ Compared \subseteq Receipted
           /\ \A n \in 1..Len(receipts) : receipts[n] \in Receipts /\ Sources(receipts[n]) \subseteq Receipted
BY DEF Compared, Receipted, Sources

LEMMA AuthorityStable ==
    ASSUME receipts \in Seq(Receipts), UNCHANGED receipts,
           run'.before = run.before, run'.started = run.started,
           \A i \in Receipted : snaps'[i] = snaps[i]
    PROVE  Authority' = Authority
<1>1. PICK f : FoldsTo(f, Len(receipts))
    BY FoldExists
<1>2. \A k \in 0..Len(receipts) : LeavesOK(f[k])
    BY <1>1, FoldOK
<1>3. ASSUME NEW n \in 1..Len(receipts)
      PROVE  Folded(f[n - 1], receipts[n])' = Folded(f[n - 1], receipts[n])
    <2> DEFINE a == f[n - 1]
               r == receipts[n]
    <2>1. LeavesOK(a) /\ r \in Receipts /\ Sources(r) \subseteq Receipted /\ Compared \subseteq Receipted
        BY <1>2, ReceiptsKnown
    <2>2. a' = a /\ r' = r
        OBVIOUS
    <2> QED
        BY <2>1, <2>2, FoldedStable
<1>4. FoldsTo(f, Len(receipts))'
    <2>1. f = [n \in 0..Len(receipts) |-> IF n = 0 THEN Nothing ELSE Folded(f[n - 1], receipts[n])]
        BY <1>1 DEF FoldsTo
    <2>2. \A n \in 0..Len(receipts) :
             (IF n = 0 THEN Nothing ELSE Folded(f[n - 1], receipts[n]))
             = IF n = 0 THEN Nothing ELSE Folded(f[n - 1], receipts[n])'
        <3> SUFFICES ASSUME NEW n \in 0..Len(receipts), n # 0
                     PROVE  Folded(f[n - 1], receipts[n]) = Folded(f[n - 1], receipts[n])'
            OBVIOUS
        <3> QED
            BY <1>3
    <2>3. f = [n \in 0..Len(receipts) |-> IF n = 0 THEN Nothing ELSE Folded(f[n - 1], receipts[n])']
        BY <2>1, <2>2, Zenon
    <2>4. Nothing' = Nothing
        BY DEF Nothing
    <2> QED
        BY <2>3, <2>4 DEF FoldsTo
<1> QED
    BY <1>1, <1>4, AuthorityOfFold, NextAuthorityOfFold DEF AuthorityFolds

LEMMA FoldedSame ==
    ASSUME NEW a, NEW r, UNCHANGED snaps, run'.before = run.before, run'.started = run.started
    PROVE  Folded(a, r)' = Folded(a, r)
<1>1. /\ PostChange(r.after, r.binding)' = PostChange(r.after, r.binding)
      /\ Newer(r.after, a.latest.after)' = Newer(r.after, a.latest.after)
      /\ TrialInOrder(r.trial, r.after, r.binding)' = TrialInOrder(r.trial, r.after, r.binding)
      /\ Retrial(a.anchor, r.trial)' = Retrial(a.anchor, r.trial)
    BY DEF PostChange, CompletedBefore, Newer, TrialInOrder, Kept, Retrial
<1> QED
    BY <1>1, Zenon DEF Folded, LatestOf, AnchorAfter, Failing

(* A new receipt takes the result one step further. *)
LEMMA AuthorityAppended ==
    ASSUME receipts \in Seq(Receipts), NEW r \in Receipts, receipts' = Append(receipts, r),
           UNCHANGED snaps, run'.before = run.before, run'.started = run.started
    PROVE  Authority' = Folded(Authority, r)
<1>k. PICK k \in Nat : k = Len(receipts)
    OBVIOUS
<1>0. Len(receipts') = k + 1 /\ receipts'[k + 1] = r /\ \A n \in 1..k : receipts'[n] = receipts[n]
    BY <1>k
<1>1. PICK f : FoldsTo(f, k)
    BY <1>k, FoldExists
<1>g. PICK g : g = [n \in 0..k + 1 |-> IF n \in 0..k THEN f[n] ELSE Folded(f[k], r)]
    OBVIOUS
<1>2. ASSUME NEW n \in 0..k + 1
      PROVE  g[n] = IF n = 0 THEN Nothing ELSE Folded(g[n - 1], receipts'[n])
    <2>1. CASE n = 0
        BY <1>g, <1>1, <2>1 DEF FoldsTo
    <2>2. CASE n \in 1..k
        <3>1. n - 1 \in 0..k /\ n \in 0..k /\ n # 0 /\ n - 1 \in 0..k + 1
            BY <1>0, <2>2
        <3>2. g[n] = f[n] /\ g[n - 1] = f[n - 1] /\ receipts'[n] = receipts[n]
            BY <1>0, <1>g, <2>2, <3>1
        <3>3. f[n] = Folded(f[n - 1], receipts[n])
            BY <1>1, <3>1 DEF FoldsTo
        <3> QED
            BY <3>1, <3>2, <3>3
    <2>3. CASE n = k + 1
        <3>1. n - 1 = k /\ k \in 0..k + 1 /\ n \notin 0..k /\ n # 0 /\ k \in 0..k
            BY <1>0, <2>3
        <3>2. g[n - 1] = f[k] /\ g[n] = Folded(f[k], r)
            BY <1>g, <3>1
        <3> QED
            BY <1>0, <2>3, <3>1, <3>2
    <2> QED
        BY <1>0, <2>1, <2>2, <2>3
<1>3. \A n \in 0..k + 1 : Folded(g[n - 1], receipts'[n]) = Folded(g[n - 1], receipts[n])'
    <2> SUFFICES ASSUME NEW n \in 0..k + 1
                 PROVE  Folded(g[n - 1], receipts'[n]) = Folded(g[n - 1], receipts[n])'
        OBVIOUS
    <2>1. PICK a, s : a = g[n - 1] /\ s = receipts'[n]
        OBVIOUS
    <2>2. Folded(a, s)' = Folded(a, s)
        BY FoldedSame
    <2>3. Folded(a, s)' = Folded(g[n - 1], receipts[n])'
        BY <2>1
    <2> QED
        BY <2>1, <2>2, <2>3
<1>4. FoldsTo(g, Len(receipts))'
    <2>1. g = [n \in 0..k + 1 |-> g[n]]
        BY <1>g
    <2>2. g = [n \in 0..k + 1 |-> IF n = 0 THEN Nothing ELSE Folded(g[n - 1], receipts[n])']
        BY <1>2, <1>3, <2>1
    <2>3. Nothing' = Nothing
        BY DEF Nothing
    <2> QED
        BY <1>0, <2>2, <2>3 DEF FoldsTo
<1>5. Authority' = g[k + 1]
    BY <1>0, <1>4, NextAuthorityOfFold
<1>6. g[k + 1] = Folded(f[k], r)
    BY <1>g
<1>7. Authority = f[k]
    BY <1>k, <1>1, AuthorityOfFold DEF AuthorityFolds
<1> QED
    BY <1>5, <1>6, <1>7

EmptyHistory == receipts = <<>> => Authority = Nothing
LEMMA NoReceipts == EmptyHistory
<1> SUFFICES ASSUME receipts = <<>> PROVE Authority = Nothing
    BY DEF EmptyHistory
<1>1. Len(receipts) = 0
    OBVIOUS
<1>2. PICK f : FoldsTo(f, 0)
    BY <1>1, FoldExists
<1>3. f[0] = Nothing
    BY <1>2 DEF FoldsTo
<1> QED
    BY <1>1, <1>2, <1>3, AuthorityOfFold DEF AuthorityFolds

-----------------------------------------------------------------------------
(* The invariant behind the record's promises.  What a flight read is what  *)
(* the next save or comparison acts on.                                     *)
UploadsOK == DOMAIN upload = Procs /\ \A p \in Procs : upload[p] # Idle =>
    upload[p].collected \in Int /\ upload[p].uploaded \in 0..MaxTime
EditsOK == \A p \in Procs : mut[p] # Idle =>
    /\ mut[p].ended \in 0..MaxTime
    /\ mut[p].fresh => Live /\ \E q \in Atomic!Requests, t \in 1..MaxTime :
          Atomic!Allowed(run.rec, q) /\ mut[p].rec = Atomic!Apply(run.rec, q, t)
ComparedOK == \A p \in Procs : cmp[p] # Idle => Atomic!Implemented(cmp[p].binding)
(* A snapshot not yet numbered has no row; a receipt's is numbered after    *)
(* the run's start.                                                         *)
NumberedOK == \A i \in SnapIds : i > nextId => snaps[i].state = "absent"
LateOK == Running =>
    run.before <= run.watermark /\ \A n \in 1..Len(receipts) : receipts[n].after > run.watermark
(* Only a run the receipts clear is recorded as a success. *)
ClearedOK == Running =>
    /\ Atomic!Live(run.rec) => run.rec.outcome = "none"
    /\ run.rec.outcome \in Atomic!Successes => Atomic!ComparedClean(run.rec)
(* A failure without its retrial holds the anchor, or a newer trial of the  *)
(* same scenario that did not survive either holds it.                      *)
Resolved(n) == \E m \in n + 1..Len(receipts) :
    /\ receipts[m].trial.status = "observed_survival"
    /\ receipts[m].trial.scenario = receipts[n].trial.scenario
    /\ Newer(receipts[m].trial.pre, receipts[n].after)
Anchored(n) ==
    /\ Authority.anchor # Atomic!NoAnchor
    /\ Authority.anchor.scenario = receipts[n].trial.scenario
    /\ \/ Authority.anchor.recovery = receipts[n].after
       \/ Newer(Authority.anchor.recovery, receipts[n].after)
RatchetOK == \A n \in 1..Len(receipts) :
    Failing(receipts[n].trial) => Resolved(n) \/ Anchored(n)

HistoryInv == AuthorityReconciles /\ LateOK /\ ClearedOK /\ RatchetOK
FlightsInv == UploadsOK /\ EditsOK /\ ComparedOK
RecordInv == KeptInv /\ TypeOK /\ NumberedOK /\ FlightsInv /\ HistoryInv
(* Every step is one of the atomic record's, or leaves it alone. *)
RecordStep == [Atomic!Next]_(run.rec)

(* The parts of the type invariant. *)
RunRecords == [rec : Atomic!Record, before : SnapIds, started : 1..MaxTime,
               ended : 0..MaxTime, watermark : SnapIds]
RunTyped == run = NoRun \/ run \in RunRecords
SnapsTyped == snaps \in [SnapIds -> Rows] /\ nextId \in 1..MaxSnaps
ReceiptsTyped == receipts \in Seq(Receipts) /\ Len(receipts) <= MaxReceipts
ClocksTyped == wall \in 0..MaxTime /\ last \in [Procs -> 0..MaxTime]
CopiesTyped == \A p \in Procs : mut[p] # Idle => mut[p].rec \in Atomic!Record
LEMMA TypedParts ==
    /\ TypeOK <=> RunTyped /\ SnapsTyped /\ ReceiptsTyped /\ ClocksTyped /\ CopiesTyped
    /\ TypeOK' <=> RunTyped' /\ SnapsTyped' /\ ReceiptsTyped' /\ ClocksTyped' /\ CopiesTyped'
BY Zenon DEF TypeOK, RunTyped, RunRecords, SnapsTyped, ReceiptsTyped, ClocksTyped, CopiesTyped

-----------------------------------------------------------------------------
(* The mutations of the record. *)
LEMMA NoRunStatus == Atomic!NoRun.status = "no run"
BY DEF Atomic!NoRun

LEMMA OutcomeIsOne ==
    ASSUME NEW r, NEW s
    PROVE  Atomic!DeriveOutcome(r, s) \in Atomic!Outcomes
BY DEF Atomic!DeriveOutcome, Atomic!Outcomes

(* What a mutation leaves alone.                                            *)
Applied(n, r, q) ==
    /\ n \in Atomic!Record /\ n.latest = r.latest /\ n.anchor = r.anchor
    /\ q.op # "finish" => n.status = r.status /\ n.outcome = r.outcome
    /\ q.op = "finish" =>
          n = [r EXCEPT !.status = q.to, !.outcome = Atomic!DeriveOutcome(r, q.to)]
LEMMA ApplyTyped ==
    ASSUME NEW r \in Atomic!Record, NEW q \in Atomic!Requests, NEW t \in 1..MaxTime
    PROVE  Applied(Atomic!Apply(r, q, t), r, q)
<1> DEFINE d == r.deviated \/ Atomic!Deviates(q)
           l == [r EXCEPT !.deviated = @ \/ Atomic!Deviates(q)]
           n == Atomic!Apply(r, q, t)
<1> SUFFICES Applied(n, r, q)
    OBVIOUS
<1>1. d \in BOOLEAN /\ l = [r EXCEPT !.deviated = d]
    BY DEF Atomic!Record
<1> HIDE DEF d
<1>2. /\ l \in Atomic!Record /\ l.latest = r.latest /\ l.anchor = r.anchor
      /\ l.status = r.status /\ l.outcome = r.outcome /\ l.step = r.step
      /\ l.check = r.check /\ l.close = r.close /\ l.deviated = d
    BY <1>1 DEF Atomic!Record
<1> HIDE DEF l
<1>3. CASE q.op = "step"
    <2>1. q.item \in Steps /\ q.to \in {"pending", "done", "skipped"}
        BY <1>3 DEF Atomic!Requests
    <2> DEFINE e == [status |-> q.to, at |-> IF q.to = "pending" THEN 0 ELSE t]
               b == [l.step EXCEPT ![q.item] = e]
    <2>2. n = [l EXCEPT !.step = b]
        BY <1>3 DEF Atomic!Apply, l
    <2>3. b \in Atomic!Bindings
        BY <1>2, <2>1, LimitsAssumption DEF Atomic!Bindings, Atomic!Times, Atomic!Record
    <2> HIDE DEF b, n
    <2> QED
        BY <1>2, <1>3, <2>2, <2>3 DEF Atomic!Record, Applied
<1>4. CASE q.op = "check"
    <2>1. q.item \in Checks /\ q.to \in {"pending", "pass", "fail", "na"}
        BY <1>4 DEF Atomic!Requests
    <2> DEFINE b == [l.check EXCEPT ![q.item] = q.to]
    <2>2. n = [l EXCEPT !.check = b]
        BY <1>4 DEF Atomic!Apply, l
    <2>3. b \in [Checks -> {"pending", "pass", "fail", "na"}]
        BY <1>2, <2>1 DEF Atomic!Record
    <2> HIDE DEF b, n
    <2> QED
        BY <1>2, <1>4, <2>2, <2>3 DEF Atomic!Record, Applied
<1>5. CASE q.op = "closeout"
    <2>1. q.item \in Waves /\ q.to \in Atomic!Closed
        BY <1>5 DEF Atomic!Requests
    <2> DEFINE b == [l.close EXCEPT ![q.item] = q.to]
    <2>2. n = [l EXCEPT !.close = b]
        BY <1>5 DEF Atomic!Apply, l
    <2>3. b \in [Waves -> {"open"} \cup Atomic!Closed]
        BY <1>2, <2>1 DEF Atomic!Record
    <2> HIDE DEF b, n
    <2> QED
        BY <1>2, <1>5, <2>2, <2>3 DEF Atomic!Record, Applied
<1>6. CASE q.op = "event"
    <2>1. n = l
        BY <1>6 DEF Atomic!Apply, l
    <2> QED
        BY <1>2, <1>6, <2>1 DEF Applied
<1>7. CASE q.op = "finish"
    <2>1. q.to \in {"completed", "aborted"} /\ ~Atomic!Deviates(q)
        BY <1>7 DEF Atomic!Requests, Atomic!Deviates
    <2>2. l = r
        <3>1. d = r.deviated
            BY <2>1 DEF d, Atomic!Record
        <3> QED
            BY <1>1, <3>1 DEF Atomic!Record, l
    <2>4. n = [r EXCEPT !.status = q.to, !.outcome = Atomic!DeriveOutcome(r, q.to)]
        BY <1>7, <2>2 DEF Atomic!Apply, l
    <2>5. Atomic!DeriveOutcome(r, q.to) \in {"none"} \cup Atomic!Outcomes
        BY OutcomeIsOne
    <2> HIDE DEF n
    <2> QED
        BY <1>7, <2>1, <2>4, <2>5 DEF Atomic!Record, Applied
<1> HIDE DEF n
<1> QED
    BY <1>3, <1>4, <1>5, <1>6, <1>7 DEF Atomic!Requests

(* A finish is judged by what it does not change. *)
LEMMA OutcomeStable ==
    ASSUME NEW r \in Atomic!Record, NEW s \in {"completed", "aborted"}, NEW o
    PROVE  Atomic!DeriveOutcome([r EXCEPT !.status = s, !.outcome = o], s) = Atomic!DeriveOutcome(r, s)
<1> DEFINE n == [r EXCEPT !.status = s, !.outcome = o]
<1>1. /\ n.step = r.step /\ n.check = r.check /\ n.close = r.close /\ n.deviated = r.deviated
      /\ n.latest = r.latest /\ n.anchor = r.anchor
    BY DEF Atomic!Record
<1> HIDE DEF n
<1>2. /\ Atomic!AllComplete(n) = Atomic!AllComplete(r)
      /\ Atomic!AllActioned(n) = Atomic!AllActioned(r)
      /\ Atomic!ComparedClean(n) = Atomic!ComparedClean(r)
      /\ Atomic!Deviated(n) = Atomic!Deviated(r)
    BY <1>1, Zenon DEF Atomic!AllComplete, Atomic!AllActioned, Atomic!ComparedClean, Atomic!Deviated
<1>3. Atomic!DeriveOutcome(n, s) = Atomic!DeriveOutcome(r, s)
    BY <1>1, <1>2 DEF Atomic!DeriveOutcome
<1> QED
    BY <1>3 DEF n

LEMMA SuccessCompared ==
    ASSUME NEW r, NEW s, Atomic!DeriveOutcome(r, s) \in Atomic!Successes
    PROVE  Atomic!ComparedClean(r)
BY DEF Atomic!DeriveOutcome, Atomic!Successes

LEMMA SameComparedClean ==
    ASSUME NEW r, NEW n, n.anchor = r.anchor, n.latest = r.latest, n.step = r.step
    PROVE  Atomic!ComparedClean(n) = Atomic!ComparedClean(r)
BY Zenon DEF Atomic!ComparedClean

(* A live run that reads as it is stored. *)
LEMMA ProjectedIsRecord ==
    ASSUME TypeOK, AuthorityReconciles, Running
    PROVE  Projected = run.rec /\ run \in RunRecords /\ run.rec \in Atomic!Record
<1>1. run \in RunRecords
    BY TypedParts DEF RunTyped, Running
<1>2. run.rec \in Atomic!Record
    BY <1>1 DEF RunRecords
<1>3. run.rec.latest = Authority.latest /\ run.rec.anchor = Authority.anchor
    BY DEF AuthorityReconciles
<1>4. [run.rec EXCEPT !.latest = run.rec.latest, !.anchor = run.rec.anchor] = run.rec
    BY <1>2 DEF Atomic!Record
<1> QED
    BY <1>1, <1>2, <1>3, <1>4, Zenon DEF Projected

(* Saving a mutation of the stored record changes nothing of it, and a      *)
(* success it records is one the receipts clear.                            *)
LEMMA AuthorisedApply ==
    ASSUME TypeOK, HistoryInv, Live, NEW q \in Atomic!Requests, NEW t \in 1..MaxTime,
           Atomic!Allowed(run.rec, q)
    PROVE  LET n == Atomic!Apply(run.rec, q, t) IN
           /\ Authorised(n) = n /\ n \in Atomic!Record
           /\ n.latest = run.rec.latest /\ n.anchor = run.rec.anchor
           /\ Atomic!Live(n) => n.outcome = "none"
           /\ n.outcome \in Atomic!Successes => Atomic!ComparedClean(n)
<1> DEFINE n == Atomic!Apply(run.rec, q, t)
<1> SUFFICES
        /\ Authorised(n) = n /\ n \in Atomic!Record
        /\ n.latest = run.rec.latest /\ n.anchor = run.rec.anchor
        /\ Atomic!Live(n) => n.outcome = "none"
        /\ n.outcome \in Atomic!Successes => Atomic!ComparedClean(n)
    OBVIOUS
<1>1. Running /\ run.rec \in Atomic!Record /\ Atomic!Live(run.rec)
    BY ProjectedIsRecord DEF HistoryInv, Live
<1>2. /\ n \in Atomic!Record /\ n.latest = run.rec.latest /\ n.anchor = run.rec.anchor
      /\ q.op # "finish" => n.status = run.rec.status /\ n.outcome = run.rec.outcome
      /\ q.op = "finish" =>
            n = [run.rec EXCEPT !.status = q.to, !.outcome = Atomic!DeriveOutcome(run.rec, q.to)]
    <2>1. Applied(n, run.rec, q)
        BY <1>1, ApplyTyped
    <2> HIDE DEF n
    <2> QED
        BY <2>1, Zenon DEF Applied
<1>3. run.rec.outcome = "none" /\ run.rec.latest = Authority.latest /\ run.rec.anchor = Authority.anchor
    BY <1>1 DEF HistoryInv, ClearedOK, AuthorityReconciles
<1> HIDE DEF n
<1>4. [n EXCEPT !.latest = Authority.latest, !.anchor = Authority.anchor] = n
    <2>1. [n EXCEPT !.latest = n.latest, !.anchor = n.anchor] = n
        BY <1>2 DEF Atomic!Record
    <2> QED
        BY <1>2, <1>3, <2>1, Zenon
<1>5. Authorised(n) = IF Atomic!Live(n) THEN n
                      ELSE [n EXCEPT !.outcome = Atomic!DeriveOutcome(n, n.status)]
    <2> DEFINE m == [n EXCEPT !.latest = Authority.latest, !.anchor = Authority.anchor]
    <2>1. Authorised(n) = IF Atomic!Live(m) THEN m
                          ELSE [m EXCEPT !.outcome = Atomic!DeriveOutcome(m, m.status)]
        BY DEF Authorised
    <2> HIDE DEF m
    <2>2. m = n
        BY <1>4 DEF m
    <2> QED
        BY <2>1, <2>2, Zenon
<1>6. CASE q.op # "finish"
    BY <1>1, <1>2, <1>3, <1>5, <1>6 DEF Atomic!Live, Atomic!Successes
<1>7. CASE q.op = "finish"
    <2>1. q.to \in {"completed", "aborted"}
        BY <1>7 DEF Atomic!Requests
    <2>2. /\ n.status = q.to /\ n.outcome = Atomic!DeriveOutcome(run.rec, q.to)
          /\ n.step = run.rec.step
        BY <1>1, <1>2, <1>7 DEF Atomic!Record
    <2>3. Atomic!DeriveOutcome(n, q.to) = Atomic!DeriveOutcome(run.rec, q.to)
        <3> DEFINE o == Atomic!DeriveOutcome(run.rec, q.to)
        <3>1. \A x : Atomic!DeriveOutcome([run.rec EXCEPT !.status = q.to, !.outcome = x], q.to) = o
            BY <1>1, <2>1, OutcomeStable
        <3>2. n = [run.rec EXCEPT !.status = q.to, !.outcome = o]
            BY <1>2, <1>7
        <3> QED
            BY <3>1, <3>2
    <2>4. [n EXCEPT !.outcome = n.outcome] = n
        BY <1>2 DEF Atomic!Record
    <2>5. Authorised(n) = n
        BY <1>5, <2>2, <2>3, <2>4, Zenon
    <2>6. n.outcome \in Atomic!Successes => Atomic!ComparedClean(n)
        BY <1>2, <2>2, SuccessCompared, SameComparedClean
    <2>7. ~Atomic!Live(n)
        BY <2>1, <2>2 DEF Atomic!Live
    <2> QED
        BY <1>2, <2>5, <2>6, <2>7
<1> QED
    BY <1>6, <1>7

-----------------------------------------------------------------------------
(* Steps that leave the run, its receipts and the snapshots they name alone *)
(* leave the whole history alone.                                           *)
LEMMA NewerStable ==
    ASSUME NEW i, NEW j, snaps'[i] = snaps[i], snaps'[j] = snaps[j]
    PROVE  Newer(i, j)' = Newer(i, j)
BY DEF Newer

LEMMA RatchetStable ==
    ASSUME receipts \in Seq(Receipts), RatchetOK, UNCHANGED receipts, Authority' = Authority,
           \A i \in Receipted : snaps'[i] = snaps[i]
    PROVE  RatchetOK'
<1>1. \A n \in 1..Len(receipts) : snaps'[receipts[n].after] = snaps[receipts[n].after]
    BY ReceiptsKnown DEF Sources
<1>2. ASSUME NEW n \in 1..Len(receipts), Resolved(n)
      PROVE  Resolved(n)'
    <2>1. PICK m \in n + 1..Len(receipts) :
             /\ receipts[m].trial.status = "observed_survival"
             /\ receipts[m].trial.scenario = receipts[n].trial.scenario
             /\ Newer(receipts[m].trial.pre, receipts[n].after)
        BY <1>2 DEF Resolved
    <2>2. m \in 1..Len(receipts) /\ receipts[m].trial # NoTrial
        BY <2>1 DEF NoTrial
    <2>3. snaps'[receipts[m].trial.pre] = snaps[receipts[m].trial.pre]
        BY <2>2, ReceiptsKnown DEF Sources
    <2>4. Newer(receipts[m].trial.pre, receipts[n].after)'
        BY <1>1, <2>1, <2>3 DEF Newer
    <2> QED
        BY <2>1, <2>4 DEF Resolved
<1>3. ASSUME NEW n \in 1..Len(receipts), Anchored(n)
      PROVE  Anchored(n)'
    <2>1. Authority.anchor.recovery \in Compared
        BY <1>3, AuthorityLeaves DEF Anchored, LeavesOK
    <2>2. snaps'[Authority.anchor.recovery] = snaps[Authority.anchor.recovery]
        BY <2>1, ReceiptsKnown
    <2> QED
        BY <1>1, <1>3, <2>2 DEF Anchored, Newer
<1>4. ASSUME NEW n \in 1..Len(receipts), Failing(receipts[n].trial)
      PROVE  Resolved(n)' \/ Anchored(n)'
    BY <1>2, <1>3, <1>4 DEF RatchetOK
<1> QED
    BY <1>4 DEF RatchetOK, Failing

LEMMA SameHistory ==
    ASSUME RecordInv, UNCHANGED <<run, receipts>>, \A i \in Receipted : snaps'[i] = snaps[i]
    PROVE  HistoryInv' /\ RecordStep /\ Authority' = Authority
<1>1. receipts \in Seq(Receipts) /\ HistoryInv
    BY TypedParts DEF RecordInv, ReceiptsTyped
<1>2. Authority' = Authority
    BY <1>1, AuthorityStable
<1>3. RatchetOK'
    BY <1>1, <1>2, RatchetStable DEF HistoryInv
<1>4. AuthorityReconciles' /\ LateOK' /\ ClearedOK'
    BY <1>1, <1>2 DEF HistoryInv, AuthorityReconciles, LateOK, ClearedOK, Running
<1> QED
    BY <1>2, <1>3, <1>4 DEF HistoryInv, RecordStep

(* Flights that are only ended, or outdated. *)
LEMMA EndedFlights ==
    ASSUME RecordInv, UNCHANGED run,
           UNCHANGED mut \/ \E p \in Procs : mut' = [mut EXCEPT ![p] = Idle],
           UNCHANGED cmp \/ \E p \in Procs : cmp' = [cmp EXCEPT ![p] = Idle]
    PROVE  EditsOK' /\ ComparedOK' /\ CopiesTyped'
<1>1. /\ DOMAIN mut = Procs /\ DOMAIN cmp = Procs /\ CopiesTyped
    BY TypedParts DEF RecordInv, KeptInv, SignedInv, MutationsOK, ComparisonsOK
<1>2. \A f \in Procs : (mut'[f] # Idle => mut'[f] = mut[f]) /\ (cmp'[f] # Idle => cmp'[f] = cmp[f])
    BY <1>1
<1> QED
    BY <1>1, <1>2 DEF RecordInv, FlightsInv, EditsOK, ComparedOK, CopiesTyped, Live, Running

LEMMA OutdatedEdits ==
    ASSUME RecordInv,
           \/ mut' = Outdated(mut)
           \/ \E p \in Procs : mut' = [Outdated(mut) EXCEPT ![p] = Idle]
    PROVE  EditsOK' /\ CopiesTyped'
<1>1. MutationsOK /\ EditsOK /\ CopiesTyped
    BY TypedParts DEF RecordInv, KeptInv, SignedInv, FlightsInv
<1>2. ASSUME NEW f \in Procs, mut'[f] # Idle
      PROVE  /\ mut'[f].fresh = FALSE /\ mut'[f].ended \in 0..MaxTime
             /\ mut'[f].rec \in Atomic!Record
    <2>1. mut'[f] = Outdated(mut)[f] /\ mut[f] # Idle
        BY <1>1, <1>2, OutdatedFlights DEF Outdated
    <2>2. mut'[f] = [mut[f] EXCEPT !.fresh = FALSE]
        BY <2>1 DEF Outdated
    <2>3. DOMAIN mut[f] = {"fresh", "rec", "ended"}
        BY <1>1, <2>1 DEF MutationsOK, MutationOK
    <2>4. mut'[f].fresh = FALSE /\ mut'[f].rec = mut[f].rec /\ mut'[f].ended = mut[f].ended
        BY <2>2, <2>3
    <2> QED
        BY <1>1, <2>1, <2>4 DEF EditsOK, CopiesTyped
<1> QED
    BY <1>2 DEF EditsOK, CopiesTyped

LEMMA OutdatedCompared ==
    ASSUME RecordInv,
           \/ cmp' = Outdated(cmp)
           \/ \E p \in Procs : cmp' = [Outdated(cmp) EXCEPT ![p] = Idle]
    PROVE  ComparedOK'
<1>1. ComparisonsOK /\ ComparedOK
    BY DEF RecordInv, KeptInv, FlightsInv
<1>2. ASSUME NEW f \in Procs, cmp'[f] # Idle
      PROVE  Atomic!Implemented(cmp'[f].binding)
    <2>1. cmp[f] # Idle /\ cmp'[f] = [cmp[f] EXCEPT !.fresh = FALSE]
        BY <1>2 DEF Outdated
    <2>2. DOMAIN cmp[f] = CmpFields
        BY <1>1, <2>1 DEF ComparisonsOK, ComparisonOK
    <2>3. cmp'[f].binding = cmp[f].binding
        BY <2>1, <2>2 DEF CmpFields
    <2> QED
        BY <1>1, <2>1, <2>3 DEF ComparedOK
<1>3. ASSUME NEW f \in Procs, cmp'[f] # Idle
      PROVE  Atomic!Implemented(cmp[f].binding)'
    BY <1>2, <1>3 DEF Atomic!Implemented
<1> QED
    BY <1>3 DEF ComparedOK

LEMMA StampTyped ==
    ASSUME ClocksTyped, NEW p \in Procs, NEW t \in 1..MaxTime, Stamp(p, t)
    PROVE  ClocksTyped'
<1>1. PICK d \in Ticks : /\ wall + d \in 0..MaxTime /\ wall' = wall + d
                         /\ last' = [last EXCEPT ![p] = t]
    BY DEF Stamp
<1> QED
    BY <1>1, LimitsAssumption DEF ClocksTyped

(* What a run leaves when it is removed, and what its first step finds. *)
LEMMA RemovedRun ==
    ASSUME RecordInv, Running, receipts = <<>>, UNCHANGED receipts, run' = NoRun,
           mut' = Outdated(mut), cmp' = Outdated(cmp)
    PROVE  HistoryInv' /\ EditsOK' /\ ComparedOK' /\ CopiesTyped' /\ RunTyped' /\ RecordStep
<1>1. ~Running' /\ Len(receipts') = 0
    BY DEF Running
<1>2. HistoryInv'
    BY <1>1 DEF HistoryInv, AuthorityReconciles, LateOK, ClearedOK, RatchetOK
<1>3. Authority = Nothing
    BY NoReceipts DEF EmptyHistory
<1>4. run.rec \in Atomic!Record /\ run.rec.latest = Atomic!NoLatest
    BY <1>3, ProjectedIsRecord DEF RecordInv, HistoryInv, AuthorityReconciles, Nothing
<1>5. run.rec # Atomic!NoRun
    <2>1. run.rec.status # "no run"
        BY <1>4 DEF Atomic!Record
    <2> QED
        BY <2>1, NoRunStatus
<1>6. run'.rec = Atomic!NoRun
    BY DEF NoRun
<1>7. RecordStep
    BY <1>4, <1>5, <1>6 DEF RecordStep, Atomic!Next, Atomic!Delete
<1> QED
    BY <1>2, <1>7, OutdatedEdits, OutdatedCompared DEF RunTyped

LEMMA HighestKept ==
    ASSUME NEW b \in SnapIds, Kept(b)
    PROVE  LET m == CHOOSE m \in SnapIds : Kept(m) /\ \A i \in SnapIds : Kept(i) => i <= m
           IN  m \in SnapIds /\ b <= m
<1> DEFINE Top(m) == Kept(m) /\ \A i \in SnapIds : Kept(i) => i <= m
           S == {k \in Nat : \A i \in SnapIds : Kept(i) /\ MaxSnaps - i <= k => \E m \in SnapIds : Top(m)}
<1>0. SnapIds = 1..MaxSnaps /\ MaxSnaps \in Nat
    BY LimitsAssumption DEF SnapIds, Atomic!SnapIds
<1>1. 0 \in S
    <2> SUFFICES ASSUME NEW i \in SnapIds, Kept(i), MaxSnaps - i <= 0
                 PROVE  Top(i)
        OBVIOUS
    <2> QED
        BY <1>0
<1>2. ASSUME NEW k \in Nat, k \in S
      PROVE  k + 1 \in S
    <2> SUFFICES ASSUME NEW i \in SnapIds, Kept(i), MaxSnaps - i <= k + 1
                 PROVE  \E m \in SnapIds : Top(m)
        OBVIOUS
    <2>1. CASE Top(i)
        BY <2>1
    <2>2. CASE ~Top(i)
        <3>1. PICK j \in SnapIds : Kept(j) /\ ~(j <= i)
            BY <2>2
        <3>2. MaxSnaps - j <= k
            BY <1>0, <3>1
        <3> QED
            BY <1>2, <3>1, <3>2
    <2> QED
        BY <2>1, <2>2
<1>3. Nat \subseteq S
    <2> HIDE DEF S
    <2> QED
        BY <1>1, <1>2, SetInduction
<1>4. MaxSnaps - b \in Nat
    BY <1>0
<1>5. \E m \in SnapIds : Top(m)
    <2>1. PICK k \in Nat : k = MaxSnaps - b
        BY <1>4
    <2>2. k \in S
        BY <1>3
    <2>3. MaxSnaps - b <= k
        BY <2>1
    <2> QED
        BY <2>2, <2>3
<1> QED
    BY <1>5

LEMMA UploadBeginRecorded ==
    ASSUME RecordInv, NEW p \in Procs, UploadBegin(p)
    PROVE  TypeOK' /\ NumberedOK' /\ FlightsInv' /\ HistoryInv' /\ RecordStep
<1>1. PICK t \in 1..MaxTime, k \in Skews :
         Stamp(p, t) /\ upload' = [upload EXCEPT ![p] =
                            [fresh |-> TRUE, uploaded |-> t, collected |-> t - k]]
    BY DEF UploadBegin
<1>2. UNCHANGED <<snaps, nextId, run, receipts, mut, cmp>>
    BY DEF UploadBegin, files
<1>3. HistoryInv' /\ RecordStep
    BY <1>2, SameHistory
<1>4. EditsOK' /\ ComparedOK' /\ CopiesTyped'
    BY <1>2, EndedFlights
<1>5. ClocksTyped'
    BY <1>1, StampTyped, TypedParts DEF RecordInv
<1>6. RunTyped' /\ SnapsTyped' /\ ReceiptsTyped' /\ NumberedOK'
    BY <1>2, TypedParts DEF RecordInv, RunTyped, SnapsTyped, ReceiptsTyped, NumberedOK
<1>7. UploadsOK'
    <2>1. t - k \in Int
        BY ClockAssumption
    <2> QED
        BY <1>1, <2>1, LimitsAssumption DEF RecordInv, FlightsInv, UploadsOK
<1> QED
    BY <1>3, <1>4, <1>5, <1>6, <1>7, TypedParts DEF FlightsInv

LEMMA UploadCommitRecorded ==
    ASSUME RecordInv, NEW p \in Procs, UploadCommit(p)
    PROVE  TypeOK' /\ NumberedOK' /\ FlightsInv' /\ HistoryInv' /\ RecordStep
<1>1. /\ nextId < MaxSnaps /\ nextId' = nextId + 1 /\ upload[p] # Idle
      /\ snaps' = [snaps EXCEPT ![nextId + 1] =
            [state |-> "kept", collected |-> upload[p].collected, uploaded |-> upload[p].uploaded]]
      /\ upload' = [upload EXCEPT ![p] = Idle]
      /\ UNCHANGED <<run, receipts, wall, last, mut, cmp>>
    BY DEF UploadCommit, clock
<1>2. SnapsTyped /\ NumberedOK /\ UploadsOK /\ ReceiptSourcesKept
    BY TypedParts DEF RecordInv, FlightsInv, KeptInv
<1>3. nextId + 1 \in SnapIds /\ nextId + 1 \in 1..MaxSnaps /\ SnapIds = 1..MaxSnaps
    BY <1>1, <1>2, LimitsAssumption DEF SnapsTyped, SnapIds, Atomic!SnapIds
<1>4. SnapsTyped'
    <2>1. upload[p].collected \in Int /\ upload[p].uploaded \in 0..MaxTime
        BY <1>1, <1>2 DEF UploadsOK
    <2> QED
        BY <1>1, <1>2, <1>3, <2>1 DEF SnapsTyped, Rows
<1>5. NumberedOK'
    BY <1>1, <1>2, <1>3 DEF NumberedOK, SnapsTyped
<1>6. nextId + 1 \notin Receipted
    <2>1. snaps[nextId + 1].state = "absent"
        BY <1>2, <1>3 DEF NumberedOK, SnapsTyped
    <2> QED
        BY <1>2, <2>1 DEF ReceiptSourcesKept, Kept
<1>7. \A i \in Receipted : snaps'[i] = snaps[i]
    BY <1>1, <1>2, <1>6 DEF SnapsTyped
<1>8. HistoryInv' /\ RecordStep
    BY <1>1, <1>7, SameHistory
<1>9. EditsOK' /\ ComparedOK' /\ CopiesTyped'
    BY <1>1, EndedFlights
<1>10. UploadsOK'
    BY <1>1, <1>2 DEF UploadsOK
<1>11. RunTyped' /\ ReceiptsTyped' /\ ClocksTyped'
    BY <1>1, TypedParts DEF RecordInv, RunTyped, ReceiptsTyped, ClocksTyped
<1> QED
    BY <1>4, <1>5, <1>8, <1>9, <1>10, <1>11, TypedParts DEF FlightsInv

LEMMA RestartRecorded ==
    ASSUME RecordInv, NEW p \in Procs, Restart(p)
    PROVE  TypeOK' /\ NumberedOK' /\ FlightsInv' /\ HistoryInv' /\ RecordStep
<1>1. /\ UNCHANGED <<snaps, nextId, run, receipts, wall>>
      /\ last' = [last EXCEPT ![p] = 0] /\ upload' = [upload EXCEPT ![p] = Idle]
      /\ mut' = [mut EXCEPT ![p] = Idle] /\ cmp' = [cmp EXCEPT ![p] = Idle]
    BY DEF Restart, files
<1>2. HistoryInv' /\ RecordStep
    BY <1>1, SameHistory
<1>3. EditsOK' /\ ComparedOK' /\ CopiesTyped'
    BY <1>1, EndedFlights
<1>4. UploadsOK'
    BY <1>1 DEF RecordInv, FlightsInv, UploadsOK
<1>5. RunTyped' /\ SnapsTyped' /\ ReceiptsTyped' /\ NumberedOK'
    BY <1>1, TypedParts DEF RecordInv, RunTyped, SnapsTyped, ReceiptsTyped, NumberedOK
<1>6. ClocksTyped'
    BY <1>1, LimitsAssumption, TypedParts DEF RecordInv, ClocksTyped
<1> QED
    BY <1>2, <1>3, <1>4, <1>5, <1>6, TypedParts DEF FlightsInv

LEMMA StartRunRecorded ==
    ASSUME RecordInv, NEW p \in Procs, NEW b \in SnapIds, StartRun(p, b)
    PROVE  TypeOK' /\ NumberedOK' /\ FlightsInv' /\ HistoryInv' /\ RecordStep
<1>1. ~Running /\ Kept(b) /\ UNCHANGED <<snaps, nextId, receipts, upload, mut, cmp>>
    BY DEF StartRun
<1> DEFINE top == CHOOSE m \in SnapIds : Kept(m) /\ \A i \in SnapIds : Kept(i) => i <= m
<1>2. PICK t \in 1..MaxTime :
         /\ Stamp(p, t)
         /\ run' = [rec |-> Atomic!Started, before |-> b, started |-> t, ended |-> 0,
                    watermark |-> top]
    BY DEF StartRun
<1>3. top \in SnapIds /\ b <= top
    BY <1>1, HighestKept
<1> HIDE DEF top
<1>4. receipts = <<>> /\ run = NoRun
    BY <1>1 DEF RecordInv, KeptInv, ReceiptsOK, Running
<1>5. Atomic!Started \in Atomic!Record
    BY NothingOK DEF Atomic!Started, Atomic!Record, Nothing, LeavesOK, Atomic!Unactioned,
                     Atomic!NoLatest, Atomic!Bindings, Atomic!Latest
<1>6. RunTyped'
    BY <1>2, <1>3, <1>5, LimitsAssumption DEF RunTyped, RunRecords
<1>7. Authority' = Nothing
    <2>1. EmptyHistory'
        BY NoReceipts, PTL
    <2> QED
        BY <1>1, <1>4, <2>1 DEF EmptyHistory
<1>8. run'.rec = Atomic!Started /\ run'.before = b /\ run'.watermark = top
    BY <1>2
<1>9. AuthorityReconciles'
    BY <1>7, <1>8 DEF AuthorityReconciles, Nothing, Atomic!Started
<1>10. LateOK' /\ RatchetOK'
    <2>1. Len(receipts') = 0
        BY <1>1, <1>4
    <2> QED
        BY <1>3, <1>8, <2>1 DEF LateOK, RatchetOK
<1>11. ClearedOK'
    BY <1>8 DEF ClearedOK, Atomic!Started, Atomic!Successes
<1>12. RecordStep
    BY <1>4, <1>8 DEF RecordStep, Atomic!Next, Atomic!Start, NoRun
<1>13. EditsOK' /\ ComparedOK' /\ CopiesTyped'
    <2>1. ASSUME NEW f \in Procs, mut[f] # Idle
          PROVE  ~mut[f].fresh
        BY <1>1, <2>1 DEF RecordInv, KeptInv, SignedInv, MutationsOK, MutationOK
    <2> QED
        BY <1>1, <2>1, TypedParts DEF RecordInv, FlightsInv, EditsOK, ComparedOK, CopiesTyped
<1>14. ClocksTyped'
    BY <1>2, StampTyped, TypedParts DEF RecordInv
<1>15. SnapsTyped' /\ ReceiptsTyped' /\ NumberedOK' /\ UploadsOK'
    BY <1>1, TypedParts DEF RecordInv, FlightsInv, SnapsTyped, ReceiptsTyped, NumberedOK, UploadsOK
<1> QED
    BY <1>6, <1>9, <1>10, <1>11, <1>12, <1>13, <1>14, <1>15, TypedParts DEF FlightsInv, HistoryInv

LEMMA MutateReadRecorded ==
    ASSUME RecordInv, NEW p \in Procs, MutateRead(p)
    PROVE  TypeOK' /\ NumberedOK' /\ FlightsInv' /\ HistoryInv' /\ RecordStep
<1>1. /\ Live /\ UNCHANGED <<snaps, nextId, run, receipts, upload, cmp>>
    BY DEF MutateRead, files
<1>2. Projected = run.rec /\ run.rec \in Atomic!Record
    BY <1>1, ProjectedIsRecord DEF RecordInv, HistoryInv, Live
<1>3. PICK q \in Atomic!Requests, t \in 1..MaxTime :
         /\ Atomic!Allowed(run.rec, q)
         /\ IF q.op \in {"step", "finish"} THEN Stamp(p, t) ELSE UNCHANGED clock /\ t = 1
         /\ mut' = [mut EXCEPT ![p] = [fresh |-> TRUE, rec |-> Atomic!Apply(run.rec, q, t),
                                       ended |-> IF q.op = "finish" THEN t ELSE 0]]
    BY <1>2 DEF MutateRead
<1>4. HistoryInv' /\ RecordStep
    BY <1>1, SameHistory
<1> DEFINE n == Atomic!Apply(run.rec, q, t)
           e == IF q.op = "finish" THEN t ELSE 0
<1>5. n \in Atomic!Record
    <2>1. Applied(n, run.rec, q)
        BY <1>2, ApplyTyped
    <2> HIDE DEF n
    <2> QED
        BY <2>1, Zenon DEF Applied
<1>6. e \in 0..MaxTime
    BY LimitsAssumption
<1>7. DOMAIN mut = Procs /\ EditsOK /\ CopiesTyped
    BY TypedParts DEF RecordInv, KeptInv, SignedInv, MutationsOK, FlightsInv
<1>8. ASSUME NEW f \in Procs, mut'[f] # Idle
      PROVE  /\ mut'[f].ended \in 0..MaxTime /\ mut'[f].rec \in Atomic!Record
             /\ mut'[f].fresh => Live /\ \E u \in Atomic!Requests, v \in 1..MaxTime :
                   Atomic!Allowed(run.rec, u) /\ mut'[f].rec = Atomic!Apply(run.rec, u, v)
    <2>1. CASE f = p
        <3>1. mut'[f] = [fresh |-> TRUE, rec |-> n, ended |-> e]
            BY <1>3, <1>7, <2>1
        <3>2. mut'[f].ended = e /\ mut'[f].rec = n
            BY <3>1
        <3> HIDE DEF e
        <3> QED
            BY <1>1, <1>3, <1>5, <1>6, <3>2
    <2>2. CASE f # p
        <3>1. mut'[f] = mut[f]
            BY <1>3, <2>2
        <3> QED
            BY <1>7, <1>8, <3>1 DEF EditsOK, CopiesTyped
    <2> QED
        BY <2>1, <2>2
<1> HIDE DEF n, e
<1>9. EditsOK' /\ CopiesTyped'
    <2>1. run' = run
        BY <1>1
    <2> QED
        BY <1>8, <2>1 DEF EditsOK, CopiesTyped, Live, Running
<1>10. ClocksTyped'
    BY <1>3, StampTyped, TypedParts DEF RecordInv, ClocksTyped, clock
<1>11. /\ RunTyped' /\ SnapsTyped' /\ ReceiptsTyped' /\ NumberedOK' /\ UploadsOK' /\ ComparedOK'
    BY <1>1, TypedParts DEF RecordInv, FlightsInv, RunTyped, SnapsTyped, ReceiptsTyped, NumberedOK,
       UploadsOK, ComparedOK
<1> QED
    BY <1>4, <1>9, <1>10, <1>11, TypedParts DEF FlightsInv

LEMMA MutateSaveRecorded ==
    ASSUME RecordInv, NEW p \in Procs, MutateSave(p)
    PROVE  TypeOK' /\ NumberedOK' /\ FlightsInv' /\ HistoryInv' /\ RecordStep
<1>1. mut[p] # Idle /\ UNCHANGED <<snaps, nextId, receipts, wall, last, upload>>
    BY DEF MutateSave, clock
<1>2. SnapsTyped' /\ ReceiptsTyped' /\ ClocksTyped' /\ NumberedOK' /\ UploadsOK'
    BY <1>1, TypedParts DEF RecordInv, FlightsInv, SnapsTyped, ReceiptsTyped, ClocksTyped, NumberedOK,
       UploadsOK
<1>3. CASE mut[p].fresh /\ Live /\ Authority.valid
    <2>1. PICK q \in Atomic!Requests, t \in 1..MaxTime :
             Atomic!Allowed(run.rec, q) /\ mut[p].rec = Atomic!Apply(run.rec, q, t)
        BY <1>1, <1>3 DEF RecordInv, FlightsInv, EditsOK
    <2> DEFINE n == Atomic!Apply(run.rec, q, t)
    <2>2. TypeOK /\ HistoryInv /\ Running /\ receipts \in Seq(Receipts)
        BY <1>3, TypedParts DEF RecordInv, Live, ReceiptsTyped
    <2>3. /\ Authorised(n) = n /\ n \in Atomic!Record
          /\ n.latest = run.rec.latest /\ n.anchor = run.rec.anchor
          /\ Atomic!Live(n) => n.outcome = "none"
          /\ n.outcome \in Atomic!Successes => Atomic!ComparedClean(n)
        BY <1>3, <2>1, <2>2, AuthorisedApply
    <2>4. run \in RunRecords /\ mut[p].ended \in 0..MaxTime
        BY <1>1, <2>2, ProjectedIsRecord DEF HistoryInv, RecordInv, FlightsInv, EditsOK
    <2>5. /\ run' = [run EXCEPT !.rec = n, !.ended = mut[p].ended]
          /\ mut' = [Outdated(mut) EXCEPT ![p] = Idle] /\ cmp' = Outdated(cmp)
        BY <1>3, <2>1, <2>3 DEF MutateSave
    <2>6. RecordStep
        <3>1. run'.rec = n /\ t \in Atomic!Times
            BY <2>4, <2>5 DEF RunRecords, Atomic!Times
        <3>2. run.rec \in Atomic!Record
            BY <2>4 DEF RunRecords
        <3>3. run.rec # Atomic!NoRun
            <4>1. run.rec.status # "no run"
                BY <3>2 DEF Atomic!Record
            <4> QED
                BY <4>1, NoRunStatus
        <3> HIDE DEF n
        <3>4. Atomic!Mutate
            BY <2>1, <3>1, <3>3 DEF Atomic!Mutate, n
        <3> QED
            BY <3>4 DEF RecordStep, Atomic!Next
    <2> HIDE DEF n
    <2>7. /\ run' \in RunRecords /\ run'.rec = n /\ run'.before = run.before
          /\ run'.started = run.started /\ run'.watermark = run.watermark
        BY <2>3, <2>4, <2>5 DEF RunRecords
    <2>8. Authority' = Authority
        BY <1>1, <2>2, <2>7, AuthorityStable
    <2>9. HistoryInv'
        <3>1. AuthorityReconciles'
            BY <2>2, <2>3, <2>7, <2>8 DEF HistoryInv, AuthorityReconciles
        <3>2. LateOK'
            BY <1>1, <2>2, <2>7 DEF HistoryInv, LateOK
        <3>3. ClearedOK'
            BY <2>3, <2>7 DEF ClearedOK, Atomic!Live, Atomic!ComparedClean, Atomic!Implemented
        <3>4. RatchetOK'
            BY <1>1, <2>2, <2>8, RatchetStable DEF HistoryInv
        <3> QED
            BY <3>1, <3>2, <3>3, <3>4 DEF HistoryInv
    <2>10. RunTyped' /\ EditsOK' /\ ComparedOK' /\ CopiesTyped'
        BY <2>5, <2>7, OutdatedEdits, OutdatedCompared DEF RunTyped
    <2> QED
        BY <1>2, <2>6, <2>9, <2>10, TypedParts DEF FlightsInv
<1>4. CASE ~(mut[p].fresh /\ Live /\ Authority.valid)
    <2>1. mut' = [mut EXCEPT ![p] = Idle] /\ UNCHANGED <<run, cmp>>
        BY <1>4 DEF MutateSave
    <2>2. HistoryInv' /\ RecordStep
        BY <1>1, <2>1, SameHistory
    <2>3. EditsOK' /\ ComparedOK' /\ CopiesTyped' /\ RunTyped'
        BY <2>1, EndedFlights, TypedParts DEF RecordInv, RunTyped
    <2> QED
        BY <1>2, <2>2, <2>3, TypedParts DEF FlightsInv
<1> QED
    BY <1>3, <1>4

LEMMA CompareReadRecorded ==
    ASSUME RecordInv, NEW p \in Procs, CompareRead(p)
    PROVE  TypeOK' /\ NumberedOK' /\ FlightsInv' /\ HistoryInv' /\ RecordStep
<1>1. /\ Atomic!Implemented(Projected.step)
      /\ UNCHANGED <<snaps, nextId, run, receipts, wall, last, upload, mut>>
    BY DEF CompareRead, files, clock
<1>2. HistoryInv' /\ RecordStep
    BY <1>1, SameHistory
<1>3. EditsOK' /\ CopiesTyped'
    BY <1>1, TypedParts DEF RecordInv, FlightsInv, EditsOK, CopiesTyped, Live, Running
<1>4. ComparedOK'
    <2>1. PICK a, v, tr : cmp' = [cmp EXCEPT ![p] = [fresh |-> TRUE, after |-> a, verdict |-> v,
                                                     binding |-> Projected.step, trial |-> tr]]
        BY DEF CompareRead
    <2>2. ASSUME NEW f \in Procs, cmp'[f] # Idle
          PROVE  Atomic!Implemented(cmp'[f].binding)
        BY <1>1, <2>1, <2>2 DEF RecordInv, KeptInv, ComparisonsOK, FlightsInv, ComparedOK
    <2>3. ASSUME NEW f \in Procs, cmp'[f] # Idle
          PROVE  Atomic!Implemented(cmp[f].binding)'
        BY <2>2, <2>3 DEF Atomic!Implemented
    <2> QED
        BY <2>3 DEF ComparedOK
<1>5. RunTyped' /\ SnapsTyped' /\ ReceiptsTyped' /\ ClocksTyped' /\ NumberedOK' /\ UploadsOK'
    BY <1>1, TypedParts DEF RecordInv, FlightsInv, RunTyped, SnapsTyped, ReceiptsTyped, ClocksTyped,
       NumberedOK, UploadsOK
<1> QED
    BY <1>2, <1>3, <1>4, <1>5, TypedParts DEF FlightsInv

LEMMA DeleteRecorded ==
    ASSUME RecordInv, (\E p \in Procs : DeleteExecution(p)) \/ (\E i \in Discarded : DeleteSnapshot(i))
    PROVE  TypeOK' /\ NumberedOK' /\ FlightsInv' /\ HistoryInv' /\ RecordStep
<1>1. UNCHANGED <<nextId, receipts, wall, last, upload>>
    BY DEF DeleteExecution, DeleteSnapshot, clock
<1>2. ReceiptsTyped' /\ ClocksTyped' /\ UploadsOK'
    BY <1>1, TypedParts DEF RecordInv, FlightsInv, ReceiptsTyped, ClocksTyped, UploadsOK
<1>3. /\ SnapsTyped' /\ NumberedOK'
      /\ UNCHANGED snaps \/ \A i \in Receipted : snaps'[i] = snaps[i]
    <2>1. SnapsTyped /\ NumberedOK
        BY TypedParts DEF RecordInv
    <2>2. ASSUME NEW i \in Discarded, DeleteSnapshot(i)
          PROVE  /\ i \in SnapIds /\ snaps[i].state = "kept" /\ i \notin Receipted
                 /\ snaps' = [snaps EXCEPT ![i] = [snaps[i] EXCEPT !.state = "deleted"]]
        BY <2>2, OfferAssumption DEF DeleteSnapshot, Kept
    <2>3. ASSUME NEW i \in Discarded, DeleteSnapshot(i)
          PROVE  SnapsTyped' /\ NumberedOK' /\ \A j \in Receipted : snaps'[j] = snaps[j]
        <3>1. [snaps[i] EXCEPT !.state = "deleted"] \in Rows
            BY <2>1, <2>2, <2>3 DEF SnapsTyped, Rows
        <3>2. \A j \in SnapIds : j # i => snaps'[j] = snaps[j]
            BY <2>1, <2>2, <2>3 DEF SnapsTyped
        <3>3. SnapsTyped'
            BY <1>1, <2>1, <2>2, <2>3, <3>1 DEF SnapsTyped
        <3>4. ~(i > nextId)
            BY <2>1, <2>2, <2>3 DEF NumberedOK
        <3>5. NumberedOK'
            BY <1>1, <2>1, <3>2, <3>4 DEF NumberedOK
        <3>6. \A j \in Receipted : j # i
            BY <2>2, <2>3
        <3>7. Receipted \subseteq SnapIds
            BY ReceiptedAreSnapshots DEF RecordInv, KeptInv, SignedInv
        <3> QED
            BY <3>2, <3>3, <3>5, <3>6, <3>7
    <2>4. ASSUME NEW p \in Procs, DeleteExecution(p)
          PROVE  SnapsTyped' /\ NumberedOK' /\ UNCHANGED snaps
        BY <2>1, <2>4 DEF DeleteExecution, SnapsTyped, NumberedOK
    <2> QED
        BY <2>3, <2>4
<1>4. CASE run' = NoRun /\ mut' = Outdated(mut) /\ cmp' = Outdated(cmp) /\ Running
    <2>1. receipts = <<>>
        <3>1. ASSUME NEW i \in Discarded, DeleteSnapshot(i), receipts # <<>>
              PROVE  FALSE
            <4>1. run' # run
                BY <1>4 DEF Running
            <4>2. i \notin Receipted /\ run.before = i
                BY <3>1, <4>1 DEF DeleteSnapshot
            <4>3. 1 \in 1..Len(receipts)
                BY <3>1, TypedParts DEF RecordInv, ReceiptsTyped
            <4>4. i \in Sources(receipts[1])
                BY <4>2 DEF Sources
            <4> QED
                BY <4>2, <4>3, <4>4 DEF Receipted
        <3> QED
            BY <3>1 DEF DeleteExecution
    <2>2. HistoryInv' /\ EditsOK' /\ ComparedOK' /\ CopiesTyped' /\ RunTyped' /\ RecordStep
        BY <1>1, <1>4, <2>1, RemovedRun
    <2> QED
        BY <1>2, <1>3, <2>2, TypedParts DEF FlightsInv
<1>5. CASE ~(run' = NoRun /\ mut' = Outdated(mut) /\ cmp' = Outdated(cmp) /\ Running)
    <2>1. UNCHANGED <<run, mut, cmp>>
        BY <1>5 DEF DeleteExecution, DeleteSnapshot
    <2>2. HistoryInv' /\ RecordStep
        BY <1>1, <1>3, <2>1, SameHistory
    <2>3. EditsOK' /\ ComparedOK' /\ CopiesTyped' /\ RunTyped'
        BY <2>1, EndedFlights, TypedParts DEF RecordInv, RunTyped
    <2> QED
        BY <1>2, <1>3, <2>2, <2>3, TypedParts DEF FlightsInv
<1> QED
    BY <1>4, <1>5

(* The comparison appended: the leaves stored with it are the ones all the  *)
(* receipts now rebuild.                                                    *)
LEMMA NewerTransitive ==
    ASSUME SnapsTyped, NEW i \in SnapIds, NEW j \in SnapIds, NEW k \in SnapIds, Newer(i, j), Newer(j, k)
    PROVE  Newer(i, k)
<1>1. /\ snaps[i].collected \in Int /\ snaps[j].collected \in Int /\ snaps[k].collected \in Int
      /\ snaps[i].uploaded \in Int /\ snaps[j].uploaded \in Int /\ snaps[k].uploaded \in Int
    BY DEF SnapsTyped, Rows
<1> QED
    BY <1>1 DEF Newer, SnapIds, Atomic!SnapIds

LEMMA AppendedLeaves ==
    ASSUME RecordInv, Live, Authority.valid, NEW r \in Receipts, Admitted(r)
    PROVE  LET g == Folded(Authority, r) IN
           /\ g.valid /\ g.latest = LatestOf(r)
           /\ g.anchor = IF r.trial = NoTrial THEN Authority.anchor
                         ELSE AnchorAfter(Authority.anchor, r.trial, r.after)
<1>1. Projected = run.rec /\ run \in RunRecords /\ run.rec.latest = Authority.latest
      /\ run.rec.anchor = Authority.anchor
    BY ProjectedIsRecord DEF RecordInv, HistoryInv, AuthorityReconciles, Live
<1>2. /\ Authority.latest.after # 0 /\ Authority.latest.binding = r.binding
            => Newer(r.after, Authority.latest.after)
      /\ PostChange(r.after, r.binding)
      /\ r.trial # NoTrial => run.watermark < r.trial.pre /\ TrialInOrder(r.trial, r.after, r.binding)
      /\ Authority.anchor # Atomic!NoAnchor => Retrial(Authority.anchor, r.trial)
    BY <1>1 DEF Admitted
<1>3. r.trial # NoTrial => run.before < r.trial.pre
    <2> SUFFICES ASSUME r.trial # NoTrial PROVE run.before < r.trial.pre
        OBVIOUS
    <2>1. run.before <= run.watermark
        BY DEF RecordInv, HistoryInv, LateOK, Live
    <2>2. run.before \in Int /\ run.watermark \in Int /\ r.trial.pre \in Int
        BY <1>1 DEF RunRecords, Receipts, Trials, SnapIds, Atomic!SnapIds
    <2> QED
        BY <1>2, <2>1, <2>2
<1>4. Authority.anchor # Atomic!NoAnchor => r.trial # NoTrial
    BY <1>2 DEF Retrial
<1>5. Folded(Authority, r).valid
    BY <1>2, <1>3 DEF Folded
<1>6. Folded(Authority, r).latest = LatestOf(r)
    BY DEF Folded
<1>7. Folded(Authority, r).anchor = IF r.trial = NoTrial THEN Authority.anchor
                                    ELSE AnchorAfter(Authority.anchor, r.trial, r.after)
    BY <1>2, <1>4 DEF Folded
<1> QED
    BY <1>5, <1>6, <1>7

LEMMA RatchetAppended ==
    ASSUME RecordInv, Live, Authority.valid, NEW r \in Receipts, Admitted(r),
           receipts' = Append(receipts, r), UNCHANGED snaps,
           Authority'.anchor = IF r.trial = NoTrial THEN Authority.anchor
                               ELSE AnchorAfter(Authority.anchor, r.trial, r.after)
    PROVE  RatchetOK'
<1>1. /\ receipts \in Seq(Receipts) /\ SnapsTyped /\ RatchetOK /\ LeavesOK(Authority)
    BY TypedParts, AuthorityLeaves DEF RecordInv, ReceiptsTyped, HistoryInv
<1>k. PICK k \in Nat : k = Len(receipts)
    BY <1>1
<1>2. /\ Len(receipts') = k + 1 /\ receipts'[k + 1] = r
      /\ \A n \in 1..k : receipts'[n] = receipts[n] /\ receipts[n] \in Receipts
    BY <1>1, <1>k
<1>3. Authority.anchor # Atomic!NoAnchor => Retrial(Authority.anchor, r.trial)
    <2>1. Projected.anchor = Authority.anchor
        BY ProjectedIsRecord DEF RecordInv, HistoryInv, AuthorityReconciles, Live
    <2> QED
        BY <2>1 DEF Admitted
<1>4. \A i, j : Newer(i, j)' = Newer(i, j)
    BY DEF Newer
<1>5. r.trial # NoTrial => /\ r.trial \in Trials /\ r.trial.pre \in SnapIds
                           /\ Newer(r.after, r.trial.pre)
    <2> SUFFICES ASSUME r.trial # NoTrial
                 PROVE  r.trial \in Trials /\ r.trial.pre \in SnapIds /\ Newer(r.after, r.trial.pre)
        OBVIOUS
    <2>1. TrialInOrder(r.trial, r.after, r.binding)
        BY DEF Admitted
    <2>2. r.trial.pre \in SnapIds /\ r.trial.post \in SnapIds /\ r.after \in SnapIds /\ r.trial \in Trials
        BY DEF Receipts, Trials
    <2>3. Newer(r.trial.post, r.trial.pre) /\ Newer(r.after, r.trial.post)
        BY <2>1, <2>2 DEF TrialInOrder, Newer, SnapIds, Atomic!SnapIds
    <2> QED
        BY <1>1, <2>2, <2>3, NewerTransitive
<1>6. r.after \in SnapIds
    BY DEF Receipts
<1>7. ASSUME NEW n \in 1..k, Resolved(n)
      PROVE  Resolved(n)'
    <2>1. PICK m \in n + 1..k :
             /\ receipts[m].trial.status = "observed_survival"
             /\ receipts[m].trial.scenario = receipts[n].trial.scenario
             /\ Newer(receipts[m].trial.pre, receipts[n].after)
        BY <1>7, <1>k DEF Resolved
    <2>2. m \in n + 1..Len(receipts') /\ receipts'[m] = receipts[m] /\ receipts'[n] = receipts[n]
        BY <1>2, <2>1
    <2> QED
        BY <1>4, <2>1, <2>2 DEF Resolved
<1>8. ASSUME NEW n \in 1..k, Anchored(n)
      PROVE  Resolved(n)' \/ Anchored(n)'
    <2> DEFINE a == Authority.anchor
    <2>1. /\ a # Atomic!NoAnchor /\ a.scenario = receipts[n].trial.scenario
          /\ a.recovery = receipts[n].after \/ Newer(a.recovery, receipts[n].after)
        BY <1>8 DEF Anchored
    <2>2. r.trial # NoTrial /\ r.trial.scenario = a.scenario /\ Newer(r.trial.pre, a.recovery)
        BY <1>3, <2>1 DEF Retrial
    <2>3. a \in Atomic!Anchors /\ a.recovery \in SnapIds /\ receipts[n].after \in SnapIds
        <3>1. a.recovery \in Compared /\ a \in Atomic!Anchors
            BY <1>1, <2>1 DEF LeavesOK
        <3> QED
            BY <1>2, <1>k, <3>1 DEF Compared, Receipts
    <2>4. Newer(r.trial.pre, receipts[n].after)
        BY <1>1, <1>5, <2>1, <2>2, <2>3, NewerTransitive
    <2>5. receipts'[n] = receipts[n] /\ receipts'[k + 1] = r
        BY <1>2
    <2>6. CASE Failing(r.trial)
        <3> DEFINE b == AnchorAfter(a, r.trial, r.after)
        <3>1. Authority'.anchor = b
            BY <2>2
        <3>2. b # Atomic!NoAnchor /\ b.recovery = r.after /\ b.scenario = r.trial.scenario
            BY <1>5, <1>6, <2>2, <2>3, <2>6, AnchorAfterOK
        <3>3. Newer(r.after, receipts[n].after)
            BY <1>1, <1>5, <1>6, <2>2, <2>3, <2>4, NewerTransitive
        <3> HIDE DEF a, b
        <3> QED
            BY <1>4, <2>1, <2>2, <2>5, <3>1, <3>2, <3>3 DEF Anchored
    <2>7. CASE ~Failing(r.trial)
        <3>1. r.trial.status = "observed_survival"
            BY <1>5, <2>2, <2>7 DEF Failing, Trials
        <3>2. k + 1 \in n + 1..Len(receipts')
            BY <1>2
        <3> HIDE DEF a
        <3> QED
            BY <1>4, <2>1, <2>2, <2>4, <2>5, <3>1, <3>2 DEF Resolved
    <2> QED
        BY <2>6, <2>7
<1>9. ASSUME Failing(r.trial)
      PROVE  Anchored(k + 1)'
    <2> DEFINE b == AnchorAfter(Authority.anchor, r.trial, r.after)
    <2>1. r.trial # NoTrial
        BY <1>9 DEF Failing, NoTrial
    <2>2. b # Atomic!NoAnchor /\ b.recovery = r.after /\ b.scenario = r.trial.scenario
        BY <1>1, <1>5, <1>6, <1>9, <2>1, AnchorAfterOK DEF LeavesOK
    <2>3. Authority'.anchor = b
        BY <2>1
    <2> HIDE DEF b
    <2> QED
        BY <1>2, <2>2, <2>3 DEF Anchored
<1>10. ASSUME NEW n \in 1..Len(receipts'), Failing(receipts'[n].trial)
       PROVE  Resolved(n)' \/ Anchored(n)'
    <2>1. CASE n \in 1..k
        <3>1. Failing(receipts[n].trial)
            BY <1>2, <1>10, <2>1
        <3> QED
            BY <1>1, <1>k, <1>7, <1>8, <2>1, <3>1 DEF RatchetOK
    <2>2. CASE n = k + 1
        <3>1. Failing(r.trial)
            BY <1>2, <1>10, <2>2
        <3> QED
            BY <1>9, <2>2, <3>1
    <2> QED
        BY <1>2, <2>1, <2>2
<1>11. ASSUME NEW n \in 1..Len(receipts'), Failing(receipts[n].trial)'
       PROVE  Failing(receipts'[n].trial)
    BY <1>11 DEF Failing
<1> QED
    BY <1>10, <1>11 DEF RatchetOK

LEMMA CompareAppendRecorded ==
    ASSUME RecordInv, NEW p \in Procs, CompareAppend(p)
    PROVE  TypeOK' /\ NumberedOK' /\ FlightsInv' /\ HistoryInv' /\ RecordStep
<1> DEFINE r == [after |-> cmp[p].after, verdict |-> cmp[p].verdict,
                 binding |-> cmp[p].binding, trial |-> cmp[p].trial]
           accepted == cmp[p].fresh /\ Live /\ Authority.valid /\ Admitted(r)
                       /\ Len(receipts) < MaxReceipts
<1>1. cmp[p] # Idle /\ UNCHANGED <<snaps, nextId, wall, last, upload>>
    BY DEF CompareAppend, clock
<1>2. SnapsTyped' /\ ClocksTyped' /\ NumberedOK' /\ UploadsOK'
    BY <1>1, TypedParts DEF RecordInv, FlightsInv, SnapsTyped, ClocksTyped, NumberedOK, UploadsOK
<1>3. CASE ~accepted
    <2>1. cmp' = [cmp EXCEPT ![p] = Idle] /\ UNCHANGED <<run, receipts, mut>>
        BY <1>3 DEF CompareAppend
    <2>2. HistoryInv' /\ RecordStep
        BY <1>1, <2>1, SameHistory
    <2>3. EditsOK' /\ ComparedOK' /\ CopiesTyped' /\ RunTyped' /\ ReceiptsTyped'
        BY <2>1, EndedFlights, TypedParts DEF RecordInv, RunTyped, ReceiptsTyped
    <2> QED
        BY <1>2, <2>2, <2>3, TypedParts DEF FlightsInv
<1>4. CASE accepted
    <2> DEFINE anchor == IF r.trial = NoTrial THEN Authority.anchor
                         ELSE AnchorAfter(Authority.anchor, r.trial, r.after)
    <2>1. /\ Projected = run.rec /\ run \in RunRecords /\ run.rec \in Atomic!Record
          /\ run.rec.latest = Authority.latest /\ run.rec.anchor = Authority.anchor
        BY <1>4, ProjectedIsRecord DEF RecordInv, HistoryInv, AuthorityReconciles, Live
    <2>2. r \in Receipts /\ Atomic!Implemented(r.binding) /\ r.binding = run.rec.step
        <3>1. ComparisonOK(cmp[p]) /\ Atomic!Implemented(cmp[p].binding)
            BY <1>1 DEF RecordInv, KeptInv, ComparisonsOK, FlightsInv, ComparedOK
        <3>2. r.binding = Projected.step
            BY <1>4 DEF Admitted
        <3> QED
            BY <2>1, <3>1, <3>2 DEF ComparisonOK, Receipts
    <2>3. /\ receipts' = Append(receipts, r)
          /\ run' = [run EXCEPT !.rec = [run.rec EXCEPT !.latest = LatestOf(r),
                        !.anchor = IF r.trial = NoTrial THEN @ ELSE AnchorAfter(@, r.trial, r.after)]]
          /\ mut' = Outdated(mut) /\ cmp' = [Outdated(cmp) EXCEPT ![p] = Idle]
        BY <1>4, <2>1 DEF CompareAppend
    <2>4. run' = [run EXCEPT !.rec = [run.rec EXCEPT !.latest = LatestOf(r), !.anchor = anchor]]
        BY <2>1, <2>3 DEF Atomic!Record
    <2>5. /\ Folded(Authority, r).valid /\ Folded(Authority, r).latest = LatestOf(r)
          /\ Folded(Authority, r).anchor = anchor
        BY <1>4, <2>2, AppendedLeaves
    <2>6. LatestOf(r) \in Atomic!Latest /\ anchor \in Atomic!Anchors
        <3>1. LeavesOK(Authority)
            BY AuthorityLeaves, TypedParts DEF RecordInv, ReceiptsTyped
        <3>2. LatestOf(r) \in Atomic!Latest
            BY <2>2 DEF LatestOf, Receipts, Atomic!Latest, SnapIds, Atomic!SnapIds
        <3>3. r.trial # NoTrial => r.trial \in Trials /\ r.after \in SnapIds
            BY <2>2 DEF Receipts
        <3> QED
            BY <3>1, <3>2, <3>3, AnchorAfterOK DEF LeavesOK
    <2>7. receipts \in Seq(Receipts) /\ Len(receipts) < MaxReceipts /\ Live /\ Authority.valid /\ Admitted(r)
        BY <1>4, TypedParts DEF RecordInv, ReceiptsTyped
    <2> HIDE DEF r, anchor, accepted
    <2> DEFINE n == [run.rec EXCEPT !.latest = LatestOf(r), !.anchor = anchor]
    <2>8. /\ n \in Atomic!Record /\ n.latest = LatestOf(r) /\ n.anchor = anchor
          /\ n.status = run.rec.status /\ n.outcome = run.rec.outcome
        BY <2>1, <2>6 DEF Atomic!Record
    <2>9. /\ run' \in RunRecords /\ run'.rec = n /\ run'.before = run.before
          /\ run'.started = run.started /\ run'.watermark = run.watermark
        BY <2>1, <2>4, <2>8 DEF RunRecords
    <2>10. RecordStep
        <3>1. run.rec # Atomic!NoRun /\ n # Atomic!NoRun
            <4>1. run.rec.status # "no run" /\ n.status # "no run"
                BY <2>1, <2>8 DEF Atomic!Record
            <4> QED
                BY <4>1, NoRunStatus
        <3>2. n.latest.binding = run.rec.step
            BY <2>2, <2>8 DEF LatestOf
        <3>3. n = [run.rec EXCEPT !.latest = n.latest, !.anchor = n.anchor]
            BY <2>8
        <3>4. Atomic!Live(run.rec) /\ Atomic!Implemented(run.rec.step)
            BY <2>2, <2>7 DEF Live
        <3> HIDE DEF n
        <3>5. Atomic!Compare
            BY <2>9, <3>1, <3>2, <3>3, <3>4 DEF Atomic!Compare
        <3> QED
            BY <3>5 DEF RecordStep, Atomic!Next
    <2> HIDE DEF n
    <2>11. Authority' = Folded(Authority, r)
        BY <1>1, <2>2, <2>3, <2>7, <2>9, AuthorityAppended
    <2>12. HistoryInv'
        <3>1. AuthorityReconciles'
            BY <2>5, <2>8, <2>9, <2>11 DEF AuthorityReconciles
        <3>2. RatchetOK'
            BY <1>1, <2>2, <2>3, <2>5, <2>7, <2>11, RatchetAppended DEF anchor
        <3>3. ClearedOK'
            BY <2>7, <2>8, <2>9 DEF ClearedOK, RecordInv, HistoryInv, Live, Atomic!Live, Atomic!Successes
        <3>4. LateOK'
            <4>1. r.after > run.watermark
                BY <2>7 DEF Admitted
            <4>2. LateOK /\ Running
                BY <2>7 DEF RecordInv, HistoryInv, Live
            <4>3. \A m \in 1..Len(receipts') : receipts'[m] = r \/ \E j \in 1..Len(receipts) : receipts'[m] = receipts[j]
                BY <2>2, <2>3, <2>7
            <4> QED
                BY <2>9, <4>1, <4>2, <4>3 DEF LateOK
        <3> QED
            BY <3>1, <3>2, <3>3, <3>4 DEF HistoryInv
    <2>13. ReceiptsTyped'
        BY <2>2, <2>3, <2>7, OfferAssumption DEF ReceiptsTyped
    <2>14. RunTyped' /\ EditsOK' /\ ComparedOK' /\ CopiesTyped'
        BY <2>3, <2>9, OutdatedEdits, OutdatedCompared DEF RunTyped
    <2> QED
        BY <1>2, <2>10, <2>12, <2>13, <2>14, TypedParts DEF FlightsInv
<1> QED
    BY <1>3, <1>4

LEMMA QuietRecorded ==
    ASSUME RecordInv, UNCHANGED vars
    PROVE  TypeOK' /\ NumberedOK' /\ FlightsInv' /\ HistoryInv' /\ RecordStep
<1>1. UNCHANGED <<snaps, nextId, run, receipts, wall, last, upload, mut, cmp>>
    BY DEF vars
<1>2. HistoryInv' /\ RecordStep
    BY <1>1, SameHistory
<1>3. EditsOK' /\ ComparedOK' /\ CopiesTyped'
    BY <1>1, EndedFlights
<1>4. RunTyped' /\ SnapsTyped' /\ ReceiptsTyped' /\ ClocksTyped' /\ NumberedOK' /\ UploadsOK'
    BY <1>1, TypedParts DEF RecordInv, FlightsInv, RunTyped, SnapsTyped, ReceiptsTyped, ClocksTyped,
       NumberedOK, UploadsOK
<1> QED
    BY <1>2, <1>3, <1>4, TypedParts DEF FlightsInv

LEMMA RecordNext ==
    ASSUME RecordInv, [Next]_vars
    PROVE  RecordInv' /\ RecordStep
<1>1. KeptInv'
    BY KeptNext DEF RecordInv
<1>2. TypeOK' /\ NumberedOK' /\ FlightsInv' /\ HistoryInv' /\ RecordStep
    <2>1. ASSUME NEW p \in Restarting, Restart(p)
          PROVE  TypeOK' /\ NumberedOK' /\ FlightsInv' /\ HistoryInv' /\ RecordStep
        BY <2>1, RestartRecorded, OfferAssumption
    <2> QED
        BY <2>1, QuietRecorded, UploadBeginRecorded, UploadCommitRecorded, StartRunRecorded,
           MutateReadRecorded, MutateSaveRecorded, CompareReadRecorded, CompareAppendRecorded,
           DeleteRecorded DEF Next
<1> QED
    BY <1>1, <1>2 DEF RecordInv

LEMMA RecordInit ==
    ASSUME Init
    PROVE  RecordInv
<1>1. run = NoRun /\ receipts = <<>> /\ ~Running /\ Len(receipts) = 0
    BY DEF Init, Running
<1>2. HistoryInv
    BY <1>1 DEF HistoryInv, AuthorityReconciles, LateOK, ClearedOK, RatchetOK
<1>3. FlightsInv
    BY DEF Init, FlightsInv, UploadsOK, EditsOK, ComparedOK
<1>4. TypeOK /\ NumberedOK
    <2>1. SnapsTyped /\ NumberedOK
        BY LimitsAssumption DEF Init, SnapsTyped, NumberedOK, Absent, Rows, SnapIds, Atomic!SnapIds
    <2>2. RunTyped /\ ReceiptsTyped
        BY <1>1, OfferAssumption DEF RunTyped, ReceiptsTyped
    <2>3. ClocksTyped /\ CopiesTyped
        BY LimitsAssumption DEF Init, ClocksTyped, CopiesTyped
    <2> QED
        BY <2>1, <2>2, <2>3, TypedParts
<1> QED
    BY <1>2, <1>3, <1>4, KeptInit DEF RecordInv

LEMMA RecordAlways == Spec => []RecordInv
BY RecordInit, RecordNext, PTL DEF Spec

(* The rows, the clocks and the flights stay what the code takes them for.  *)
THEOREM TypeCorrect == Spec => []TypeOK
<1>1. RecordInv => TypeOK
    BY DEF RecordInv
<1> QED
    BY <1>1, RecordAlways, PTL

(* Whatever is compared, saved, deleted or uploaded, the stored receipts    *)
(* re-validate, and the leaves cached in the run are the ones they rebuild. *)
THEOREM Reconciles == Spec => []AuthorityReconciles
<1>1. RecordInv => AuthorityReconciles
    BY DEF RecordInv, HistoryInv
<1> QED
    BY <1>1, RecordAlways, PTL

(* The receipt a success stands on is the last one. *)
LEMMA ClearedIsEvidenced ==
    ASSUME RecordInv, Running, run.rec.outcome \in Atomic!Successes
    PROVE  SuccessIsEvidenced
<1>1. /\ Authority.valid /\ run.rec.latest = Authority.latest /\ run.rec \in Atomic!Record
      /\ receipts \in Seq(Receipts) /\ run \in RunRecords /\ SnapsTyped /\ ReceiptSourcesKept
    BY ProjectedIsRecord, TypedParts
    DEF RecordInv, HistoryInv, AuthorityReconciles, ReceiptsTyped, KeptInv
<1>2. /\ run.rec.latest.verdict = "PASS" /\ Atomic!Implemented(run.rec.step)
      /\ run.rec.latest.binding = run.rec.step
    BY DEF RecordInv, HistoryInv, ClearedOK, Atomic!ComparedClean
<1>3. PICK n \in Nat : n = Len(receipts)
    BY <1>1
<1>4. n # 0
    <2> SUFFICES ASSUME n = 0 PROVE FALSE
        OBVIOUS
    <2>1. receipts = <<>>
        BY <1>1, <1>3
    <2>2. Authority = Nothing
        BY <2>1, NoReceipts DEF EmptyHistory
    <2> QED
        BY <1>1, <1>2, <2>2 DEF Nothing, Atomic!NoLatest
<1>5. n \in 1..Len(receipts)
    BY <1>3, <1>4
<1>6. PICK f : FoldsTo(f, n)
    BY <1>3, FoldExists
<1>7. Authority = Folded(f[n - 1], receipts[n])
    <2>1. Authority = f[n]
        BY <1>3, <1>6, AuthorityOfFold DEF AuthorityFolds
    <2> QED
        BY <1>4, <1>6, <2>1 DEF FoldsTo
<1>8. Authority.latest = LatestOf(receipts[n]) /\ PostChange(receipts[n].after, receipts[n].binding)
    BY <1>1, <1>7 DEF Folded
<1>9. receipts[n].verdict = "PASS" /\ receipts[n].binding = run.rec.step
    BY <1>1, <1>2, <1>8 DEF LatestOf
<1> DEFINE i == receipts[n].after
<1>10. i \in Receipted /\ i > run.watermark
    <2>1. i \in Receipted
        BY <1>5 DEF Receipted, Sources
    <2>2. i > run.watermark
        BY <1>5 DEF RecordInv, HistoryInv, LateOK
    <2> QED
        BY <2>1, <2>2
<1>11. Kept(i) /\ i \in SnapIds
    <2>1. receipts[n] \in Receipts
        BY <1>1, <1>5
    <2>2. i \in SnapIds
        BY <2>1 DEF Receipts
    <2> QED
        BY <1>1, <1>10, <2>2 DEF ReceiptSourcesKept
<1>12. snaps[i].uploaded > run.started /\ \A s \in Steps : run.rec.step[s].at < snaps[i].collected
    BY <1>8, <1>9 DEF PostChange, CompletedBefore
<1>13. \A s \in Steps : run.rec.step[s].status # "pending" /\ snaps[i].collected > run.rec.step[s].at
    <2> SUFFICES ASSUME NEW s \in Steps
                 PROVE  run.rec.step[s].status # "pending" /\ snaps[i].collected > run.rec.step[s].at
        OBVIOUS
    <2>1. run.rec.step[s].at \in Int /\ snaps[i].collected \in Int
        BY <1>1, <1>11, LimitsAssumption
        DEF Atomic!Record, Atomic!Bindings, Atomic!Times, SnapsTyped, Rows
    <2> QED
        BY <1>2, <1>12, <2>1 DEF Atomic!Implemented
<1> HIDE DEF i
<1> QED
    BY <1>5, <1>9, <1>10, <1>11, <1>12, <1>13 DEF SuccessIsEvidenced, i

(* No success is recorded but on a passed comparison of the run as it       *)
(* finished, with a snapshot taken and uploaded after all of it.            *)
THEOREM Evidenced == Spec => []SuccessIsEvidenced
<1>1. RecordInv => SuccessIsEvidenced
    <2> SUFFICES ASSUME RecordInv, run.rec.status = "completed", run.rec.outcome \in Atomic!Successes
                 PROVE  SuccessIsEvidenced
        BY DEF SuccessIsEvidenced
    <2>1. Running
        <3>1. NoRun.rec = Atomic!NoRun
            BY DEF NoRun
        <3> QED
            BY <3>1, NoRunStatus DEF Running
    <2> QED
        BY <2>1, ClearedIsEvidenced
<1> QED
    BY <1>1, RecordAlways, PTL

(* Nothing but a newer survival of the same scenario clears a failed trial: *)
(* no later comparison, request, restart or deletion does.                  *)
THEOREM FailuresStand == Spec => []FailureNeedsRetrial
<1>1. RecordInv => FailureNeedsRetrial
    <2> SUFFICES ASSUME RecordInv, Running,
                        run.rec.outcome \in Atomic!Successes \/ Atomic!ComparedClean(run.rec),
                        NEW n \in 1..Len(receipts), Failing(receipts[n].trial)
                 PROVE  Resolved(n)
        BY DEF FailureNeedsRetrial, Resolved
    <2>1. Atomic!ComparedClean(run.rec)
        BY DEF RecordInv, HistoryInv, ClearedOK
    <2>2. Authority.anchor = Atomic!NoAnchor
        BY <2>1 DEF RecordInv, HistoryInv, AuthorityReconciles, Atomic!ComparedClean
    <2> QED
        BY <2>2 DEF RecordInv, HistoryInv, RatchetOK, Anchored
<1> QED
    BY <1>1, RecordAlways, PTL

(* Every interleaving of reads, saves, comparisons, deletions and restarts  *)
(* is a history of the record whose mutations are atomic.                   *)
THEOREM RecordImplemented == Spec => ImplementsRecord
<1>1. Init => Atomic!Init
    BY DEF Init, Atomic!Init, NoRun
<1>2. RecordInv /\ [Next]_vars => [Atomic!Next]_(run.rec)
    BY RecordNext DEF RecordStep
<1> QED
    BY <1>1, <1>2, RecordAlways, PTL DEF Spec, ImplementsRecord, Atomic!Spec
=============================================================================
