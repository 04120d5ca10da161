-------------------------- MODULE SavedPlansProofs --------------------------
(***************************************************************************)
(* That no sequence of saves, selections, exports and deletions, by any    *)
(* number of planners and within any limits, writes a plan history the     *)
(* next reader refuses, overwrites a selection unseen, or loses the        *)
(* assessment of a plan, and that no document is delivered of a selection  *)
(* that changed while it was rendered.                                     *)
(***************************************************************************)
EXTENDS SavedPlans, TLAPS

(* The event table's watermark is above every event: ids of one snapshot    *)
(* increase although the table is shared.                                   *)
IdsBelow == \A s \in Snapshots : SelectionId(s) <= lastEventId
IInv == PlansTypeOK /\ HistoryVerifies /\ SelectionsSeen /\ PlansKeepAssessment /\ IdsBelow

-----------------------------------------------------------------------------
(* What a publication does, a save's or a selection's.                      *)
NewEvent(s, r) == [id |-> lastEventId + 1, revision |-> r, previous |-> SelectionId(s), basis |-> SelectionId(s)]
Publishes(s, r, c) ==
    /\ s \in kept /\ Len(events[s]) < MaxSelections /\ lastEventId < MaxEventId /\ c <= MaxRevisions
    /\ \/ c = revisions[s] /\ r \in 1..c /\ revisions' = revisions
       \/ c = revisions[s] + 1 /\ r = c /\ revisions' = [revisions EXCEPT ![s] = c]
    /\ events' = [events EXCEPT ![s] = Append(events[s], NewEvent(s, r))]
    /\ lastEventId' = lastEventId + 1
    /\ markers' = [markers EXCEPT ![s] = [count |-> c, selection |-> lastEventId + 1]]
    /\ kept' = kept

(* Both writing operations are publications on the selection they saw.      *)
LEMMA SavePublishes ==
    ASSUME IInv, NEW p \in Clients, CommitSave(p)
    PROVE  LET s == job[p].view.snap IN Publishes(s, revisions[s] + 1, revisions[s] + 1)
<1> DEFINE s == job[p].view.snap
<1>1. s \in Snapshots /\ s \in kept /\ revisions[s] \in Nat /\ job[p].view.selection = SelectionId(s)
  BY DEF IInv, PlansTypeOK, CommitSave, Readable
<1>2. revisions[s] + 1 <= MaxRevisions /\ revisions' = [revisions EXCEPT ![s] = revisions[s] + 1]
  BY <1>1, PlanAssumption DEF CommitSave
<1>3. /\ events' = [events EXCEPT ![s] = Append(events[s], NewEvent(s, revisions[s] + 1))]
      /\ Len(events[s]) < MaxSelections /\ lastEventId < MaxEventId /\ lastEventId' = lastEventId + 1
  BY <1>1 DEF CommitSave, AppendEvent, IdsLeft, NewEvent
<1>4. markers' = [markers EXCEPT ![s] = [count |-> revisions[s] + 1, selection |-> lastEventId + 1]] /\ kept' = kept
  BY DEF CommitSave, AdvanceMarkers
<1> QED BY <1>1, <1>2, <1>3, <1>4 DEF Publishes

LEMMA SelectPublishes ==
    ASSUME IInv, NEW p \in Clients, CommitSelect(p)
    PROVE  LET s == view[p].snap IN \E r \in 1..revisions[s] : Publishes(s, r, revisions[s])
<1> DEFINE s == view[p].snap
<1>1. s \in Snapshots /\ s \in kept /\ revisions[s] \in 0..MaxRevisions /\ view[p].selection = SelectionId(s)
  BY DEF IInv, PlansTypeOK, CommitSelect, Readable
<1>2. PICK r \in 1..revisions[s] :
        /\ AppendEvent(s, r, view[p].selection) /\ AdvanceMarkers(s, revisions[s])
  BY DEF CommitSelect
<1>3. /\ events' = [events EXCEPT ![s] = Append(events[s], NewEvent(s, r))]
      /\ Len(events[s]) < MaxSelections /\ lastEventId < MaxEventId /\ lastEventId' = lastEventId + 1
  BY <1>1, <1>2 DEF AppendEvent, IdsLeft, NewEvent
<1>4. markers' = [markers EXCEPT ![s] = [count |-> revisions[s], selection |-> lastEventId + 1]]
  BY <1>2 DEF AdvanceMarkers
<1>5. kept' = kept /\ revisions' = revisions
  BY DEF CommitSelect
<1>6. revisions[s] <= MaxRevisions
  BY <1>1, PlanAssumption
<1> QED BY <1>1, <1>2, <1>3, <1>4, <1>5, <1>6 DEF Publishes

(* A publication keeps every part of the invariant that speaks of the       *)
(* database.                                                                *)
DatabaseTyped ==
    /\ kept \subseteq Snapshots /\ lastEventId \in 0..MaxEventId
    /\ revisions \in [Snapshots -> 0..MaxRevisions]
    /\ events \in [Snapshots -> Seq(Event)] /\ markers \in [Snapshots -> Marker]
LEMMA PublicationKeeps ==
    ASSUME IInv, NEW s \in Snapshots, NEW r \in Nat, NEW c \in Nat, Publishes(s, r, c)
    PROVE  DatabaseTyped' /\ HistoryVerifies' /\ SelectionsSeen' /\ PlansKeepAssessment' /\ IdsBelow'
<1> DEFINE L == Len(events[s])
           E == NewEvent(s, r)
<1>1. /\ events \in [Snapshots -> Seq(Event)] /\ revisions \in [Snapshots -> 0..MaxRevisions]
      /\ lastEventId \in 0..MaxEventId /\ kept \subseteq Snapshots /\ markers \in [Snapshots -> Marker]
      /\ MaxRevisions \in Nat /\ MaxSelections \in Nat /\ MaxEventId \in Nat
  BY PlanAssumption DEF IInv, PlansTypeOK
<1>2. L \in Nat /\ events[s] \in Seq(Event) /\ \A n \in 1..L : events[s][n] \in Event
  BY <1>1
<1>3. SelectionId(s) \in 0..lastEventId
  <2>1. SelectionId(s) <= lastEventId BY DEF IInv, IdsBelow
  <2>2. CASE L = 0 BY <2>2, <1>1 DEF SelectionId, IdUpTo
  <2>3. CASE L # 0
    <3>1. L \in 1..L BY <2>3, <1>2
    <3>2. events[s][L] \in Event BY <3>1, <1>2
    <3>3. events[s][L].id \in 1..MaxEventId BY <3>2 DEF Event
    <3> QED BY <3>3, <2>1, <2>3, <1>1 DEF SelectionId, IdUpTo
  <2> QED BY <2>2, <2>3
<1>4. r \in 1..c /\ c \in 0..MaxRevisions /\ lastEventId + 1 \in 1..MaxEventId /\ L < MaxSelections
  BY <1>1 DEF Publishes
<1>5. E \in Event /\ E.id = lastEventId + 1 /\ E.revision = r /\ E.previous = SelectionId(s) /\ E.basis = SelectionId(s)
  BY <1>1, <1>3, <1>4 DEF NewEvent, Event
<1> HIDE DEF E
<1>6. events' = [events EXCEPT ![s] = Append(events[s], E)] /\ lastEventId' = lastEventId + 1 /\ kept' = kept
      /\ markers' = [markers EXCEPT ![s] = [count |-> c, selection |-> lastEventId + 1]]
      /\ s \in kept
  BY DEF Publishes, E
<1>7. revisions' \in [Snapshots -> 0..MaxRevisions] /\ revisions'[s] = c /\ revisions[s] <= c
      /\ \A t \in Snapshots : t # s => revisions'[t] = revisions[t]
  <2>1. CASE c = revisions[s] /\ revisions' = revisions BY <2>1, <1>1, <1>4
  <2>2. CASE c = revisions[s] + 1 /\ revisions' = [revisions EXCEPT ![s] = c]
    BY <2>2, <1>1, <1>4
  <2> QED BY <2>1, <2>2 DEF Publishes
<1>17. \A q \in 1..c : q \in 1..revisions[s] \/ q = r
  <2>1. revisions[s] \in Nat BY <1>1
  <2> QED BY <2>1, <1>4 DEF Publishes
<1>8. /\ events' \in [Snapshots -> Seq(Event)] /\ Len(events'[s]) = L + 1 /\ events'[s][L + 1] = E
      /\ \A n \in 1..L : events'[s][n] = events[s][n]
      /\ \A t \in Snapshots : t # s => events'[t] = events[t]
  BY <1>1, <1>2, <1>5, <1>6
<1>9. /\ SelectionId(s)' = lastEventId + 1
      /\ \A n \in 0..L : IdUpTo(s, n)' = IdUpTo(s, n)
      /\ \A t \in Snapshots : t # s => SelectionId(t)' = SelectionId(t)
                                       /\ \A n \in Nat : IdUpTo(t, n)' = IdUpTo(t, n)
  BY <1>2, <1>5, <1>8 DEF SelectionId, IdUpTo
<1>10. DatabaseTyped'
  <2>1. markers' \in [Snapshots -> Marker] BY <1>1, <1>4, <1>6 DEF Marker
  <2> QED BY <2>1, <1>1, <1>4, <1>6, <1>7, <1>8 DEF DatabaseTyped
<1>11. Verifies(s)'
  <2>1. Verifies(s) BY DEF IInv, HistoryVerifies
  <2>2. ChainHolds(s)'
    <3> SUFFICES ASSUME NEW n \in 1..(L + 1)
        PROVE  /\ events'[s][n].revision \in 1..revisions'[s]
               /\ events'[s][n].previous = IdUpTo(s, n - 1)' /\ events'[s][n].previous < events'[s][n].id
      BY <1>8 DEF ChainHolds
    <3>1. CASE n = L + 1
      <4>1. IdUpTo(s, n - 1)' = SelectionId(s) BY <3>1, <1>2, <1>9 DEF SelectionId
      <4> QED BY <4>1, <3>1, <1>1, <1>3, <1>4, <1>5, <1>7, <1>8
    <3>2. CASE n # L + 1
      <4>1. n \in 1..L /\ n - 1 \in 0..L BY <3>2, <1>2
      <4>2. /\ events[s][n].revision \in 1..revisions[s]
            /\ events[s][n].previous = IdUpTo(s, n - 1) /\ events[s][n].previous < events[s][n].id
        BY <4>1, <2>1 DEF Verifies, ChainHolds
      <4>3. 1..revisions[s] \subseteq 1..revisions'[s] BY <1>1, <1>7, <1>4
      <4> QED BY <4>1, <4>2, <4>3, <1>8, <1>9
    <3> QED BY <3>1, <3>2
  <2>3. EveryRevisionSelected(s)'
    <3> SUFFICES ASSUME NEW q \in 1..c PROVE \E n \in 1..(L + 1) : events'[s][n].revision = q
      BY <1>7, <1>8 DEF EveryRevisionSelected
    <3>1. CASE q \in 1..revisions[s]
      <4>1. PICK n \in 1..L : events[s][n].revision = q
        BY <3>1, <2>1 DEF Verifies, EveryRevisionSelected
      <4>2. n \in 1..(L + 1) BY <4>1, <1>2
      <4>3. events'[s][n].revision = q BY <4>1, <1>8
      <4> QED BY <4>2, <4>3
    <3>2. CASE q = r
      <4>1. L + 1 \in 1..(L + 1) BY <1>2
      <4> QED BY <4>1, <3>2, <1>5, <1>8
    <3> QED BY <3>1, <3>2, <1>17
  <2>4. markers'[s] = [count |-> revisions'[s], selection |-> SelectionId(s)']
    BY <1>1, <1>6, <1>7, <1>9
  <2>5. revisions'[s] <= MaxRevisions /\ Len(events'[s]) <= MaxSelections
    BY <1>1, <1>2, <1>4, <1>7, <1>8
  <2> QED BY <2>2, <2>3, <2>4, <2>5 DEF Verifies
<1>12. ASSUME NEW t \in Snapshots, t # s PROVE Verifies(t)'
  <2>1. Verifies(t) BY DEF IInv, HistoryVerifies
  <2>2. events'[t] = events[t] /\ revisions'[t] = revisions[t] /\ markers'[t] = markers[t]
    BY <1>12, <1>1, <1>6, <1>7, <1>8
  <2>3. ChainHolds(t)' /\ EveryRevisionSelected(t)'
    BY <2>1, <2>2 DEF Verifies, ChainHolds, EveryRevisionSelected, IdUpTo
  <2> QED BY <2>1, <2>2, <2>3, <1>12, <1>9 DEF Verifies
<1>13. HistoryVerifies' BY <1>11, <1>12 DEF HistoryVerifies
<1>14. SelectionsSeen'
  <2> SUFFICES ASSUME NEW t \in Snapshots, NEW n \in 1..Len(events'[t])
      PROVE events'[t][n].basis = IdUpTo(t, n - 1)'
    BY DEF SelectionsSeen
  <2>1. CASE t # s
    BY <2>1, <1>8 DEF IInv, SelectionsSeen, IdUpTo
  <2>2. CASE t = s /\ n = L + 1
    <3>1. IdUpTo(s, n - 1)' = SelectionId(s) BY <2>2, <1>2, <1>9 DEF SelectionId
    <3> QED BY <3>1, <2>2, <1>2, <1>5, <1>8
  <2>3. CASE t = s /\ n # L + 1
    <3>1. n \in 1..L /\ n - 1 \in 0..L BY <2>3, <1>2, <1>8
    <3>2. events[s][n].basis = IdUpTo(s, n - 1) BY <3>1 DEF IInv, SelectionsSeen
    <3> QED BY <3>1, <3>2, <2>3, <1>8, <1>9
  <2> QED BY <2>1, <2>2, <2>3
<1>15. PlansKeepAssessment'
  BY <1>6, <1>7 DEF IInv, PlansKeepAssessment
<1>16. IdsBelow'
  <2> SUFFICES ASSUME NEW t \in Snapshots PROVE SelectionId(t)' <= lastEventId'
    BY DEF IdsBelow
  <2>1. CASE t = s BY <2>1, <1>1, <1>6, <1>9
  <2>2. CASE t # s
    <3>1. SelectionId(t) <= lastEventId BY DEF IInv, IdsBelow
    <3>2. SelectionId(t) \in Int
      <4>1. Len(events[t]) = 0 \/ Len(events[t]) \in 1..Len(events[t]) BY <1>1
      <4>2. CASE Len(events[t]) = 0 BY <4>2 DEF SelectionId, IdUpTo
      <4>3. CASE Len(events[t]) # 0
        <5>1. events[t][Len(events[t])] \in Event BY <1>1, <4>1, <4>3
        <5> QED BY <5>1, <4>3, <1>1 DEF SelectionId, IdUpTo, Event
      <4> QED BY <4>2, <4>3
    <3> QED BY <3>1, <3>2, <2>2, <1>1, <1>6, <1>9
  <2> QED BY <2>1, <2>2
<1> QED BY <1>10, <1>13, <1>14, <1>15, <1>16

-----------------------------------------------------------------------------
(* The clients' part of the type invariant.                                 *)
ClientsTyped == view \in [Clients -> View] /\ job \in [Clients -> Job]
LEMMA NoViewTyped == NoView \in View /\ NoJob \in Job
  BY PlanAssumption DEF NoView, View, NoJob, Job
LEMMA SeenTyped ==
    ASSUME IInv, NEW s \in Snapshots
    PROVE  Seen(s) \in View
<1>1. /\ events[s] \in Seq(Event) /\ revisions[s] \in 0..MaxRevisions /\ MaxEventId \in Nat /\ MaxRevisions \in Nat
  BY PlanAssumption DEF IInv, PlansTypeOK
<1>2. CASE Len(events[s]) = 0
  <2>1. SelectionId(s) = 0 BY <1>2 DEF SelectionId, IdUpTo
  <2>2. Selected(s) = 0 BY <1>1, <1>2 DEF Selected
  <2> QED BY <1>1, <2>1, <2>2 DEF Seen, View
<1>3. CASE Len(events[s]) # 0
  <2>1. Len(events[s]) \in 1..Len(events[s]) BY <1>1, <1>3
  <2>2. events[s][Len(events[s])] \in Event BY <1>1, <2>1
  <2>3. SelectionId(s) \in 0..MaxEventId BY <2>2, <1>1, <1>3 DEF SelectionId, IdUpTo, Event
  <2>4. Selected(s) \in 0..MaxRevisions BY <2>2, <1>1, <1>3 DEF Selected, Event
  <2> QED BY <1>1, <2>3, <2>4 DEF Seen, View
<1> QED BY <1>2, <1>3

LEMMA ClientsKeepType ==
    ASSUME IInv, PlansNext
    PROVE  ClientsTyped'
<1> USE NoViewTyped
<1>1. ClientsTyped BY DEF IInv, PlansTypeOK, ClientsTyped
<1>2. ASSUME NEW p \in Clients, Act(p) PROVE ClientsTyped'
  <2>1. CASE Load(p)
    <3>1. PICK s \in Snapshots : view' = [view EXCEPT ![p] = Seen(s)] BY <2>1 DEF Load
    <3>2. Seen(s) \in View BY SeenTyped
    <3> QED BY <3>1, <3>2, <2>1, <1>1 DEF Load, ClientsTyped
  <2>2. CASE BeginSave(p)
    <3>1. [op |-> "save", view |-> view[p], mark |-> 0] \in Job
      BY <1>1, PlanAssumption DEF ClientsTyped, Job
    <3> QED BY <3>1, <2>2, <1>1 DEF BeginSave, ClientsTyped
  <2>3. CASE CommitSave(p)
    <3> DEFINE s == job[p].view.snap
    <3>1. Publishes(s, revisions[s] + 1, revisions[s] + 1) BY SavePublishes, <2>3
    <3>2. s \in Snapshots /\ revisions[s] \in Nat /\ revisions[s] + 1 \in 0..MaxRevisions /\ lastEventId + 1 \in 0..MaxEventId
      BY <3>1, PlanAssumption DEF Publishes, IInv, PlansTypeOK
    <3>3. [snap |-> s, count |-> revisions[s] + 1, selection |-> lastEventId + 1, revision |-> revisions[s] + 1] \in View
      BY <3>2 DEF View
    <3> QED BY <3>3, <2>3, <1>1 DEF CommitSave, Show, ClientsTyped
  <2>4. CASE CommitSelect(p)
    <3> DEFINE s == view[p].snap
    <3>1. PICK r \in 1..revisions[s] : AppendEvent(s, r, view[p].selection) /\ Show(p, s, revisions[s], r)
      BY <2>4 DEF CommitSelect
    <3>2. s \in Snapshots /\ revisions[s] \in 0..MaxRevisions /\ r \in 0..MaxRevisions /\ lastEventId + 1 \in 0..MaxEventId
      BY <3>1, <2>4, PlanAssumption DEF CommitSelect, Readable, AppendEvent, IdsLeft, IInv, PlansTypeOK
    <3>3. [snap |-> s, count |-> revisions[s], selection |-> lastEventId + 1, revision |-> r] \in View
      BY <3>2 DEF View
    <3> QED BY <3>1, <3>3, <2>4, <1>1 DEF CommitSelect, Show, ClientsTyped
  <2>5. CASE BeginExport(p)
    <3> DEFINE s == view[p].snap
    <3>1. s \in Snapshots /\ Len(events[s]) \in 0..MaxSelections
      BY <2>5, PlanAssumption DEF BeginExport, Pinned, Readable, Verifies, IInv, PlansTypeOK
    <3>2. [op |-> "export", view |-> view[p], mark |-> Len(events[s])] \in Job
      BY <3>1, <1>1 DEF ClientsTyped, Job
    <3> QED BY <3>2, <2>5, <1>1 DEF BeginExport, ClientsTyped
  <2>6. CASE Deliver(p) BY <2>6, <1>1 DEF Deliver, ClientsTyped
  <2>7. CASE RefuseJob(p) BY <2>7, <1>1 DEF RefuseJob, ClientsTyped
  <2> QED BY <1>2, <2>1, <2>2, <2>3, <2>4, <2>5, <2>6, <2>7 DEF Act
<1>3. ASSUME NEW s \in Snapshots, DeleteUnplanned(s) PROVE ClientsTyped'
  BY <1>3, <1>1 DEF DeleteUnplanned, ClientsTyped
<1>4. ASSUME NEW c \in Campaigns, DeleteCampaign(c) PROVE ClientsTyped'
  BY <1>4, <1>1 DEF DeleteCampaign, ClientsTyped
<1> QED BY <1>2, <1>3, <1>4 DEF PlansNext

-----------------------------------------------------------------------------
(* The invariant holds at first, and every step keeps it.                   *)
LEMMA InitHolds == PlansInit => IInv
<1> SUFFICES ASSUME PlansInit PROVE IInv OBVIOUS
<1>1. PlansTypeOK BY NoViewTyped, PlanAssumption DEF PlansInit, PlansTypeOK, Marker
<1>2. \A s \in Snapshots : events[s] = <<>> /\ revisions[s] = 0 /\ SelectionId(s) = 0
  BY DEF PlansInit, SelectionId, IdUpTo
<1>3. HistoryVerifies
  BY <1>2, PlanAssumption DEF PlansInit, HistoryVerifies, Verifies, ChainHolds, EveryRevisionSelected
<1>4. SelectionsSeen /\ PlansKeepAssessment /\ IdsBelow
  BY <1>2 DEF PlansInit, SelectionsSeen, PlansKeepAssessment, IdsBelow
<1> QED BY <1>1, <1>3, <1>4 DEF IInv

(* A step that leaves rows, events and markers alone keeps what they say.   *)
LEMMA UntouchedKeeps ==
    ASSUME IInv, UNCHANGED <<revisions, events, lastEventId, markers>>, kept' \subseteq Snapshots,
           \A s \in Snapshots : revisions[s] # 0 /\ s \in kept => s \in kept'
    PROVE  DatabaseTyped' /\ HistoryVerifies' /\ SelectionsSeen' /\ PlansKeepAssessment' /\ IdsBelow'
<1>1. DatabaseTyped' BY DEF IInv, PlansTypeOK, DatabaseTyped
<1>2. HistoryVerifies'
  BY DEF IInv, HistoryVerifies, Verifies, ChainHolds, EveryRevisionSelected, SelectionId, IdUpTo
<1>3. SelectionsSeen' /\ IdsBelow'
  BY DEF IInv, SelectionsSeen, IdsBelow, SelectionId, IdUpTo
<1>4. PlansKeepAssessment' BY DEF IInv, PlansKeepAssessment
<1> QED BY <1>1, <1>2, <1>3, <1>4

LEMMA StepKeeps == IInv /\ [PlansNext]_plansVars => IInv'
<1> SUFFICES ASSUME IInv, [PlansNext]_plansVars PROVE IInv' OBVIOUS
<1> DEFINE Rest == DatabaseTyped' /\ HistoryVerifies' /\ SelectionsSeen' /\ PlansKeepAssessment' /\ IdsBelow'
<1>1. ASSUME PlansNext PROVE Rest
  <2>1. ASSUME NEW p \in Clients, Act(p) PROVE Rest
    <3>1. CASE CommitSave(p)
      <4>1. Publishes(job[p].view.snap, revisions[job[p].view.snap] + 1, revisions[job[p].view.snap] + 1)
        BY SavePublishes, <3>1
      <4>2. job[p].view.snap \in Snapshots /\ revisions[job[p].view.snap] + 1 \in Nat
        BY <4>1 DEF Publishes, IInv, PlansTypeOK
      <4> QED BY <4>1, <4>2, PublicationKeeps
    <3>2. CASE CommitSelect(p)
      <4>1. PICK r \in 1..revisions[view[p].snap] : Publishes(view[p].snap, r, revisions[view[p].snap])
        BY SelectPublishes, <3>2
      <4>2. view[p].snap \in Snapshots /\ revisions[view[p].snap] \in Nat /\ r \in Nat
        BY <4>1 DEF Publishes, IInv, PlansTypeOK
      <4> QED BY <4>1, <4>2, PublicationKeeps
    <3>3. CASE Load(p) \/ BeginSave(p) \/ BeginExport(p) \/ Deliver(p) \/ RefuseJob(p)
      <4>1. UNCHANGED database BY <3>3 DEF Load, BeginSave, BeginExport, Deliver, RefuseJob
      <4>2. kept \subseteq Snapshots BY DEF IInv, PlansTypeOK
      <4> QED BY <4>1, <4>2, UntouchedKeeps DEF database
    <3> QED BY <2>1, <3>1, <3>2, <3>3 DEF Act
  <2>2. ASSUME NEW s \in Snapshots, DeleteUnplanned(s) PROVE Rest
    <3>1. UNCHANGED <<revisions, events, lastEventId, markers>> /\ kept' = kept \ {s} /\ revisions[s] = 0
      BY <2>2 DEF DeleteUnplanned, Planned
    <3>2. kept \subseteq Snapshots BY DEF IInv, PlansTypeOK
    <3> QED BY <3>1, <3>2, UntouchedKeeps
  <2>3. ASSUME NEW c \in Campaigns, DeleteCampaign(c) PROVE Rest
    <3>1. UNCHANGED <<revisions, events, lastEventId, markers>> /\ kept' = kept \ Members(c)
          /\ \A s \in Members(c) : revisions[s] = 0
      BY <2>3 DEF DeleteCampaign, Planned
    <3>2. kept \subseteq Snapshots BY DEF IInv, PlansTypeOK
    <3> QED BY <3>1, <3>2, UntouchedKeeps
  <2> QED BY <1>1, <2>1, <2>2, <2>3 DEF PlansNext
<1>2. CASE PlansNext
  <2>1. ClientsTyped' BY <1>2, ClientsKeepType
  <2>2. Rest BY <1>1, <1>2
  <2> QED BY <2>1, <2>2 DEF IInv, PlansTypeOK, DatabaseTyped, ClientsTyped
<1>3. CASE UNCHANGED plansVars
  <2>1. Rest
    <3>1. kept \subseteq Snapshots BY DEF IInv, PlansTypeOK
    <3> QED BY <1>3, <3>1, UntouchedKeeps DEF plansVars
  <2>2. ClientsTyped' BY <1>3 DEF IInv, PlansTypeOK, ClientsTyped, plansVars
  <2> QED BY <2>1, <2>2 DEF IInv, PlansTypeOK, DatabaseTyped, ClientsTyped
<1> QED BY <1>2, <1>3

-----------------------------------------------------------------------------
(* What an export pinned: the event that was the last one when it began.    *)
(* Ids increase, so the same last id is the same length.                    *)
LastIsLatest ==
    \A s \in Snapshots : \A n \in 1..Len(events[s]) :
        n # Len(events[s]) => events[s][n].id < SelectionId(s)
ExportsMarked ==
    \A p \in Clients : job[p].op = "export" =>
        LET s == job[p].view.snap
        IN  /\ s \in Snapshots /\ job[p].mark \in 1..Len(events[s])
            /\ events[s][job[p].mark].id = job[p].view.selection
PinInv == IInv /\ LastIsLatest /\ ExportsMarked

LEMMA LastEvent ==
    ASSUME IInv, NEW s \in Snapshots, NEW n \in 1..Len(events[s])
    PROVE  /\ events[s][n].id \in Nat
           /\ Len(events[s]) \in 1..Len(events[s])
           /\ SelectionId(s) = events[s][Len(events[s])].id
<1>1. events[s] \in Seq(Event)
  BY DEF IInv, PlansTypeOK
<1>2. Len(events[s]) \in 1..Len(events[s]) /\ events[s][n] \in Event /\ Len(events[s]) # 0
  BY <1>1
<1>3. events[s][n].id \in Nat
  BY <1>2, PlanAssumption DEF Event
<1> QED BY <1>2, <1>3 DEF SelectionId, IdUpTo

(* A publication appends: the marked events stay where they were.           *)
LEMMA PublicationPins ==
    ASSUME PinInv, NEW s \in Snapshots, NEW r \in Nat, NEW c \in Nat, Publishes(s, r, c),
           \A p \in Clients : job'[p].op = "export" => job'[p] = job[p]
    PROVE  LastIsLatest' /\ ExportsMarked'
<1> DEFINE L == Len(events[s])
<1>1. /\ events \in [Snapshots -> Seq(Event)] /\ L \in Nat /\ lastEventId \in Nat /\ MaxEventId \in Nat
      /\ IInv /\ LastIsLatest /\ ExportsMarked
  BY PlanAssumption DEF PinInv, IInv, PlansTypeOK
<1>2. PICK E : E = NewEvent(s, r)
  OBVIOUS
<1>3. events' = [events EXCEPT ![s] = Append(events[s], E)] /\ E.id = lastEventId + 1
  BY <1>2 DEF Publishes, NewEvent
<1>4. /\ Len(events'[s]) = L + 1 /\ events'[s][L + 1].id = lastEventId + 1
      /\ \A n \in 1..L : events'[s][n] = events[s][n]
      /\ \A t \in Snapshots : t # s => events'[t] = events[t]
  BY <1>1, <1>3
<1>5. SelectionId(s)' = lastEventId + 1 /\ \A t \in Snapshots : t # s => SelectionId(t)' = SelectionId(t)
  BY <1>1, <1>4 DEF SelectionId, IdUpTo
<1>6. ASSUME NEW n \in 1..L PROVE events[s][n].id < lastEventId + 1
  <2>1. /\ events[s][n].id \in Nat /\ L \in 1..L
        /\ SelectionId(s) = events[s][L].id
    BY <1>1, <1>6, LastEvent
  <2>2. events[s][L].id \in Nat
    BY <1>1, <2>1, LastEvent
  <2>3. events[s][n].id <= SelectionId(s)
    BY <1>1, <2>1, <2>2 DEF LastIsLatest
  <2>4. SelectionId(s) <= lastEventId
    BY <1>1 DEF IInv, IdsBelow
  <2> QED BY <1>1, <2>1, <2>2, <2>3, <2>4
<1>7. LastIsLatest'
  <2> SUFFICES ASSUME NEW t \in Snapshots, NEW n \in 1..Len(events'[t]), n # Len(events'[t])
               PROVE  events'[t][n].id < SelectionId(t)'
    BY DEF LastIsLatest
  <2>1. CASE t = s
    <3>1. n \in 1..L
      BY <1>1, <1>4, <2>1
    <3> QED BY <1>4, <1>5, <1>6, <2>1, <3>1
  <2>2. CASE t # s
    BY <1>1, <1>4, <1>5, <2>2 DEF LastIsLatest
  <2> QED BY <2>1, <2>2
<1>8. ExportsMarked'
  <2> SUFFICES ASSUME NEW p \in Clients, job'[p].op = "export"
               PROVE  LET u == job[p].view.snap
                      IN  /\ u \in Snapshots /\ job[p].mark \in 1..Len(events'[u])
                          /\ events'[u][job[p].mark].id = job[p].view.selection
    BY DEF ExportsMarked
  <2> DEFINE u == job[p].view.snap
  <2>1. job[p].op = "export"
    OBVIOUS
  <2>2. u \in Snapshots /\ job[p].mark \in 1..Len(events[u]) /\ events[u][job[p].mark].id = job[p].view.selection
    BY <1>1, <2>1 DEF ExportsMarked
  <2>3. CASE u = s
    BY <1>1, <1>4, <2>2, <2>3
  <2>4. CASE u # s
    BY <1>4, <2>2, <2>4
  <2> QED BY <2>3, <2>4
<1> QED BY <1>7, <1>8

LEMMA BeginExportPins ==
    ASSUME PinInv, NEW p \in Clients, BeginExport(p)
    PROVE  LastIsLatest' /\ ExportsMarked'
<1> DEFINE v == view[p]
<1>1. /\ UNCHANGED events /\ job \in [Clients -> Job] /\ IInv /\ LastIsLatest /\ ExportsMarked
      /\ job' = [job EXCEPT ![p] = [op |-> "export", view |-> v, mark |-> Len(events[v.snap])]]
  BY DEF PinInv, IInv, PlansTypeOK, BeginExport, database
<1>2. v.snap \in Snapshots /\ Selected(v.snap) # 0 /\ SelectionId(v.snap) = v.selection
  BY <1>1 DEF BeginExport, Pinned, Readable, IInv, PlansTypeOK
<1>3. events[v.snap] # <<>> /\ events[v.snap] \in Seq(Event)
  BY <1>1, <1>2 DEF Selected, IInv, PlansTypeOK
<1>4. Len(events[v.snap]) \in 1..Len(events[v.snap])
  BY <1>3
<1>5. events[v.snap][Len(events[v.snap])].id = v.selection
  BY <1>1, <1>2, <1>4, LastEvent
<1>6. LastIsLatest'
  BY <1>1 DEF LastIsLatest, SelectionId, IdUpTo
<1> QED BY <1>1, <1>2, <1>4, <1>5, <1>6 DEF ExportsMarked

LEMMA OthersPin ==
    ASSUME PinInv, UNCHANGED events, \A p \in Clients : job'[p].op = "export" => job'[p] = job[p]
    PROVE  LastIsLatest' /\ ExportsMarked'
<1>1. LastIsLatest /\ ExportsMarked
  BY DEF PinInv
<1>2. LastIsLatest'
  BY <1>1 DEF LastIsLatest, SelectionId, IdUpTo
<1>3. ExportsMarked'
  BY <1>1 DEF ExportsMarked
<1> QED BY <1>2, <1>3

LEMMA StepPins == ASSUME PinInv, [PlansNext]_plansVars PROVE PinInv'
<1>1. IInv /\ IInv' /\ job \in [Clients -> Job]
  BY StepKeeps DEF PinInv, IInv, PlansTypeOK
<1>2. ASSUME NEW p \in Clients, Act(p) PROVE LastIsLatest' /\ ExportsMarked'
  <2>1. CASE CommitSave(p)
    <3>1. Publishes(job[p].view.snap, revisions[job[p].view.snap] + 1, revisions[job[p].view.snap] + 1)
      BY <1>1, <2>1, SavePublishes
    <3>2. job[p].view.snap \in Snapshots /\ revisions[job[p].view.snap] + 1 \in Nat
      BY <1>1, <3>1 DEF Publishes, IInv, PlansTypeOK
    <3>3. \A q \in Clients : job'[q].op = "export" => job'[q] = job[q]
      BY <1>1, <2>1 DEF CommitSave, NoJob
    <3> QED BY <3>1, <3>2, <3>3, PublicationPins
  <2>2. CASE CommitSelect(p)
    <3>1. PICK r \in 1..revisions[view[p].snap] : Publishes(view[p].snap, r, revisions[view[p].snap])
      BY <1>1, <2>2, SelectPublishes
    <3>2. view[p].snap \in Snapshots /\ revisions[view[p].snap] \in Nat /\ r \in Nat
      BY <1>1, <3>1 DEF Publishes, IInv, PlansTypeOK
    <3>3. UNCHANGED job
      BY <2>2 DEF CommitSelect
    <3> QED BY <3>1, <3>2, <3>3, PublicationPins
  <2>3. CASE BeginExport(p)
    BY <2>3, BeginExportPins
  <2>4. CASE Load(p) \/ BeginSave(p) \/ Deliver(p) \/ RefuseJob(p)
    <3>1. UNCHANGED events
      BY <2>4 DEF Load, BeginSave, Deliver, RefuseJob, database
    <3>2. \A q \in Clients : job'[q].op = "export" => job'[q] = job[q]
      BY <1>1, <2>4 DEF Load, BeginSave, Deliver, RefuseJob, NoJob
    <3> QED BY <3>1, <3>2, OthersPin
  <2> QED BY <1>2, <2>1, <2>2, <2>3, <2>4 DEF Act
<1>3. CASE \/ \E s \in Snapshots : DeleteUnplanned(s)
           \/ \E c \in Campaigns : DeleteCampaign(c)
           \/ UNCHANGED plansVars
  <2>1. UNCHANGED <<events, job>>
    BY <1>3 DEF DeleteUnplanned, DeleteCampaign, plansVars
  <2>2. \A p \in Clients : job'[p].op = "export" => job'[p] = job[p]
    BY <2>1
  <2> QED BY <1>1, <2>1, <2>2, OthersPin DEF PinInv
<1> QED BY <1>1, <1>2, <1>3 DEF PinInv, PlansNext

-----------------------------------------------------------------------------
(* Every variable keeps its type and every counter its limit.               *)
THEOREM TypeCorrect == PlansSpec => []PlansTypeOK
<1>1. IInv => PlansTypeOK BY DEF IInv
<1> QED BY <1>1, InitHolds, StepKeeps, PTL DEF PlansSpec

(* Every stored history passes the check each reader makes of it.           *)
THEOREM HistoriesVerify == PlansSpec => []HistoryVerifies
<1>1. IInv => HistoryVerifies BY DEF IInv
<1> QED BY <1>1, InitHolds, StepKeeps, PTL DEF PlansSpec

(* No save or selection replaces a selection its author had not seen.       *)
THEOREM SelectionsAreSeen == PlansSpec => []SelectionsSeen
<1>1. IInv => SelectionsSeen BY DEF IInv
<1> QED BY <1>1, InitHolds, StepKeeps, PTL DEF PlansSpec

(* The assessment of a saved plan is never deleted.                         *)
THEOREM AssessmentsKept == PlansSpec => []PlansKeepAssessment
<1>1. IInv => PlansKeepAssessment BY DEF IInv
<1> QED BY <1>1, InitHolds, StepKeeps, PTL DEF PlansSpec

(* A document is delivered only if no selection came between the read it was *)
(* rendered from and the delivery, for any planners and any limits           *)
(* (app.py, the export routes).                                              *)
THEOREM DeliveredAsPinned == PlansSpec => ExportPinned
<1>1. PlansInit => PinInv
  BY InitHolds DEF PlansInit, PinInv, LastIsLatest, ExportsMarked, NoJob
<1>2. PinInv /\ [PlansNext]_plansVars => PinInv'
  BY StepPins
<1>3. PinInv /\ [PlansNext]_plansVars =>
        [\A p \in Clients : Delivers(p) => Len(events[job[p].view.snap]) = job[p].mark]_plansVars
  <2> SUFFICES ASSUME PinInv, [PlansNext]_plansVars, NEW p \in Clients, Delivers(p)
               PROVE  Len(events[job[p].view.snap]) = job[p].mark
    OBVIOUS
  <2> DEFINE s == job[p].view.snap
  <2>1. IInv /\ LastIsLatest /\ ExportsMarked /\ job \in [Clients -> Job] /\ view \in [Clients -> View]
    BY DEF PinInv, IInv, PlansTypeOK
  <2>2. job[p].op = "export" /\ job'[p] # job[p] /\ job[p] # NoJob /\ view'[p] # NoView
    BY DEF Delivers, NoJob
  <2>3. PICK q \in Clients : Act(q)
    BY <2>2 DEF PlansNext, DeleteUnplanned, DeleteCampaign, plansVars
  <2>4. q = p
    BY <2>1, <2>2, <2>3 DEF Act, Load, BeginSave, CommitSave, CommitSelect, BeginExport, Deliver, RefuseJob
  <2>5. Deliver(p)
    BY <2>1, <2>2, <2>3, <2>4 DEF Act, Load, BeginSave, CommitSave, CommitSelect, BeginExport, RefuseJob
  <2>6. SelectionId(s) = job[p].view.selection
    BY <2>5 DEF Deliver, Pinned
  <2>7. s \in Snapshots /\ job[p].mark \in 1..Len(events[s]) /\ events[s][job[p].mark].id = SelectionId(s)
    BY <2>1, <2>2, <2>6 DEF ExportsMarked
  <2>8. events[s][job[p].mark].id \in Nat
    BY <2>1, <2>7, LastEvent
  <2>9. ~ (events[s][job[p].mark].id < SelectionId(s))
    BY <2>7, <2>8
  <2> QED BY <2>1, <2>7, <2>9 DEF LastIsLatest
<1> QED BY <1>1, <1>2, <1>3, PTL DEF PlansSpec, ExportPinned

=============================================================================
