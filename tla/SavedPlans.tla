----------------------------- MODULE SavedPlans -----------------------------
(***************************************************************************)
(* Saved plan revisions of an assessment (storage.py, app.py): immutable   *)
(* rows, an append-only chain of selection events and three markers of the *)
(* snapshot row, published together in one write transaction.  Planners in *)
(* several tabs decide from what they last loaded; saving derives the plan *)
(* and exporting renders it between two transactions, while others select, *)
(* save and delete.                                                        *)
(***************************************************************************)
EXTENDS Integers, Sequences

CONSTANTS Clients, Snapshots, Campaigns,
          Home,             \* the campaign of each snapshot
          NoSnapshot,
          MaxRevisions,     \* SAVED_PLAN_MAX_REVISIONS
          MaxSelections,    \* SAVED_PLAN_MAX_SELECTIONS
          MaxEventId        \* _SQLITE_MAX_ID, of the event table
ASSUME PlanAssumption ==
    /\ Home \in [Snapshots -> Campaigns] /\ NoSnapshot \notin Snapshots
    /\ MaxRevisions \in Nat /\ MaxSelections \in Nat /\ MaxEventId \in Nat

VARIABLES
    kept,        \* the snapshots that are not deleted
    revisions,   \* how many plan_revisions rows each has, numbered from 1
    events,      \* plan_selection_events of each, in the order of their ids
    lastEventId, \* the event table's high watermark, over all snapshots
    markers,     \* what the snapshot row says of its plans
    view,        \* what each client last saw
    job          \* the save or export each client waits for
plansVars == <<kept, revisions, events, lastEventId, markers, view, job>>
database == <<kept, revisions, events, lastEventId, markers>>

\* "basis" is not stored: the selection the caller had seen.
Event == [id : 1..MaxEventId, revision : 1..MaxRevisions, previous : 0..MaxEventId, basis : 0..MaxEventId]
Marker == [count : 0..MaxRevisions, selection : 0..MaxEventId]
View == [snap : Snapshots \cup {NoSnapshot}, count : 0..MaxRevisions, selection : 0..MaxEventId,
         revision : 0..MaxRevisions]
Job == [op : {"idle", "save", "export"}, view : View, mark : 0..MaxSelections]
NoView == [snap |-> NoSnapshot, count |-> 0, selection |-> 0, revision |-> 0]
NoJob == [op |-> "idle", view |-> NoView, mark |-> 0]

IdUpTo(s, n) == IF n = 0 THEN 0 ELSE events[s][n].id
SelectionId(s) == IdUpTo(s, Len(events[s]))
Selected(s) == IF events[s] = <<>> THEN 0 ELSE events[s][Len(events[s])].revision
Seen(s) == [snap |-> s, count |-> revisions[s], selection |-> SelectionId(s), revision |-> Selected(s)]

PlansInit ==
    /\ kept = Snapshots /\ lastEventId = 0
    /\ revisions = [s \in Snapshots |-> 0] /\ events = [s \in Snapshots |-> <<>>]
    /\ markers = [s \in Snapshots |-> [count |-> 0, selection |-> 0]]
    /\ view = [p \in Clients |-> NoView] /\ job = [p \in Clients |-> NoJob]

-----------------------------------------------------------------------------
(* Every operation first verifies the whole history and refuses, with an    *)
(* integrity error, one that does not reconcile.                            *)
ChainHolds(s) ==
    \A n \in 1..Len(events[s]) :
        LET e == events[s][n]
        IN  e.revision \in 1..revisions[s] /\ e.previous = IdUpTo(s, n - 1) /\ e.previous < e.id
EveryRevisionSelected(s) ==
    \A r \in 1..revisions[s] : \E n \in 1..Len(events[s]) : events[s][n].revision = r
Verifies(s) ==
    /\ revisions[s] <= MaxRevisions /\ Len(events[s]) <= MaxSelections
    /\ ChainHolds(s) /\ EveryRevisionSelected(s)
    /\ markers[s] = [count |-> revisions[s], selection |-> SelectionId(s)]
Readable(s) == s \in kept /\ Verifies(s)

IdsLeft == lastEventId < MaxEventId
(* Append the event and move the markers, from the state just read.         *)
AppendEvent(s, r, basis) ==
    /\ Len(events[s]) < MaxSelections /\ IdsLeft
    /\ events' = [events EXCEPT ![s] = Append(@,
                    [id |-> lastEventId + 1, revision |-> r, previous |-> SelectionId(s), basis |-> basis])]
    /\ lastEventId' = lastEventId + 1
(* No trigger stops a marker that moves forward by one revision at most.    *)
AdvanceMarkers(s, count) ==
    markers' = [markers EXCEPT ![s] = [count |-> count, selection |-> lastEventId + 1]]
Show(p, s, count, r) ==     \* the response names the new selection
    view' = [view EXCEPT ![p] = [snap |-> s, count |-> count, selection |-> lastEventId + 1, revision |-> r]]

Load(p) ==
    /\ job[p] = NoJob
    /\ \E s \in Snapshots : Readable(s) /\ view' = [view EXCEPT ![p] = Seen(s)]
    /\ UNCHANGED job /\ UNCHANGED database

(* A save derives the plan outside the lock, then compares and publishes.   *)
BeginSave(p) ==
    /\ job[p] = NoJob /\ view[p].snap \in kept
    /\ job' = [job EXCEPT ![p] = [op |-> "save", view |-> view[p], mark |-> 0]]
    /\ UNCHANGED view /\ UNCHANGED database
(* Mutant: only the revision limit is checked, and the event overflows. *)
SaveUnlimited(p) ==
    LET v == job[p].view IN LET s == v.snap IN
    /\ job[p].op = "save" /\ Readable(s) /\ SelectionId(s) = v.selection
    /\ revisions[s] < MaxRevisions /\ IdsLeft
    /\ revisions' = [revisions EXCEPT ![s] = @ + 1]
    /\ events' = [events EXCEPT ![s] = Append(@, [id |-> lastEventId + 1, revision |-> revisions[s] + 1,
                    previous |-> SelectionId(s), basis |-> v.selection])]
    /\ lastEventId' = lastEventId + 1
    /\ AdvanceMarkers(s, revisions[s] + 1) /\ Show(p, s, revisions[s] + 1, revisions[s] + 1)
    /\ job' = [job EXCEPT ![p] = NoJob] /\ UNCHANGED kept
CommitSave(p) ==
    LET v == job[p].view IN LET s == v.snap IN
    /\ job[p].op = "save" /\ Readable(s) /\ SelectionId(s) = v.selection
    /\ revisions[s] < MaxRevisions
    /\ revisions' = [revisions EXCEPT ![s] = @ + 1]
    /\ AppendEvent(s, revisions[s] + 1, v.selection)
    /\ AdvanceMarkers(s, revisions[s] + 1) /\ Show(p, s, revisions[s] + 1, revisions[s] + 1)
    /\ job' = [job EXCEPT ![p] = NoJob] /\ UNCHANGED kept

(* Mutant: the selected revision is compared, not the event that selected it. *)
SelectByRevision(p) ==
    LET v == view[p] IN LET s == v.snap IN
    /\ job[p] = NoJob /\ s # NoSnapshot /\ Readable(s) /\ Selected(s) = v.revision
    /\ \E r \in 1..revisions[s] :
          /\ r <= v.count
          /\ AppendEvent(s, r, v.selection) /\ AdvanceMarkers(s, revisions[s]) /\ Show(p, s, revisions[s], r)
    /\ UNCHANGED <<kept, revisions, job>>

(* Selecting appends even when the same revision is selected again.         *)
CommitSelect(p) ==
    LET v == view[p] IN LET s == v.snap IN
    /\ job[p] = NoJob /\ s # NoSnapshot /\ Readable(s) /\ SelectionId(s) = v.selection
    /\ \E r \in 1..revisions[s] :
          /\ r <= v.count
          /\ AppendEvent(s, r, v.selection) /\ AdvanceMarkers(s, revisions[s]) /\ Show(p, s, revisions[s], r)
    /\ UNCHANGED <<kept, revisions, job>>

(* Mutant: a selection that went away and came back is not noticed.        *)
PinnedByRevision(v) ==
    /\ v.snap # NoSnapshot /\ Readable(v.snap)
    /\ v.revision # 0 /\ Selected(v.snap) = v.revision
(* An export pins the selected revision, renders without the lock, and is   *)
(* delivered only if the same selection is read again afterwards.           *)
Pinned(v) ==
    /\ v.snap # NoSnapshot /\ Readable(v.snap)
    /\ v.revision # 0 /\ SelectionId(v.snap) = v.selection /\ Selected(v.snap) = v.revision
BeginExport(p) ==
    /\ job[p] = NoJob /\ Pinned(view[p])
    /\ job' = [job EXCEPT ![p] = [op |-> "export", view |-> view[p], mark |-> Len(events[view[p].snap])]]
    /\ UNCHANGED view /\ UNCHANGED database
Deliver(p) ==
    /\ job[p].op = "export" /\ Pinned(job[p].view)
    /\ job' = [job EXCEPT ![p] = NoJob]
    /\ UNCHANGED view /\ UNCHANGED database

(* A conflict, a limit, an integrity or a database error, or the end of the *)
(* process: nothing is published.                                           *)
RefuseJob(p) ==
    /\ job[p] # NoJob
    /\ job' = [job EXCEPT ![p] = NoJob] /\ view' = [view EXCEPT ![p] = NoView]
    /\ UNCHANGED database

(* Deleting, guarded by both the marker and the rows.                       *)
Planned(s) == markers[s].count # 0 \/ revisions[s] # 0
DeleteUnplanned(s) ==
    /\ s \in kept /\ ~Planned(s)
    /\ kept' = kept \ {s}
    /\ UNCHANGED <<revisions, events, lastEventId, markers, view, job>>
Members(c) == {s \in kept : Home[s] = c}
(* Mutant: one snapshot without plans is enough to delete the campaign. *)
DeleteCampaignOfAny(c) ==
    /\ \E s \in Members(c) : ~Planned(s)
    /\ kept' = kept \ Members(c)
    /\ UNCHANGED <<revisions, events, lastEventId, markers, view, job>>
DeleteCampaign(c) ==
    /\ Members(c) # {} /\ \A s \in Members(c) : ~Planned(s)
    /\ kept' = kept \ Members(c)
    /\ UNCHANGED <<revisions, events, lastEventId, markers, view, job>>

Act(p) == Load(p) \/ BeginSave(p) \/ CommitSave(p) \/ CommitSelect(p) \/ BeginExport(p) \/ Deliver(p) \/ RefuseJob(p)
PlansNext == \/ \E p \in Clients : Act(p)
             \/ \E s \in Snapshots : DeleteUnplanned(s)
             \/ \E c \in Campaigns : DeleteCampaign(c)
PlansSpec == PlansInit /\ [][PlansNext]_plansVars

-----------------------------------------------------------------------------
(* Every variable keeps its type; the counters keep to their limits.        *)
PlansTypeOK ==
    /\ kept \subseteq Snapshots /\ lastEventId \in 0..MaxEventId
    /\ revisions \in [Snapshots -> 0..MaxRevisions]
    /\ events \in [Snapshots -> Seq(Event)]
    /\ markers \in [Snapshots -> Marker]
    /\ view \in [Clients -> View] /\ job \in [Clients -> Job]

(* No sequence of saves and selections, at the limits too, writes a history *)
(* that the next reader refuses: such a snapshot could never be planned or  *)
(* exported again, nor repaired, since every row is immutable.              *)
HistoryVerifies == \A s \in Snapshots : Verifies(s)

(* Who saves or selects had seen the event that selected what is replaced,  *)
(* even when another tab chose the same revision again in between.          *)
SelectionsSeen ==
    \A s \in Snapshots : \A n \in 1..Len(events[s]) : events[s][n].basis = IdUpTo(s, n - 1)

(* An assessment with a saved plan is never deleted, alone or with its      *)
(* campaign, although the plan was derived from it outside the lock.        *)
PlansKeepAssessment == \A s \in Snapshots : revisions[s] # 0 => s \in kept

(* A delivered document was rendered while its revision stayed selected: no *)
(* selection came between the first read and the delivery.                  *)
Delivers(p) == job[p].op = "export" /\ job'[p] = NoJob /\ view'[p] # NoView
ExportPinned ==
    [][\A p \in Clients : Delivers(p) => Len(events[job[p].view.snap]) = job[p].mark]_plansVars

=============================================================================
