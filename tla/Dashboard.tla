------------------------------ MODULE Dashboard ------------------------------
(***************************************************************************)
(* What a visitor sees: the pipeline of PublishPipeline carries two        *)
(* documents, the snapshot and the checklist of manual actions computed    *)
(* from it, and the page fetches one after the other from a site that      *)
(* moves meanwhile.  Maintainers release, and push snapshots of their own, *)
(* with or without the checklist; what ops/manual-actions.yaml declares    *)
(* done stays the same.                                                    *)
(***************************************************************************)
EXTENDS PublishPipeline

CONSTANTS
  Expect,       \* what the automatic check of each action expects; "none": no check
  DeclaredDone  \* the actions ops/manual-actions.yaml declares done

ASSUME DashboardAssumption ==
  /\ \A a \in DOMAIN Expect : Expect[a] \in {"published", "green", "other", "none"}
  /\ DeclaredDone \subseteq DOMAIN Expect

VARIABLES
  released,   \* the target the checks name is on its registry
  verdict,    \* its status in each snapshot
  data,       \* per commit of main: the snapshot its checklist was computed from
  page        \* the commit an open page fetched the snapshot from, or 0

dashboardVars == <<released, verdict, data, page>>

-----------------------------------------------------------------------------
Actions == DOMAIN Expect
NoSnapshot == MaxPushes + MaxCollects + 1   \* the checklist was computed from none
Verdicts == {"green", "stale", "missing"}   \* missing: or unknown, which resolves alike

\* What a collect may see of the target: its release, late or not, or nothing.
Observable == IF released THEN Verdicts ELSE {"missing"}

InitDashboard ==
  /\ Init
  /\ released = FALSE
  /\ verdict = [n \in Snapshot |-> "missing"]
  /\ data = <<NoSnapshot>>
  /\ page = 0

\* The verdicts of the snapshots somebody still holds.
Held ==
  LET holders == {main'[i].snapshot : i \in DOMAIN main'}
                   \cup (IF collect'.step \in {"rebase", "push"} THEN {collect'.snapshot} ELSE {})
  IN  [n \in Snapshot |-> IF n \in holders THEN verdict[n] ELSE "missing"]

-----------------------------------------------------------------------------
Release ==
  /\ ~released /\ released' = TRUE
  /\ UNCHANGED <<vars, verdict, data, page>>

\* A maintainer's push: a snapshot comes with a checklist computed from it, or
\* without.
PushData ==
  /\ Push
  /\ IF main'[Tip + 1].snapshot = main[Tip].snapshot
       THEN data' = Append(data, data[Tip]) /\ UNCHANGED verdict
       ELSE /\ \E list \in {pushes', data[Tip]} : data' = Append(data, list)
            /\ \E v \in Observable : verdict' = [verdict EXCEPT ![pushes'] = v]
  /\ UNCHANGED <<released, page>>

\* The collect of the workflow, then `admin actions` on what it wrote.
CollectData ==
  /\ Collected
  /\ \E v \in Observable : verdict' = [verdict EXCEPT ![collect.snapshot] = v]
  /\ UNCHANGED <<released, data, page>>

\* Slip: only the snapshot is committed.
PushOneDocument ==
  /\ PushSnapshot
  /\ data' = IF main' = main THEN data ELSE Append(data, data[Tip])
  /\ verdict' = Held /\ UNCHANGED <<released, page>>

\* Both documents are in the commit the workflow pushes.
PushDocuments ==
  /\ PushSnapshot
  /\ data' = IF main' = main THEN data
             ELSE Append(data, collect.snapshot)
  /\ verdict' = Held /\ UNCHANGED <<released, page>>

\* main of app.js fetches the snapshot, and then the checklist; a fetch that
\* fails leaves the section out.  A complete page changes no more.
LoadSnapshot ==
  /\ page = 0 /\ page' = site
  /\ UNCHANGED <<vars, released, verdict, data>>

LoadManualActions ==
  /\ page # 0 /\ page' = 0
  /\ UNCHANGED <<vars, released, verdict, data>>

Others ==
  /\ \/ DispatchPages \/ TriggerCollect \/ FailCollect \/ FailPages
     \/ StartWaiting \/ Rebase \/ FinishCollect
     \/ Build \/ Deploy \/ Skip
  /\ verdict' = Held /\ UNCHANGED <<released, data, page>>

NextDashboard ==
  \/ Release \/ PushData \/ CollectData \/ PushDocuments
  \/ LoadSnapshot \/ LoadManualActions
  \/ Others

SpecDashboard == InitDashboard /\ [][NextDashboard]_<<vars, dashboardVars>>
FairDashboard == SpecDashboard /\ Fairness

-----------------------------------------------------------------------------
\* evaluate: the resolution of an action against the snapshot of its checklist.
Resolved(a, snapshot) ==
  IF Expect[a] \in {"none", "other"} \/ snapshot = NoSnapshot THEN "unknown"
  ELSE IF verdict[snapshot] \in (IF Expect[a] = "green" THEN {"green"} ELSE {"green", "stale"})
         THEN "yes" ELSE "no"

\* Slip: an action declared done is done, unless the check says otherwise.
PendingTrusting(resolved, checked, done) == resolved = "no" \/ (resolved = "unknown" /\ ~done)

\* is_pending: a declaration counts only where nothing is checked.
Pending(resolved, checked, done) ==
  resolved # "yes" /\ (resolved = "no" \/ checked \/ ~done)

\* public_payload: the row of an action.
Row(a, list) ==
  LET r == Resolved(a, list)
  IN  [resolved |-> r, checked |-> Expect[a] # "none", done |-> r = "yes" \/ a \in DeclaredDone]

\* Slip: the page hides what is declared done unless the check says otherwise.
PageTrusting(row) == row.resolved # "yes" /\ (row.resolved = "no" \/ ~row.done)

\* isManualActionPending, on the row the page fetched.
PagePending(row) == row.resolved # "yes" /\ (row.resolved = "no" \/ row.checked \/ ~row.done)

PendingOf(list) == {a \in Actions : Pending(Resolved(a, list), Expect[a] # "none", a \in DeclaredDone)}

\* Types of every variable; each commit has one checklist.
DocumentsTypeOK ==
  /\ TypeOK
  /\ released \in BOOLEAN /\ verdict \in [Snapshot -> Verdicts]
  /\ data \in Seq(Snapshot \cup {NoSnapshot}) /\ Len(data) = Tip
  /\ page \in 0 .. Tip

\* An open page, its snapshot, and the checklist it fetches if it does so now.
Open == page # 0
ShownSnapshot == main[page].snapshot
ShownList == data[site]

\* "Respect manual completion while keeping negative or unknown checks open": an
\* action with an automatic check leaves the page only once the release it waits
\* for has happened, whatever is declared, whichever documents the page met.
HiddenIsReleased ==
  Open => \A a \in Actions :
    (Expect[a] # "none" /\ ~PagePending(Row(a, ShownList))) => released

\* The counts, computed by the command, are those of the rows the page keeps.
CountsMatchRows ==
  Open => PendingOf(ShownList) = {a \in Actions : PagePending(Row(a, ShownList))}

\* The page compares nothing, and need not: beside a snapshot the workflow
\* collected, or one pushed with its checklist, the checklist it fetches later
\* was computed from a snapshot main held then or later, never from an older one.
ListIsNotOlder ==
  (Open /\ (ShownSnapshot > MaxPushes \/ data[page] = ShownSnapshot)) =>
     \E i \in page .. Tip : main[i].snapshot = ShownList

=============================================================================
