-------------------------- MODULE PublishPipeline ---------------------------
(***************************************************************************)
(* .github/workflows/collect.yml and pages.yml: the daily snapshot on its  *)
(* way to the live site, while people push to main.  GitHub queues the     *)
(* runs of a concurrency group: `collect` keeps one run and one waiting,   *)
(* `pages` cancels the run in progress for a newer one.                    *)
(***************************************************************************)
EXTENDS Naturals, Sequences

CONSTANTS
  MaxPushes,    \* bound: pushes of people
  MaxCollects   \* bound: collects triggered

ASSUME PipelineAssumption == MaxPushes \in Nat /\ MaxCollects \in Nat

VARIABLES
  main,       \* the branch: each commit's snapshot, the one it was collected upon, the dashboard
  pushes, triggers,   \* counters of the bounds
  collect,    \* the running collect, or None
  waiting,    \* commit the waiting collect was triggered on, or 0
  pages,      \* the running pages workflow, or None
  newest,     \* what became of the newest pages run
  site        \* commit the live site shows
vars == <<main, pushes, triggers, collect, waiting, pages, newest, site>>

None == [step |-> "none"]
Tip == Len(main)

\* A snapshot is the number of the push that brought it or of the collect that made it.
Snapshot == 0 .. MaxPushes + MaxCollects
CommitOf(snapshot, prior, web) == [snapshot |-> snapshot, prior |-> prior, web |-> web]

Init ==
  /\ main = <<CommitOf(0, 0, 0)>>
  /\ pushes = 0 /\ triggers = 0
  /\ collect = None /\ waiting = 0 /\ pages = None
  /\ newest = "deployed" /\ site = 1

-----------------------------------------------------------------------------
\* Slip: a run in progress is left to finish and the newer one is dropped.
TriggerIfIdle(sha, deploys) ==
  IF pages # None THEN UNCHANGED <<pages, newest, site>>
  ELSE /\ pages' = [step |-> IF deploys THEN "build" ELSE "skip", sha |-> sha]
       /\ newest' = "running" /\ UNCHANGED site

\* A pages run begins and cancels the one in progress, whether or not its own
\* build will be skipped; a deployment under way may have taken effect.
Trigger(sha, deploys) ==
  /\ pages' = [step |-> IF deploys THEN "build" ELSE "skip", sha |-> sha]
  /\ newest' = "running"
  /\ \/ UNCHANGED site
     \/ pages.step = "deploy" /\ site' = pages.sha

NoTrigger == UNCHANGED <<pages, newest, site>>

\* Somebody pushes: the dashboard or some data, a new snapshot, or code alone.
Push ==
  /\ pushes < MaxPushes /\ pushes' = pushes + 1
  /\ \E what \in {"web", "snapshot", "code"} :
       /\ main' = Append(main,
            CASE what = "snapshot" -> CommitOf(pushes', main[Tip].snapshot, main[Tip].web)
              [] what = "web" -> CommitOf(main[Tip].snapshot, main[Tip].prior, pushes')
              [] OTHER -> main[Tip])
       /\ IF what = "code" THEN NoTrigger ELSE Trigger(Tip + 1, TRUE)
  /\ UNCHANGED <<triggers, collect, waiting>>

\* pages.yml by hand, when nothing runs (over a run it would only restart it).
DispatchPages ==
  /\ pages = None /\ site # Tip
  /\ Trigger(Tip, TRUE)
  /\ UNCHANGED <<main, pushes, triggers, collect, waiting>>

-----------------------------------------------------------------------------
\* Slip: the site is built from the commit the collect ran on.
CompletedOnItsCommit(success, sha) == Trigger(sha, success)

\* workflow_run: a completed collect starts pages on the head of main, and only
\* a successful one builds.
Completed(success, sha) == Trigger(Tip, success)

Running(sha, n) == [step |-> "collect", sha |-> sha, snapshot |-> MaxPushes + n]

\* The schedule, or a person, triggers a collect on the head of main.  One waits
\* behind the running one; a third cancels it, which also completes it.
TriggerCollect ==
  /\ triggers < MaxCollects /\ triggers' = triggers + 1
  /\ IF collect = None /\ waiting = 0
       THEN collect' = Running(Tip, triggers') /\ UNCHANGED waiting /\ NoTrigger
       ELSE /\ waiting' = Tip /\ UNCHANGED collect
            /\ IF waiting = 0 THEN NoTrigger ELSE Completed(FALSE, waiting)
  /\ UNCHANGED <<main, pushes>>

StartWaiting ==
  /\ collect = None /\ waiting # 0
  /\ collect' = Running(waiting, triggers) /\ waiting' = 0
  /\ UNCHANGED <<main, pushes, triggers>> /\ NoTrigger

End(success) == collect' = None /\ Completed(success, collect.sha)

\* The snapshot is collected upon the one of the commit checked out, and committed.
Collected ==
  /\ collect.step = "collect"
  /\ collect' = [step |-> "rebase", sha |-> collect.sha, snapshot |-> collect.snapshot]
  /\ UNCHANGED <<main, pushes, triggers, waiting>> /\ NoTrigger

\* Slip: a conflict is resolved in favour of the new snapshot.
RebaseTheirs ==
  /\ collect.step = "rebase"
  /\ collect' = [step |-> "push", sha |-> collect.sha, snapshot |-> collect.snapshot, onto |-> Tip]
  /\ NoTrigger
  /\ UNCHANGED <<main, pushes, triggers, waiting>>

\* git pull --rebase: it stops on a conflict, and two snapshots always conflict.
Rebase ==
  /\ collect.step = "rebase"
  /\ IF main[Tip].snapshot = main[collect.sha].snapshot
       THEN /\ collect' = [step |-> "push", sha |-> collect.sha,
                           snapshot |-> collect.snapshot, onto |-> Tip]
            /\ NoTrigger
       ELSE End(FALSE)
  /\ UNCHANGED <<main, pushes, triggers, waiting>>

\* git push: rejected when main has moved since the pull.  The push of a workflow
\* starts no other.
PushSnapshot ==
  /\ collect.step = "push"
  /\ IF Tip = collect.onto
       THEN /\ main' = Append(main, CommitOf(collect.snapshot, main[collect.sha].snapshot, main[Tip].web))
            /\ collect' = [step |-> "done", sha |-> collect.sha]
            /\ NoTrigger
       ELSE End(FALSE) /\ UNCHANGED main
  /\ UNCHANGED <<pushes, triggers, waiting>>

\* The run reports success; or a step failed, or twenty minutes were over, at any
\* point, the last one included.
FinishCollect ==
  /\ collect.step = "done" /\ End(TRUE)
  /\ UNCHANGED <<main, pushes, triggers, waiting>>

FailCollect ==
  /\ collect # None /\ End(FALSE)
  /\ UNCHANGED <<main, pushes, triggers, waiting>>

-----------------------------------------------------------------------------
\* The site is assembled from the commit of the event.
Build ==
  /\ pages.step = "build" /\ pages' = [step |-> "deploy", sha |-> pages.sha]
  /\ UNCHANGED <<main, pushes, triggers, collect, waiting, newest, site>>

Deploy ==
  /\ pages.step = "deploy" /\ pages' = None
  /\ site' = pages.sha /\ newest' = "deployed"
  /\ UNCHANGED <<main, pushes, triggers, collect, waiting>>

Skip ==
  /\ pages.step = "skip" /\ pages' = None /\ newest' = "skipped"
  /\ UNCHANGED <<main, pushes, triggers, collect, waiting, site>>

FailPages ==
  /\ pages.step \in {"build", "deploy"} /\ pages' = None /\ newest' = "failed"
  /\ UNCHANGED <<main, pushes, triggers, collect, waiting, site>>

Pipeline ==
  \/ StartWaiting \/ Collected \/ Rebase \/ PushSnapshot \/ FinishCollect
  \/ Build \/ Deploy \/ Skip

Next == Push \/ DispatchPages \/ TriggerCollect \/ FailCollect \/ FailPages \/ Pipeline

\* GitHub runs what it has queued; nobody has to push, trigger or fail.
Fairness ==
  /\ WF_vars(StartWaiting \/ Collected \/ Rebase \/ PushSnapshot \/ FinishCollect)
  /\ WF_vars(Build \/ Deploy \/ Skip)

Spec == Init /\ [][Next]_vars
FairSpec == Spec /\ Fairness

-----------------------------------------------------------------------------
Commit == 1 .. MaxPushes + MaxCollects + 1

\* Types of every variable.
TypeOK ==
  /\ main \in Seq([snapshot : Snapshot, prior : Snapshot, web : 0 .. MaxPushes]) /\ Tip \in Commit
  /\ pushes \in 0 .. MaxPushes /\ triggers \in 0 .. MaxCollects
  /\ collect.step \in {"none", "collect", "rebase", "push", "done"}
  /\ collect # None => collect.sha \in Commit
  /\ waiting \in Commit \cup {0}
  /\ pages.step \in {"none", "build", "deploy", "skip"} /\ pages # None => pages.sha \in Commit
  /\ newest \in {"running", "deployed", "skipped", "failed"} /\ site \in Commit

\* However collects and people interleave, a snapshot on main was collected upon
\* the one it replaces: the history it carries forward is never forked.
SnapshotsAreChained ==
  \A i \in 2 .. Tip : main[i].snapshot # main[i - 1].snapshot =>
                         main[i].prior = main[i - 1].snapshot

\* The live site never goes back to an older commit.
SiteNeverGoesBack == [][site' >= site]_vars

\* What a visitor sees of a commit.
Shown(c) == <<main[c].snapshot, main[c].web>>

\* A site that the newest pages run deployed shows what main holds, unless a collect
\* has pushed and not yet completed, which will start a run of its own.
DeployedIsCurrent ==
  (newest = "deployed" /\ collect.step # "done") => Shown(site) = Shown(Tip)

\* Unless the newest pages run was skipped or failed, the site ends up showing the
\* dashboard and snapshot of main, however many runs cancelled one another.
SiteCatchesUp ==
  <>[](newest \in {"running", "deployed"}) => <>[](Shown(site) = Shown(Tip))

\* "a failed collect commits nothing - redeploying would be a no-op at best": a
\* pages run that was skipped leaves a site that shows what main holds.
SkipIsNoOp == newest = "skipped" => Shown(site) = Shown(Tip)

=============================================================================
