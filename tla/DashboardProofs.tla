-------------------------- MODULE DashboardProofs ----------------------------
(***************************************************************************)
(* For any number of pushes, collects and actions.  First the pipeline     *)
(* alone: the snapshots on main are chained and the live site never goes   *)
(* back.  Then what it carries: it guarantees the same with two documents  *)
(* and open pages, and the page hides no action whose release has not      *)
(* happened.                                                               *)
(***************************************************************************)
EXTENDS Dashboard, SequenceTheorems, TLAPS

(* The pipeline. *)

CommitRecord == [snapshot : Nat, prior : Nat, web : Nat]

\* main is a history of commits.
MainInv == main \in Seq(CommitRecord) /\ Tip >= 1

CountersInv == pushes \in Nat /\ triggers \in Nat /\ waiting \in 0 .. Tip

\* A collect works on a commit of main.  Once rebased, the commit it will be
\* pushed onto still holds the snapshot it was collected upon.
CollectInv ==
  \/ collect = None
  \/ collect \in [step : {"collect", "rebase"}, sha : 1 .. Tip, snapshot : Nat]
  \/ /\ collect \in [step : {"push"}, sha : 1 .. Tip, snapshot : Nat, onto : 1 .. Tip]
     /\ main[collect.onto].snapshot = main[collect.sha].snapshot
  \/ collect \in [step : {"done"}, sha : 1 .. Tip]

\* The run in progress builds a commit that the site has not passed.
SiteInv ==
  /\ site \in 1 .. Tip
  /\ pages = None \/ pages \in [step : {"build", "deploy", "skip"}, sha : site .. Tip]

Inv == MainInv /\ CountersInv /\ CollectInv /\ SiteInv /\ SnapshotsAreChained

-----------------------------------------------------------------------------
\* A commit that keeps the snapshot, or was collected upon it, may be appended.
LEMMA Appended ==
  ASSUME MainInv, SnapshotsAreChained, NEW c \in CommitRecord, main' = Append(main, c),
         c.snapshot # main[Tip].snapshot => c.prior = main[Tip].snapshot
  PROVE  /\ MainInv' /\ SnapshotsAreChained'
         /\ Tip' = Tip + 1
         /\ \A i \in 1 .. Tip : main'[i] = main[i]
<1>1. /\ MainInv' /\ Tip' = Tip + 1
      /\ \A i \in 1 .. Tip : main'[i] = main[i]
      /\ main'[Tip + 1] = c
  BY DEF MainInv, Tip
<1>2. ASSUME NEW i \in 2 .. Tip + 1, main'[i].snapshot # main'[i - 1].snapshot
      PROVE  main'[i].prior = main'[i - 1].snapshot
  <2>0. Tip \in Nat /\ Tip >= 1
    BY DEF MainInv, Tip
  <2>1. CASE i = Tip + 1
    <3>1. main'[i] = c
      BY <1>1, <2>1
    <3>2. i - 1 = Tip /\ Tip \in 1 .. Tip
      BY <2>0, <2>1
    <3>3. main'[i - 1] = main[Tip]
      BY <1>1, <3>2
    <3>4. QED
      BY <1>2, <3>1, <3>3
  <2>2. CASE i # Tip + 1
    <3>1. i \in 2 .. Tip /\ i \in 1 .. Tip /\ i - 1 \in 1 .. Tip
      BY <2>0, <2>2
    <3>2. main'[i] = main[i] /\ main'[i - 1] = main[i - 1]
      BY <1>1, <3>1
    <3>3. QED
      BY <1>2, <3>1, <3>2 DEF SnapshotsAreChained
  <2>3. QED
    BY <2>1, <2>2
<1>3. SnapshotsAreChained'
  BY <1>1, <1>2 DEF SnapshotsAreChained
<1>4. QED
  BY <1>1, <1>3

\* While main only grows, what the collect and the waiting run refer to stays.
LEMMA Grows ==
  ASSUME MainInv, Tip' \in Nat, Tip' >= Tip, \A i \in 1 .. Tip : main'[i] = main[i]
  PROVE  /\ CollectInv /\ UNCHANGED collect => CollectInv'
         /\ waiting \in 0 .. Tip /\ UNCHANGED waiting => waiting' \in 0 .. Tip'
<1>0. Tip \in Nat /\ 1 .. Tip \subseteq 1 .. Tip'
  BY DEF MainInv, Tip
<1>1. ASSUME CollectInv, UNCHANGED collect PROVE CollectInv'
  <2>1. CASE collect = None
    BY <1>1, <2>1 DEF CollectInv, None
  <2>2. CASE collect \in [step : {"collect", "rebase"}, sha : 1 .. Tip, snapshot : Nat]
    BY <1>0, <1>1, <2>2 DEF CollectInv
  <2>3. CASE /\ collect \in [step : {"push"}, sha : 1 .. Tip, snapshot : Nat, onto : 1 .. Tip]
             /\ main[collect.onto].snapshot = main[collect.sha].snapshot
    <3>1. collect'.sha \in 1 .. Tip /\ collect'.onto \in 1 .. Tip
      BY <1>1, <2>3
    <3>2. main'[collect'.onto].snapshot = main'[collect'.sha].snapshot
      BY <1>1, <2>3, <3>1
    <3>3. collect' \in [step : {"push"}, sha : 1 .. Tip', snapshot : Nat, onto : 1 .. Tip']
      BY <1>0, <1>1, <2>3
    <3>4. QED
      BY <3>2, <3>3 DEF CollectInv
  <2>4. CASE collect \in [step : {"done"}, sha : 1 .. Tip]
    BY <1>0, <1>1, <2>4 DEF CollectInv
  <2>5. QED
    BY <1>1, <2>1, <2>2, <2>3, <2>4 DEF CollectInv
<1>2. QED
  BY <1>0, <1>1

\* What a step may do to the site: nothing, or start a run on the new tip.
Moves ==
  \/ NoTrigger
  \/ /\ pages' \in [step : {"build", "skip"}, sha : {Tip'}]
     /\ site' = site \/ (pages.step = "deploy" /\ site' = pages.sha)

\* Either keeps the site behind the run in progress.
LEMMA Triggered ==
  ASSUME SiteInv, Tip \in Nat, Tip' \in Nat, Tip' >= Tip, Moves
  PROVE  SiteInv' /\ site' >= site
<1>1. CASE NoTrigger
  <2>1. site' = site /\ pages' = pages /\ site \in 1 .. Tip'
    BY <1>1 DEF NoTrigger, SiteInv
  <2>2. pages = None \/ pages \in [step : {"build", "deploy", "skip"}, sha : site .. Tip']
    BY DEF SiteInv
  <2>3. QED
    BY <2>1, <2>2 DEF SiteInv, None
<1>2. CASE ~NoTrigger
  <2>1. site' \in site .. Tip
    BY <1>2 DEF Moves, SiteInv, None
  <2>2. pages' \in [step : {"build", "skip"}, sha : {Tip'}]
    BY <1>2 DEF Moves
  <2>3. pages' \in [step : {"build", "deploy", "skip"}, sha : site' .. Tip'] /\ site' \in 1 .. Tip'
    BY <2>1, <2>2 DEF SiteInv
  <2>4. QED
    BY <2>1, <2>3 DEF SiteInv
<1>3. QED
  BY <1>1, <1>2

\* The end of a collect starts a run on the tip.
LEMMA Ended ==
  ASSUME SiteInv, Tip \in Nat, Tip' = Tip, NEW success \in BOOLEAN, End(success)
  PROVE  SiteInv' /\ site' >= site
<1>1. Moves
  BY DEF End, Completed, Trigger, Moves
<1>2. QED
  BY <1>1, Triggered

\* Initially.
LEMMA InitInv == Init => Inv
<1> SUFFICES ASSUME Init PROVE Inv
  OBVIOUS
<1>1. MainInv /\ Tip = 1
  BY DEF Init, MainInv, Tip, CommitOf, CommitRecord
<1>2. QED
  BY <1>1 DEF Init, Inv, CountersInv, CollectInv, SiteInv, SnapshotsAreChained

\* Every step keeps the invariant and never takes the site back.
LEMMA NextInv == Inv /\ [Next]_vars => Inv' /\ site' >= site
<1> SUFFICES ASSUME Inv, [Next]_vars PROVE Inv' /\ site' >= site
  OBVIOUS
<1>0. /\ MainInv /\ SiteInv /\ CollectInv /\ CountersInv /\ SnapshotsAreChained
      /\ Tip \in Nat /\ Tip >= 1 /\ site \in Nat
  BY DEF Inv, MainInv, SiteInv, Tip
<1>k. ASSUME UNCHANGED main
      PROVE  MainInv' /\ SnapshotsAreChained' /\ Tip' = Tip /\ \A i \in 1 .. Tip : main'[i] = main[i]
  BY <1>0, <1>k DEF MainInv, SnapshotsAreChained, Tip
<1>1. CASE Push
  <2> PICK what \in {"web", "snapshot", "code"} :
       /\ main' = Append(main,
            CASE what = "snapshot" -> CommitOf(pushes', main[Tip].snapshot, main[Tip].web)
              [] what = "web" -> CommitOf(main[Tip].snapshot, main[Tip].prior, pushes')
              [] OTHER -> main[Tip])
       /\ IF what = "code" THEN NoTrigger ELSE Trigger(Tip + 1, TRUE)
    BY <1>1 DEF Push
  <2> DEFINE c == CASE what = "snapshot" -> CommitOf(pushes', main[Tip].snapshot, main[Tip].web)
                    [] what = "web" -> CommitOf(main[Tip].snapshot, main[Tip].prior, pushes')
                    [] OTHER -> main[Tip]
  <2>1. main[Tip] \in CommitRecord /\ pushes' \in Nat
    BY <1>0, <1>1 DEF Push, MainInv, CountersInv, Tip
  <2>2. c \in CommitRecord /\ (c.snapshot # main[Tip].snapshot => c.prior = main[Tip].snapshot)
    BY <2>1 DEF CommitOf, CommitRecord
  <2>3. main' = Append(main, c)
    OBVIOUS
  <2> HIDE DEF c
  <2>4. /\ MainInv' /\ SnapshotsAreChained' /\ Tip' = Tip + 1
        /\ \A i \in 1 .. Tip : main'[i] = main[i]
    BY <1>0, <2>2, <2>3, Appended
  <2>5. Moves
    BY <2>4 DEF Moves, Trigger
  <2>6. SiteInv' /\ site' >= site
    BY <1>0, <2>4, <2>5, Triggered
  <2>7. CollectInv' /\ CountersInv'
    <3>1. UNCHANGED <<triggers, collect, waiting>>
      BY <1>1 DEF Push
    <3>2. triggers \in Nat /\ waiting \in 0 .. Tip
      BY <1>0 DEF CountersInv
    <3>3. Tip' \in Nat /\ Tip' >= Tip
      BY <1>0, <2>4
    <3>4. CollectInv' /\ waiting' \in 0 .. Tip'
      BY <1>0, <2>4, <3>1, <3>2, <3>3, Grows
    <3>5. QED
      BY <2>1, <3>1, <3>2, <3>4 DEF CountersInv
  <2>8. QED
    BY <2>4, <2>6, <2>7 DEF Inv
<1>2. CASE PushSnapshot
  <2>0. CollectInv /\ collect.step = "push"
    BY <1>0, <1>2 DEF PushSnapshot
  <2>1. /\ collect \in [step : {"push"}, sha : 1 .. Tip, snapshot : Nat, onto : 1 .. Tip]
        /\ main[collect.onto].snapshot = main[collect.sha].snapshot
    BY <2>0 DEF CollectInv, None
  <2>2. CASE Tip = collect.onto
    <3> DEFINE c == CommitOf(collect.snapshot, main[collect.sha].snapshot, main[Tip].web)
    <3>1. main[Tip] \in CommitRecord /\ main[collect.sha] \in CommitRecord
      BY <1>0, <2>1 DEF MainInv, Tip
    <3>2. c \in CommitRecord /\ c.prior = main[Tip].snapshot
      BY <2>1, <2>2, <3>1 DEF CommitOf, CommitRecord
    <3>3. main' = Append(main, c) /\ collect' = [step |-> "done", sha |-> collect.sha] /\ NoTrigger
      BY <1>2, <2>2 DEF PushSnapshot
    <3> HIDE DEF c
    <3>4. /\ MainInv' /\ SnapshotsAreChained' /\ Tip' = Tip + 1
          /\ \A i \in 1 .. Tip : main'[i] = main[i]
      BY <1>0, <3>2, <3>3, Appended
    <3>5. SiteInv' /\ site' >= site
      BY <1>0, <3>3, <3>4, Triggered DEF Moves
    <3>6. collect' \in [step : {"done"}, sha : 1 .. Tip']
      BY <1>0, <2>1, <3>3, <3>4
    <3>7. CountersInv'
      BY <1>0, <1>2, <3>4 DEF PushSnapshot, CountersInv
    <3>8. QED
      BY <3>4, <3>5, <3>6, <3>7 DEF Inv, CollectInv
  <2>3. CASE Tip # collect.onto
    <3>1. End(FALSE) /\ UNCHANGED <<main, pushes, triggers, waiting>>
      BY <1>2, <2>3 DEF PushSnapshot
    <3>2. MainInv' /\ SnapshotsAreChained' /\ Tip' = Tip
      BY <1>k, <3>1
    <3>3. SiteInv' /\ site' >= site
      BY <1>0, <3>1, <3>2, Ended
    <3>4. CountersInv' /\ collect' = None
      BY <1>0, <3>1, <3>2 DEF End, CountersInv
    <3>5. QED
      BY <3>2, <3>3, <3>4 DEF Inv, CollectInv
  <2>4. QED
    BY <2>2, <2>3
<1>3. CASE Rebase
  <2>1. UNCHANGED <<main, pushes, triggers, waiting>>
    BY <1>3 DEF Rebase
  <2>2. MainInv' /\ SnapshotsAreChained' /\ Tip' = Tip /\ CountersInv'
    BY <1>0, <1>k, <2>1 DEF CountersInv
  <2>3. CASE main[Tip].snapshot = main[collect.sha].snapshot
    <3>1. /\ collect' = [step |-> "push", sha |-> collect.sha, snapshot |-> collect.snapshot, onto |-> Tip]
          /\ NoTrigger /\ collect.step = "rebase"
      BY <1>3, <2>3 DEF Rebase
    <3>2. collect \in [step : {"collect", "rebase"}, sha : 1 .. Tip, snapshot : Nat]
      BY <1>0, <3>1 DEF CollectInv, None
    <3>3. collect' \in [step : {"push"}, sha : 1 .. Tip', snapshot : Nat, onto : 1 .. Tip']
      BY <1>0, <2>2, <3>1, <3>2
    <3>4. main'[collect'.onto].snapshot = main'[collect'.sha].snapshot
      BY <2>1, <2>3, <3>1
    <3>5. SiteInv' /\ site' >= site
      BY <1>0, <2>2, <3>1, Triggered DEF Moves
    <3>6. QED
      BY <2>2, <3>3, <3>4, <3>5 DEF Inv, CollectInv
  <2>4. CASE main[Tip].snapshot # main[collect.sha].snapshot
    <3>1. End(FALSE)
      BY <1>3, <2>4 DEF Rebase
    <3>2. SiteInv' /\ site' >= site
      BY <1>0, <2>2, <3>1, Ended
    <3>3. QED
      BY <2>2, <3>1, <3>2 DEF End, Inv, CollectInv
  <2>5. QED
    BY <2>3, <2>4
<1>4. CASE TriggerCollect
  <2>1. MainInv' /\ SnapshotsAreChained' /\ Tip' = Tip /\ UNCHANGED main
    BY <1>k, <1>4 DEF TriggerCollect
  <2>2. Moves
    BY <1>4, <2>1 DEF TriggerCollect, Completed, Trigger, Moves
  <2>3. SiteInv' /\ site' >= site
    BY <1>0, <2>1, <2>2, Triggered
  <2>4. triggers' \in Nat /\ pushes' \in Nat /\ waiting' \in 0 .. Tip'
    <3>1. triggers' = triggers + 1 /\ pushes' = pushes
      BY <1>4 DEF TriggerCollect
    <3>2. waiting' = waiting \/ waiting' = Tip
      BY <1>4 DEF TriggerCollect
    <3>3. triggers \in Nat /\ pushes \in Nat /\ waiting \in 0 .. Tip
      BY <1>0 DEF CountersInv
    <3>4. QED
      BY <1>0, <2>1, <3>1, <3>2, <3>3
  <2>4a. CountersInv'
    BY <2>4 DEF CountersInv
  <2>5. CASE UNCHANGED collect
    BY <1>0, <2>1, <2>3, <2>4a, <2>5, Grows DEF Inv
  <2>6. CASE collect' = Running(Tip, triggers')
    <3>0. MaxPushes \in Nat
      BY PipelineAssumption
    <3>t. triggers' \in Nat
      BY <2>4
    <3>s. \A a, b \in Nat : a + b \in Nat
      OBVIOUS
    <3>1. MaxPushes + triggers' \in Nat
      BY <3>0, <3>t, <3>s
    <3>2. collect' \in [step : {"collect", "rebase"}, sha : 1 .. Tip', snapshot : Nat]
      BY <1>0, <2>1, <2>6, <3>1 DEF Running
    <3>3. QED
      BY <2>1, <2>3, <2>4a, <3>2 DEF Inv, CollectInv
  <2>7. QED
    BY <1>4, <2>5, <2>6 DEF TriggerCollect
<1>5. CASE StartWaiting
  <2>1. MainInv' /\ SnapshotsAreChained' /\ Tip' = Tip /\ NoTrigger /\ UNCHANGED <<pushes, triggers>>
    BY <1>k, <1>5 DEF StartWaiting
  <2>2. waiting \in 1 .. Tip /\ waiting' = 0 /\ collect' = Running(waiting, triggers)
    BY <1>0, <1>5 DEF StartWaiting, CountersInv
  <2>3. MaxPushes + triggers \in Nat
    BY <1>0, PipelineAssumption DEF PipelineAssumption, CountersInv
  <2>4. collect' \in [step : {"collect", "rebase"}, sha : 1 .. Tip', snapshot : Nat]
    BY <2>1, <2>2, <2>3 DEF Running
  <2>5. SiteInv' /\ site' >= site
    BY <1>0, <2>1, Triggered DEF Moves
  <2>6. CountersInv'
    BY <1>0, <2>1, <2>2 DEF CountersInv
  <2>7. QED
    BY <2>1, <2>4, <2>5, <2>6 DEF Inv, CollectInv
<1>6. CASE Collected
  <2>1. /\ MainInv' /\ SnapshotsAreChained' /\ Tip' = Tip /\ NoTrigger
        /\ UNCHANGED <<pushes, triggers, waiting>> /\ collect.step = "collect"
        /\ collect' = [step |-> "rebase", sha |-> collect.sha, snapshot |-> collect.snapshot]
    BY <1>k, <1>6 DEF Collected
  <2>2. collect \in [step : {"collect", "rebase"}, sha : 1 .. Tip, snapshot : Nat]
    BY <1>0, <2>1 DEF CollectInv, None
  <2>3. collect' \in [step : {"collect", "rebase"}, sha : 1 .. Tip', snapshot : Nat]
    BY <2>1, <2>2
  <2>4. SiteInv' /\ site' >= site
    BY <1>0, <2>1, Triggered DEF Moves
  <2>5. CountersInv'
    BY <1>0, <2>1 DEF CountersInv
  <2>6. QED
    BY <2>1, <2>3, <2>4, <2>5 DEF Inv, CollectInv
<1>7. CASE FinishCollect \/ FailCollect
  <2>1. PICK b \in BOOLEAN : End(b) /\ UNCHANGED <<main, pushes, triggers, waiting>>
    BY <1>7 DEF FinishCollect, FailCollect
  <2>2. MainInv' /\ SnapshotsAreChained' /\ Tip' = Tip
    BY <1>k, <2>1
  <2>3. SiteInv' /\ site' >= site
    BY <1>0, <2>1, <2>2, Ended
  <2>4. collect' = None /\ CountersInv'
    BY <1>0, <2>1, <2>2 DEF End, CountersInv
  <2>5. QED
    BY <2>2, <2>3, <2>4 DEF Inv, CollectInv
<1>8. CASE DispatchPages
  <2>1. /\ MainInv' /\ SnapshotsAreChained' /\ Tip' = Tip /\ Moves
        /\ UNCHANGED <<main, pushes, triggers, collect, waiting>>
    BY <1>k, <1>8 DEF DispatchPages, Moves, Trigger
  <2>2. SiteInv' /\ site' >= site
    BY <1>0, <2>1, Triggered DEF Moves
  <2>3. QED
    BY <1>0, <1>k, <2>1, <2>2, Grows DEF Inv, CountersInv
<1>9. CASE Build \/ Deploy \/ Skip \/ FailPages
  <2>1. /\ MainInv' /\ SnapshotsAreChained' /\ Tip' = Tip
        /\ UNCHANGED <<main, pushes, triggers, collect, waiting>>
    BY <1>k, <1>9 DEF Build, Deploy, Skip, FailPages
  <2>2. pages \in [step : {"build", "deploy", "skip"}, sha : site .. Tip]
    BY <1>0, <1>9 DEF SiteInv, None, Build, Deploy, Skip, FailPages
  <2>3. CASE Build
    BY <1>0, <2>1, <2>2, <2>3 DEF Build, SiteInv, Inv, CountersInv, CollectInv
  <2>4. CASE Deploy
    BY <1>0, <2>1, <2>2, <2>4 DEF Deploy, SiteInv, Inv, CountersInv, CollectInv
  <2>5. CASE Skip \/ FailPages
    BY <1>0, <2>1, <2>2, <2>5 DEF Skip, FailPages, SiteInv, Inv, CountersInv, CollectInv
  <2>6. QED
    BY <1>9, <2>3, <2>4, <2>5
<1>10. CASE UNCHANGED vars
  BY <1>0, <1>10 DEF vars, Inv, MainInv, SiteInv, CollectInv, CountersInv, SnapshotsAreChained, Tip
<1>11. QED
  BY <1>1, <1>2, <1>3, <1>4, <1>5, <1>6, <1>7, <1>8, <1>9, <1>10 DEF Next, Pipeline

-----------------------------------------------------------------------------
\* Whatever interleaves, every snapshot on main carries forward the one it replaces.
THEOREM ChainedSnapshots == Spec => []SnapshotsAreChained
<1>1. Inv => SnapshotsAreChained
  BY DEF Inv
<1>2. QED
  BY <1>1, InitInv, NextInv, PTL DEF Spec

\* Whatever runs are cancelled, the site never shows an older commit again.
THEOREM SiteOnlyAdvances == Spec => SiteNeverGoesBack
<1>1. Inv /\ [Next]_vars => [site' >= site]_vars
  BY NextInv
<1>2. QED
  BY <1>1, InitInv, NextInv, PTL DEF Spec, SiteNeverGoesBack

\* Only the newest pages run is running, and unless a collect is between its push
\* and its completion it deploys what main holds.
CurrentInv ==
  /\ pages # None => newest = "running"
  /\ collect.step # "done" =>
       /\ pages.step \in {"build", "deploy"} => Shown(pages.sha) = Shown(Tip)
       /\ newest = "deployed" => Shown(site) = Shown(Tip)

\* What the start of a pages run does, whoever starts it.
LEMMA TriggerIs ==
  ASSUME NEW sha, NEW deploys \in BOOLEAN, Trigger(sha, deploys)
  PROVE  /\ newest' = "running" /\ pages'.sha = sha
         /\ pages'.step = IF deploys THEN "build" ELSE "skip"
  BY DEF Trigger

\* A run that starts on the head of main, or that will deploy nothing.
LEMMA TriggerStep ==
  ASSUME NEW sha, NEW deploys \in BOOLEAN, Trigger(sha, deploys),
         deploys => Shown(sha)' = Shown(Tip)'
  PROVE  CurrentInv'
<1>1. /\ newest' = "running" /\ pages'.sha = sha
      /\ pages'.step = IF deploys THEN "build" ELSE "skip"
  BY TriggerIs
<1> QED BY <1>1 DEF CurrentInv, Shown

\* A step that leaves the pages alone, and what main shows.
LEMMA NoTriggerStep ==
  ASSUME CurrentInv, NoTrigger, collect.step = "done" => collect'.step = "done",
         collect'.step # "done" =>
           /\ Shown(Tip)' = Shown(Tip) /\ main'[site] = main[site]
           /\ pages # None => main'[pages.sha] = main[pages.sha]
  PROVE  CurrentInv'
<1>1. CASE collect'.step = "done"
  BY <1>1 DEF CurrentInv, NoTrigger
<1>2. CASE collect'.step # "done"
  <2>1. Shown(site)' = Shown(site) /\ (pages # None => Shown(pages.sha)' = Shown(pages.sha))
    BY <1>2 DEF Shown, NoTrigger
  <2>2. pages = None => pages.step = "none"
    BY DEF None
  <2> QED BY <1>2, <2>1, <2>2 DEF CurrentInv, NoTrigger
<1> QED BY <1>1, <1>2

\* A step of the collect job that commits nothing.
LEMMA EndStep ==
  ASSUME NEW success \in BOOLEAN, End(success), UNCHANGED main
  PROVE  CurrentInv'
<1>1. Trigger(Tip, success)
  BY DEF End, Completed
<1>2. Shown(Tip)' = Shown(Tip')
  BY DEF Shown
<1>3. Tip' = Tip
  BY DEF Tip
<1> QED BY <1>1, <1>2, <1>3, TriggerStep

LEMMA CurrentStep ==
  ASSUME Inv, CurrentInv, [Next]_vars
  PROVE  CurrentInv'
<1>0. /\ main \in Seq(CommitRecord) /\ Tip \in Nat /\ Tip \in 1 .. Tip /\ site \in 1 .. Tip
      /\ pages # None => pages.sha \in 1 .. Tip
      /\ Tip = Len(main)
  BY DEF Inv, MainInv, SiteInv, Tip
<1>1. ASSUME NEW r, main' = Append(main, r)
      PROVE  /\ Tip' = Tip + 1 /\ main'[Tip + 1] = r
             /\ \A i \in 1 .. Tip : main'[i] = main[i]
  BY <1>0, <1>1 DEF Tip
<1>2. ASSUME UNCHANGED main
      PROVE  Tip' = Tip /\ Shown(Tip)' = Shown(Tip) /\ \A i \in 1 .. Tip : main'[i] = main[i]
  BY <1>2 DEF Tip, Shown
<1>3. CASE Push
  <2>1. CASE Trigger(Tip + 1, TRUE)
    <3>1. Tip' = Tip + 1
      BY <1>1, <1>3 DEF Push
    <3> QED BY <2>1, <3>1, TriggerStep DEF Shown
  <2>2. CASE ~Trigger(Tip + 1, TRUE)
    <3>1. NoTrigger /\ collect' = collect /\ main' = Append(main, main[Tip])
      BY <1>3, <2>2 DEF Push
    <3>2. Tip' = Tip + 1 /\ main'[Tip + 1] = main[Tip] /\ \A i \in 1 .. Tip : main'[i] = main[i]
      BY <1>1, <3>1
    <3>3. Shown(Tip)' = Shown(Tip)
      BY <3>2 DEF Shown
    <3> QED BY <1>0, <3>1, <3>2, <3>3, NoTriggerStep
  <2> QED BY <2>1, <2>2
<1>4. CASE DispatchPages
  BY <1>2, <1>4, TriggerStep DEF DispatchPages, Shown
<1>5. CASE TriggerCollect
  <2>1. Tip' = Tip /\ Shown(Tip)' = Shown(Tip) /\ \A i \in 1 .. Tip : main'[i] = main[i]
    BY <1>2, <1>5 DEF TriggerCollect
  <2>2. CASE NoTrigger
    <3>1. collect' = collect \/ (collect = None /\ collect' = Running(Tip, triggers'))
      BY <1>5 DEF TriggerCollect
    <3>2. collect.step = "done" => collect'.step = "done"
      BY <3>1 DEF None, Running
    <3> QED BY <1>0, <2>1, <2>2, <3>2, NoTriggerStep
  <2>3. CASE Completed(FALSE, waiting)
    BY <2>3, TriggerStep DEF Completed
  <2> QED BY <1>5, <2>2, <2>3 DEF TriggerCollect
<1>6. CASE StartWaiting \/ Collected
  <2>1. NoTrigger /\ UNCHANGED main /\ collect.step # "done"
    BY <1>6 DEF StartWaiting, Collected, None
  <2> QED BY <1>0, <1>2, <2>1, NoTriggerStep
<1>7. CASE Rebase
  <2>1. CASE NoTrigger
    <3>1. UNCHANGED main /\ collect.step # "done"
      BY <1>7 DEF Rebase
    <3> QED BY <1>0, <1>2, <2>1, <3>1, NoTriggerStep
  <2>2. CASE End(FALSE)
    BY <1>7, <2>2, EndStep DEF Rebase
  <2> QED BY <1>7, <2>1, <2>2 DEF Rebase
<1>8. CASE PushSnapshot
  <2>1. CASE collect' = [step |-> "done", sha |-> collect.sha] /\ NoTrigger
    BY <2>1, NoTriggerStep
  <2>2. CASE End(FALSE) /\ UNCHANGED main
    BY <2>2, EndStep
  <2> QED BY <1>8, <2>1, <2>2 DEF PushSnapshot
<1>9. CASE FinishCollect \/ FailCollect
  BY <1>9, EndStep DEF FinishCollect, FailCollect
<1>10. CASE Build
  <2>1. UNCHANGED <<main, collect, newest, site>> /\ pages.step = "build" /\ pages # None
        /\ pages'.sha = pages.sha
    BY <1>10 DEF Build, None
  <2>2. Shown(pages.sha)' = Shown(pages.sha) /\ Shown(Tip)' = Shown(Tip) /\ Shown(site)' = Shown(site)
    BY <2>1 DEF Shown, Tip
  <2> QED BY <2>1, <2>2 DEF CurrentInv
<1>11. CASE Deploy
  <2>1. UNCHANGED <<main, collect>> /\ pages.step = "deploy" /\ pages' = None
        /\ newest' = "deployed" /\ site' = pages.sha
    BY <1>11 DEF Deploy
  <2>2. Shown(site)' = Shown(pages.sha) /\ Shown(Tip)' = Shown(Tip) /\ pages'.step = "none"
    BY <2>1 DEF Shown, Tip, None
  <2> QED BY <2>1, <2>2 DEF CurrentInv
<1>12. CASE Skip \/ FailPages
  <2>1. pages' = None /\ newest' \in {"skipped", "failed"} /\ pages'.step = "none"
    BY <1>12 DEF Skip, FailPages, None
  <2> QED BY <2>1 DEF CurrentInv
<1>13. CASE UNCHANGED vars
  BY <1>13 DEF vars, CurrentInv, Shown, Tip
<1> QED BY <1>3, <1>4, <1>5, <1>6, <1>7, <1>8, <1>9, <1>10, <1>11, <1>12, <1>13 DEF Next, Pipeline

\* However many runs of collect and pages cancelled one another, a site whose newest
\* pages run deployed shows the dashboard and the snapshot of main, except between a
\* collect's push and its completion.
THEOREM DeployedShowsMain == Spec => []DeployedIsCurrent
<1>1. Init => CurrentInv
  BY DEF Init, CurrentInv, None, Tip
<1>2. CurrentInv => DeployedIsCurrent
  BY DEF CurrentInv, DeployedIsCurrent
<1>3. Inv /\ CurrentInv /\ [Next]_vars => Inv' /\ CurrentInv'
  BY NextInv, CurrentStep
<1> QED BY <1>1, <1>2, <1>3, InitInv, PTL DEF Spec

-----------------------------------------------------------------------------
(* The documents and the pages. *)

\* A running collect has the number of a trigger.
NumbersInv ==
  /\ pushes \in 0 .. MaxPushes /\ triggers \in 0 .. MaxCollects
  /\ collect.step \in {"collect", "rebase", "push"} => collect.snapshot \in Snapshot

\* Every commit holds a checklist computed from a snapshot, or from none.
DataInv == data \in Seq(Snapshot \cup {NoSnapshot}) /\ Len(data) = Tip

\* Only a release makes a snapshot show one.
VerdictInv ==
  /\ verdict \in [Snapshot -> Verdicts] /\ released \in BOOLEAN
  /\ \A n \in Snapshot : verdict[n] # "missing" => released

everything == <<vars, dashboardVars>>

-----------------------------------------------------------------------------
\* Every step of the dashboard is one of the pipeline, or leaves it alone.
LEMMA PipelineStep == [NextDashboard]_everything => [Next]_vars
BY DEF NextDashboard, Release, PushData, CollectData, PushDocuments, LoadSnapshot,
       LoadManualActions, Others, Next, Pipeline, everything

\* The pipeline inside the dashboard is the one PublishPipeline specifies, so
\* that whatever is proved of it holds here: chained snapshots, a site that
\* only advances.
THEOREM PipelineInside == SpecDashboard => Spec
<1>1. InitDashboard => Init
  BY DEF InitDashboard
<1>2. QED
  BY <1>1, PipelineStep, PTL DEF SpecDashboard, Spec, everything

-----------------------------------------------------------------------------
\* A snapshot somebody no longer holds is forgotten, the others are kept.
LEMMA HeldKeeps ==
  ASSUME VerdictInv, verdict' = Held, UNCHANGED released
  PROVE  VerdictInv'
<1>1. verdict' \in [Snapshot -> Verdicts]
  BY DEF VerdictInv, Held, Verdicts
<1>2. ASSUME NEW n \in Snapshot, verdict'[n] # "missing" PROVE released'
  <2>1. verdict'[n] = verdict[n]
    BY <1>2 DEF Held
  <2>2. QED
    BY <1>2, <2>1 DEF VerdictInv
<1>3. QED
  BY <1>1, <1>2 DEF VerdictInv

\* A collect, or a push, records what it may observe.
LEMMA Recorded ==
  ASSUME VerdictInv, UNCHANGED released, NEW s, NEW v \in Observable,
         verdict' = [verdict EXCEPT ![s] = v]
  PROVE  VerdictInv'
<1>1. v \in Verdicts /\ (v # "missing" => released)
  BY DEF Observable, Verdicts, VerdictInv
<1>2. QED
  BY <1>1 DEF VerdictInv

\* Numbers stay those of pushes and triggers.
LEMMA NumbersStep == ASSUME NumbersInv, [Next]_vars PROVE NumbersInv'
<1>0. MaxPushes \in Nat /\ MaxCollects \in Nat
  BY PipelineAssumption
<1>n. \A t \in 0 .. MaxCollects : MaxPushes + t \in Snapshot
  BY <1>0 DEF Snapshot
<1>1. CASE Push
  BY <1>0, <1>1 DEF Push, NumbersInv
<1>2. CASE TriggerCollect
  <2>1. triggers' \in 0 .. MaxCollects /\ UNCHANGED pushes
    BY <1>0, <1>2 DEF TriggerCollect, NumbersInv
  <2>2. CASE UNCHANGED collect
    BY <2>1, <2>2 DEF NumbersInv
  <2>3. CASE collect' = Running(Tip, triggers')
    <3>1. MaxPushes + triggers' \in Snapshot
      BY <1>n, <2>1
    <3>2. collect'.snapshot = MaxPushes + triggers'
      BY <2>3 DEF Running
    <3>3. QED
      BY <2>1, <3>1, <3>2 DEF NumbersInv
  <2>4. QED
    BY <1>2, <2>2, <2>3 DEF TriggerCollect
<1>3. CASE StartWaiting
  <2>1. UNCHANGED <<pushes, triggers>> /\ collect' = Running(waiting, triggers)
    BY <1>3 DEF StartWaiting
  <2>2. MaxPushes + triggers \in Snapshot
    BY <1>n DEF NumbersInv
  <2>3. collect'.snapshot = MaxPushes + triggers
    BY <2>1 DEF Running
  <2>4. QED
    BY <2>1, <2>2, <2>3 DEF NumbersInv
<1>4. CASE Collected \/ Rebase
  <2>1. UNCHANGED <<pushes, triggers>> /\ collect.step \in {"collect", "rebase"}
    BY <1>4 DEF Collected, Rebase
  <2>2. CASE collect' = None
    BY <2>1, <2>2 DEF NumbersInv, None
  <2>3. CASE collect' # None
    <3>1. \/ collect' = [step |-> "rebase", sha |-> collect.sha, snapshot |-> collect.snapshot]
          \/ collect' = [step |-> "push", sha |-> collect.sha,
                         snapshot |-> collect.snapshot, onto |-> Tip]
      BY <1>4, <2>3 DEF Collected, Rebase, End
    <3>2. collect'.snapshot = collect.snapshot
      BY <3>1
    <3>3. QED
      BY <2>1, <3>2 DEF NumbersInv
  <2>4. QED
    BY <2>2, <2>3
<1>5. CASE PushSnapshot \/ FinishCollect \/ FailCollect
  <2>1. UNCHANGED <<pushes, triggers>>
    BY <1>5 DEF PushSnapshot, FinishCollect, FailCollect
  <2>2. collect' = None \/ collect' = [step |-> "done", sha |-> collect.sha]
    <3>1. CASE PushSnapshot
      BY <3>1 DEF PushSnapshot, End
    <3>2. CASE FinishCollect
      BY <3>2 DEF FinishCollect, End
    <3>3. CASE FailCollect
      BY <3>3 DEF FailCollect, End
    <3>4. QED
      BY <1>5, <3>1, <3>2, <3>3
  <2>3. QED
    BY <2>1, <2>2 DEF NumbersInv, None
<1>6. CASE DispatchPages \/ Build \/ Deploy \/ Skip \/ FailPages \/ UNCHANGED vars
  BY <1>6 DEF DispatchPages, Build, Deploy, Skip, FailPages, vars, NumbersInv
<1>7. QED
  BY <1>1, <1>2, <1>3, <1>4, <1>5, <1>6 DEF Next, Pipeline

\* Commits hold pushes, snapshots and dashboards that exist.
CommitsInv ==
  \A i \in 1 .. Tip : main[i] \in [snapshot : Snapshot, prior : Snapshot, web : 0 .. MaxPushes]

\* A push and a trigger bring one commit each: those to come are not on main yet.
Live == collect.step \in {"collect", "rebase", "push"}
RoomInv ==
  /\ Tip <= 1 + pushes + triggers
  /\ Live \/ waiting # 0 => Tip <= pushes + triggers
  /\ Live /\ waiting # 0 => Tip + 1 <= pushes + triggers

NewestInv == newest \in {"running", "deployed", "skipped", "failed"}

\* What a step does to main.
LEMMA CommitsStep ==
  ASSUME Inv, NumbersInv, CommitsInv, [Next]_vars
  PROVE  CommitsInv'
<1>0. /\ main \in Seq(CommitRecord) /\ Tip \in 1 .. Tip /\ Tip \in Nat
      /\ pushes \in 0 .. MaxPushes /\ MaxPushes \in Nat /\ MaxCollects \in Nat
  BY PipelineAssumption DEF Inv, MainInv, NumbersInv, Tip
<1> DEFINE Fine(r) == r \in [snapshot : Snapshot, prior : Snapshot, web : 0 .. MaxPushes]
<1>1. ASSUME NEW r, main' = Append(main, r), Fine(r) PROVE CommitsInv'
  <2>1. /\ Tip' = Tip + 1 /\ main'[Tip + 1] = r
        /\ \A i \in 1 .. Tip : main'[i] = main[i]
    BY <1>0, <1>1 DEF Tip
  <2>2. \A i \in 1 .. Tip + 1 : i = Tip + 1 \/ i \in 1 .. Tip
    BY <1>0
  <2>3. QED
    BY <1>1, <2>1, <2>2 DEF CommitsInv
<1>2. Fine(main[Tip])
  BY <1>0 DEF CommitsInv
<1>3. CASE UNCHANGED main
  BY <1>3 DEF CommitsInv, Tip
<1>4. CASE Push
  <2> PICK what \in {"web", "snapshot", "code"} :
       main' = Append(main,
            CASE what = "snapshot" -> CommitOf(pushes', main[Tip].snapshot, main[Tip].web)
              [] what = "web" -> CommitOf(main[Tip].snapshot, main[Tip].prior, pushes')
              [] OTHER -> main[Tip])
    BY <1>4 DEF Push
  <2>1. pushes' \in 0 .. MaxPushes /\ pushes' \in Snapshot
    BY <1>0, <1>4 DEF Push, Snapshot
  <2>2. Fine(CommitOf(pushes', main[Tip].snapshot, main[Tip].web))
    BY <1>2, <2>1 DEF CommitOf
  <2>3. Fine(CommitOf(main[Tip].snapshot, main[Tip].prior, pushes'))
    BY <1>2, <2>1 DEF CommitOf
  <2> HIDE DEF Fine
  <2>4. QED
    BY <1>1, <1>2, <2>2, <2>3
<1>5. CASE PushSnapshot /\ main' # main
  <2> DEFINE r == CommitOf(collect.snapshot, main[collect.sha].snapshot, main[Tip].web)
  <2>1. main' = Append(main, r) /\ collect.step = "push"
    BY <1>5 DEF PushSnapshot
  <2>2. collect.snapshot \in Snapshot
    BY <2>1 DEF NumbersInv
  <2>3. collect.sha \in 1 .. Tip
    BY <2>1 DEF Inv, CollectInv, None
  <2>4. main[collect.sha].snapshot \in Snapshot
    BY <2>3 DEF CommitsInv
  <2>5. Fine(r)
    BY <1>2, <2>2, <2>4 DEF CommitOf
  <2> HIDE DEF Fine, r
  <2>6. QED
    BY <1>1, <2>1, <2>5
<1>6. QED
  BY <1>3, <1>4, <1>5 DEF Next, Pipeline, DispatchPages, TriggerCollect, FailCollect, FailPages,
       StartWaiting, Collected, Rebase, FinishCollect, Build, Deploy, Skip, vars

\* Every step leaves room for the commits to come.
LEMMA RoomStep ==
  ASSUME Inv, NumbersInv, RoomInv, NewestInv, [Next]_vars
  PROVE  RoomInv' /\ NewestInv'
<1>0. main \in Seq(CommitRecord)
  BY DEF Inv, MainInv
<1>1. Tip \in Nat /\ pushes \in Nat /\ triggers \in Nat
  BY <1>0 DEF Inv, CountersInv, Tip
<1>2. /\ UNCHANGED main => Tip' = Tip
      /\ \A r : main' = Append(main, r) => Tip' = Tip + 1
  BY <1>0 DEF Tip
<1>3. NewestInv'
  BY DEF NewestInv, Next, Pipeline, Push, DispatchPages, TriggerCollect, FailCollect, FailPages,
       StartWaiting, Collected, Rebase, PushSnapshot, FinishCollect, Build, Deploy, Skip, vars,
       End, Completed, Trigger, NoTrigger
<1>4. CASE Push
  <2>1. /\ Tip' = Tip + 1 /\ pushes' = pushes + 1 /\ triggers' = triggers
        /\ collect' = collect /\ waiting' = waiting
    BY <1>2, <1>4 DEF Push
  <2>2. QED
    BY <1>1, <1>3, <2>1 DEF RoomInv, Live
<1>5. CASE TriggerCollect
  <2>1. Tip' = Tip /\ triggers' = triggers + 1 /\ pushes' = pushes
    BY <1>2, <1>5 DEF TriggerCollect
  <2>2. \/ waiting' = waiting /\ waiting = 0 /\ ~Live
        \/ collect' = collect
    <3>1. CASE collect = None /\ waiting = 0
      <4>1. ~Live
        BY <3>1 DEF Live, None
      <4>2. UNCHANGED waiting
        BY <1>5, <3>1 DEF TriggerCollect
      <4>3. QED
        BY <3>1, <4>1, <4>2
    <3>2. CASE ~(collect = None /\ waiting = 0)
      BY <1>5, <3>2 DEF TriggerCollect
    <3>3. QED
      BY <3>1, <3>2
  <2>3. QED
    BY <1>1, <1>3, <2>1, <2>2 DEF RoomInv, Live
<1>6. CASE StartWaiting
  <2>1. /\ Tip' = Tip /\ pushes' = pushes /\ triggers' = triggers
        /\ waiting' = 0 /\ waiting # 0
    BY <1>2, <1>6 DEF StartWaiting
  <2>2. QED
    BY <1>1, <1>3, <2>1 DEF RoomInv
<1>7. CASE PushSnapshot /\ main' # main
  <2>1. /\ Tip' = Tip + 1 /\ pushes' = pushes /\ triggers' = triggers
        /\ waiting' = waiting /\ Live
    BY <1>2, <1>7 DEF PushSnapshot, Live
  <2>2. collect' = [step |-> "done", sha |-> collect.sha]
    BY <1>7 DEF PushSnapshot
  <2>3. ~Live'
    BY <2>2 DEF Live
  <2>4. QED
    BY <1>1, <1>3, <2>1, <2>3 DEF RoomInv
<1>8. CASE Collected \/ Rebase
  <2>1. /\ Tip' = Tip /\ pushes' = pushes /\ triggers' = triggers
        /\ waiting' = waiting /\ Live
    BY <1>2, <1>8 DEF Collected, Rebase, Live
  <2>2. QED
    BY <1>1, <1>3, <2>1 DEF RoomInv
<1>9. CASE (PushSnapshot /\ main' = main) \/ FinishCollect \/ FailCollect
  <2>1. Tip' = Tip /\ pushes' = pushes /\ triggers' = triggers /\ waiting' = waiting
    BY <1>2, <1>9 DEF PushSnapshot, FinishCollect, FailCollect
  <2>2. ~Live' \/ Live
    <3>1. CASE collect' = None
      BY <3>1 DEF Live, None
    <3>2. CASE PushSnapshot
      BY <3>2 DEF PushSnapshot, Live
    <3>3. QED
      BY <1>9, <3>1, <3>2 DEF FinishCollect, FailCollect, End
  <2>3. QED
    BY <1>1, <1>3, <2>1, <2>2 DEF RoomInv
<1>10. CASE DispatchPages \/ Build \/ Deploy \/ Skip \/ FailPages \/ UNCHANGED vars
  <2>1. /\ Tip' = Tip /\ pushes' = pushes /\ triggers' = triggers
        /\ collect' = collect /\ waiting' = waiting
    BY <1>2, <1>10 DEF DispatchPages, Build, Deploy, Skip, FailPages, vars
  <2>2. QED
    BY <1>1, <1>3, <2>1 DEF RoomInv, Live
<1>11. QED
  BY <1>4, <1>5, <1>6, <1>7, <1>8, <1>9, <1>10 DEF Next, Pipeline

\* Every variable of the pipeline keeps its type; in particular main holds at
\* most one commit for each push and each collect.
THEOREM TypeCorrect == Spec => []TypeOK
<1> DEFINE AllInv == Inv /\ NumbersInv /\ CommitsInv /\ RoomInv /\ NewestInv
<1>1. Init => AllInv
  <2> SUFFICES ASSUME Init PROVE AllInv
    OBVIOUS
  <2>1. /\ main = <<CommitOf(0, 0, 0)>> /\ Tip = 1 /\ pushes = 0 /\ triggers = 0
        /\ collect.step = "none" /\ waiting = 0 /\ newest = "deployed"
    BY DEF Init, Tip, None
  <2>2. 0 \in Snapshot /\ 0 \in 0 .. MaxPushes /\ 0 \in 0 .. MaxCollects
    BY PipelineAssumption DEF Snapshot
  <2>3. \A i \in 1 .. Tip : main[i] = CommitOf(0, 0, 0)
    BY <2>1
  <2>4. CommitsInv
    BY <2>2, <2>3 DEF CommitsInv, CommitOf
  <2>5. RoomInv /\ NewestInv /\ NumbersInv
    BY <2>1, <2>2 DEF RoomInv, Live, NewestInv, NumbersInv
  <2>6. QED
    BY <2>4, <2>5, InitInv
<1>2. AllInv /\ [Next]_vars => AllInv'
  BY NextInv, NumbersStep, CommitsStep, RoomStep
<1>3. AllInv => TypeOK
  <2> SUFFICES ASSUME AllInv PROVE TypeOK
    OBVIOUS
  <2>0. MaxPushes \in Nat /\ MaxCollects \in Nat /\ Tip \in Nat /\ Tip >= 1
    BY PipelineAssumption DEF Inv, MainInv, Tip
  <2>1. Tip <= 1 + pushes + triggers
    BY DEF RoomInv
  <2>2. Tip \in Commit /\ 1 .. Tip \subseteq Commit
    BY <2>0, <2>1 DEF NumbersInv, Commit
  <2>3. main \in Seq([snapshot : Snapshot, prior : Snapshot, web : 0 .. MaxPushes])
    <3> DEFINE S == [snapshot : Snapshot, prior : Snapshot, web : 0 .. MaxPushes]
    <3>1. main = [i \in 1 .. Tip |-> main[i]] /\ \A i \in 1 .. Tip : main[i] \in S
      BY DEF Inv, MainInv, CommitsInv, Tip
    <3> HIDE DEF S
    <3>2. main \in [1 .. Tip -> S]
      BY <3>1
    <3>3. QED
      BY <2>0, <3>2, SeqDef DEF S
  <2>4. waiting \in Commit \cup {0}
    BY <2>0, <2>2 DEF Inv, CountersInv
  <2>5. /\ collect.step \in {"none", "collect", "rebase", "push", "done"}
        /\ collect # None => collect.sha \in 1 .. Tip
    BY DEF Inv, CollectInv, None
  <2>6. /\ pages.step \in {"none", "build", "deploy", "skip"}
        /\ pages # None => pages.sha \in 1 .. Tip
        /\ site \in 1 .. Tip
    BY <2>0 DEF Inv, SiteInv, None
  <2>7. QED
    BY <2>2, <2>3, <2>4, <2>5, <2>6 DEF NumbersInv, NewestInv, TypeOK
<1>4. QED
  BY <1>1, <1>2, <1>3, PTL DEF Spec

-----------------------------------------------------------------------------
\* A commit whose snapshot came with its checklist.
Complete(i) == main[i].snapshot > MaxPushes \/ data[i] = main[i].snapshot

\* From such a commit on, no checklist is computed from an older snapshot.
ListsInv ==
  \A i \in 1 .. Tip : Complete(i) =>
    \A j \in i .. Tip : \E k \in i .. Tip : main[k].snapshot = data[j]

\* A page shows a commit the site has shown.
PageInv == page \in 0 .. site

\* A commit may be appended whose checklist is computed from its own snapshot,
\* or is the one of the tip and accompanies a person's snapshot or none.
LEMMA ListAppended ==
  ASSUME MainInv, DataInv, ListsInv, NEW c \in CommitRecord, NEW l \in Snapshot \cup {NoSnapshot},
         main' = Append(main, c), data' = Append(data, l),
         \/ l = c.snapshot
         \/ l = data[Tip] /\ (c.snapshot = main[Tip].snapshot \/ ~(c.snapshot > MaxPushes))
  PROVE  DataInv' /\ ListsInv'
<1>1. /\ Tip \in Nat /\ Tip >= 1 /\ Tip' = Tip + 1
      /\ \A i \in 1 .. Tip : main'[i] = main[i]
      /\ main'[Tip + 1] = c
  BY DEF MainInv, Tip
<1>2. /\ DataInv'
      /\ \A i \in 1 .. Tip : data'[i] = data[i]
      /\ data'[Tip + 1] = l
  BY <1>1 DEF DataInv
<1>3. ASSUME NEW i \in 1 .. Tip + 1, Complete(i)', NEW j \in i .. Tip + 1
      PROVE  \E k \in i .. Tip + 1 : main'[k].snapshot = data'[j]
  <2>0. /\ i \in Nat /\ j \in Nat /\ 1 <= i /\ i <= j /\ j <= Tip + 1
        /\ main'[i].snapshot > MaxPushes \/ data'[i] = main'[i].snapshot
    <3>1. main'[i].snapshot > MaxPushes \/ data'[i] = main'[i].snapshot
      BY <1>3 DEF Complete
    <3>2. i \in Nat /\ j \in Nat /\ 1 <= i /\ i <= j /\ j <= Tip + 1
      BY <1>1
    <3>3. QED
      BY <3>1, <3>2
  <2>1. CASE l = c.snapshot /\ j = Tip + 1
    <3>1. Tip + 1 \in i .. Tip + 1
      BY <1>1, <2>0
    <3>2. QED
      BY <1>1, <1>2, <2>1, <3>1
  <2>2. CASE i = Tip + 1 /\ l # c.snapshot
    <3>1. j = Tip + 1
      BY <1>1, <2>0, <2>2
    <3>2. main'[i] = c /\ data'[i] = l
      BY <1>1, <1>2, <2>2
    <3>3. c.snapshot > MaxPushes
      BY <2>0, <2>2, <3>2
    <3>4. l = data[Tip] /\ c.snapshot = main[Tip].snapshot
      BY <2>2, <3>3
    <3>5. Tip \in 1 .. Tip /\ Tip \in Tip .. Tip
      BY <1>1
    <3>6. Complete(Tip)
      BY <3>3, <3>4 DEF Complete
    <3>7. PICK k \in Tip .. Tip : main[k].snapshot = data[Tip]
      BY <3>5, <3>6 DEF ListsInv
    <3>8. k = Tip
      BY <1>1
    <3>9. QED
      BY <2>2, <3>4, <3>7, <3>8
  <2>3. CASE i # Tip + 1 /\ ~(l = c.snapshot /\ j = Tip + 1)
    <3>0. i \in 1 .. Tip
      BY <1>1, <2>0, <2>3
    <3>1. Complete(i)
      BY <1>1, <1>2, <2>0, <3>0 DEF Complete
    <3>2. PICK m \in i .. Tip : data'[j] = data[m]
      <4>1. CASE j = Tip + 1
        <5>1. l = data[Tip] /\ Tip \in i .. Tip
          BY <1>1, <2>3, <3>0, <4>1
        <5>2. QED
          BY <1>2, <4>1, <5>1
      <4>2. CASE j # Tip + 1
        <5>1. j \in 1 .. Tip /\ j \in i .. Tip
          BY <1>1, <2>0, <4>2
        <5>2. QED
          BY <1>2, <5>1
      <4>3. QED
        BY <4>1, <4>2
    <3>3. PICK k \in i .. Tip : main[k].snapshot = data[m]
      BY <3>0, <3>1 DEF ListsInv
    <3>4. k \in i .. Tip + 1 /\ k \in 1 .. Tip
      BY <1>1, <2>0
    <3>5. QED
      BY <1>1, <3>2, <3>3, <3>4
  <2>4. CASE i = Tip + 1 /\ l = c.snapshot
    <3>1. j = Tip + 1
      BY <1>1, <2>0, <2>4
    <3>2. QED
      BY <2>1, <2>4, <3>1
  <2>5. QED
    BY <2>1, <2>2, <2>3, <2>4
<1>4. ListsInv'
  BY <1>1, <1>3 DEF ListsInv
<1>5. QED
  BY <1>2, <1>4

DocumentsInv == NumbersInv /\ DataInv /\ VerdictInv /\ ListsInv /\ PageInv

\* Initially.
LEMMA InitDocuments == InitDashboard => DocumentsInv
<1> SUFFICES ASSUME InitDashboard PROVE DocumentsInv
  OBVIOUS
<1>0. MaxPushes \in Nat /\ MaxCollects \in Nat
  BY PipelineAssumption
<1>1. /\ Tip = 1 /\ main = <<CommitOf(0, 0, 0)>> /\ data = <<NoSnapshot>> /\ page = 0 /\ site = 1
      /\ collect = None /\ pushes = 0 /\ triggers = 0 /\ released = FALSE
      /\ verdict = [n \in Snapshot |-> "missing"]
  BY DEF InitDashboard, Init, Tip
<1>2. NumbersInv /\ PageInv
  BY <1>0, <1>1 DEF NumbersInv, PageInv, None
<1>3. DataInv
  BY <1>1 DEF DataInv
<1>4. VerdictInv
  BY <1>1 DEF VerdictInv, Verdicts
<1>5. ~Complete(1)
  <2>1. main[1].snapshot = 0 /\ data[1] = NoSnapshot
    BY <1>1 DEF CommitOf
  <2>2. NoSnapshot # 0 /\ ~(0 > MaxPushes)
    BY <1>0 DEF NoSnapshot
  <2>3. QED
    BY <2>1, <2>2 DEF Complete
<1>6. ListsInv
  <2>1. \A i \in 1 .. Tip : i = 1
    BY <1>1
  <2>2. QED
    BY <1>5, <2>1 DEF ListsInv
<1>7. QED
  BY <1>2, <1>3, <1>4, <1>6 DEF DocumentsInv

\* What a step that leaves the branch alone keeps.
LEMMA BranchStays ==
  ASSUME DataInv, ListsInv, UNCHANGED <<main, data>>
  PROVE  DataInv' /\ ListsInv'
BY DEF DataInv, ListsInv, Complete, Tip

\* A person's push.
LEMMA PushStep ==
  ASSUME Inv, DocumentsInv, PushData
  PROVE  DataInv' /\ ListsInv' /\ VerdictInv'
<1>0. /\ MainInv /\ DataInv /\ ListsInv /\ VerdictInv /\ NumbersInv
      /\ MaxPushes \in Nat /\ MaxCollects \in Nat /\ Tip \in Nat /\ Tip >= 1
  BY PipelineAssumption DEF Inv, DocumentsInv, MainInv, Tip
<1>1. PICK what \in {"web", "snapshot", "code"} :
        main' = Append(main,
          CASE what = "snapshot" -> CommitOf(pushes', main[Tip].snapshot, main[Tip].web)
            [] what = "web" -> CommitOf(main[Tip].snapshot, main[Tip].prior, pushes')
            [] OTHER -> main[Tip])
  BY DEF PushData, Push
<1> DEFINE c == CASE what = "snapshot" -> CommitOf(pushes', main[Tip].snapshot, main[Tip].web)
                  [] what = "web" -> CommitOf(main[Tip].snapshot, main[Tip].prior, pushes')
                  [] OTHER -> main[Tip]
<1>2. pushes' \in 0 .. MaxPushes /\ pushes' \in Snapshot /\ pushes' \in Nat
  <2>1. pushes' = pushes + 1 /\ pushes < MaxPushes /\ pushes \in 0 .. MaxPushes
    BY <1>0 DEF PushData, Push, NumbersInv
  <2>2. QED
    BY <1>0, <2>1 DEF Snapshot
<1>3. main[Tip] \in CommitRecord
  BY <1>0 DEF MainInv, Tip
<1>4. c \in CommitRecord /\ (c.snapshot = main[Tip].snapshot \/ c.snapshot = pushes')
  BY <1>2, <1>3 DEF CommitOf, CommitRecord
<1>5. main' = Append(main, c)
  BY <1>1
<1> HIDE DEF c
<1>6. main'[Tip + 1] = c
  BY <1>0, <1>5 DEF MainInv, Tip
<1>7. data[Tip] \in Snapshot \cup {NoSnapshot}
  BY <1>0 DEF DataInv
<1>8. CASE c.snapshot = main[Tip].snapshot
  <2>1. data' = Append(data, data[Tip]) /\ UNCHANGED <<verdict, released>>
    BY <1>6, <1>8 DEF PushData
  <2>2. DataInv' /\ ListsInv'
    BY <1>0, <1>4, <1>5, <1>7, <1>8, <2>1, ListAppended
  <2>3. VerdictInv'
    BY <1>0, <2>1 DEF VerdictInv
  <2>4. QED
    BY <2>2, <2>3
<1>9. CASE c.snapshot # main[Tip].snapshot
  <2>1. /\ \E l \in {pushes', data[Tip]} : data' = Append(data, l)
        /\ \E v \in Observable : verdict' = [verdict EXCEPT ![pushes'] = v]
        /\ UNCHANGED released
    BY <1>6, <1>9 DEF PushData
  <2>2. PICK l \in {pushes', data[Tip]} : data' = Append(data, l)
    BY <2>1
  <2>3. c.snapshot = pushes' /\ ~(c.snapshot > MaxPushes)
    <3>1. ~(pushes' > MaxPushes)
      BY <1>0, <1>2
    <3>2. QED
      BY <1>4, <1>9, <3>1
  <2>4. DataInv' /\ ListsInv'
    BY <1>0, <1>2, <1>4, <1>5, <1>7, <2>2, <2>3, ListAppended
  <2>5. PICK v \in Observable : verdict' = [verdict EXCEPT ![pushes'] = v]
    BY <2>1
  <2>6. VerdictInv'
    BY <1>0, <2>1, <2>5, Recorded
  <2>7. QED
    BY <2>4, <2>6
<1>10. QED
  BY <1>8, <1>9

\* The workflow's push.
LEMMA PushDocumentsStep ==
  ASSUME Inv, DocumentsInv, PushDocuments
  PROVE  DataInv' /\ ListsInv' /\ VerdictInv'
<1>0. MainInv /\ CollectInv /\ DataInv /\ ListsInv /\ VerdictInv /\ NumbersInv /\ collect.step = "push"
  BY DEF Inv, DocumentsInv, PushDocuments, PushSnapshot
<1>1. VerdictInv'
  BY <1>0, HeldKeeps DEF PushDocuments
<1>2. CASE main' = main
  <2>1. UNCHANGED <<main, data>>
    BY <1>2 DEF PushDocuments
  <2>2. QED
    BY <1>0, <1>1, <2>1, BranchStays
<1>3. CASE main' # main
  <2>1. /\ main' = Append(main, CommitOf(collect.snapshot, main[collect.sha].snapshot, main[Tip].web))
        /\ data' = Append(data, collect.snapshot)
    BY <1>3 DEF PushDocuments, PushSnapshot
  <2> DEFINE c == CommitOf(collect.snapshot, main[collect.sha].snapshot, main[Tip].web)
  <2>2. collect.sha \in 1 .. Tip /\ collect.snapshot \in Nat /\ collect.snapshot \in Snapshot
    BY <1>0 DEF CollectInv, None, NumbersInv
  <2>3. main[Tip] \in CommitRecord /\ main[collect.sha] \in CommitRecord
    BY <1>0, <2>2 DEF MainInv, Tip
  <2>4. c \in CommitRecord /\ c.snapshot = collect.snapshot
    BY <2>2, <2>3 DEF CommitOf, CommitRecord
  <2>5. main' = Append(main, c)
    BY <2>1
  <2> HIDE DEF c
  <2>6. DataInv' /\ ListsInv'
    BY <1>0, <2>1, <2>2, <2>4, <2>5, ListAppended
  <2>7. QED
    BY <1>1, <2>6
<1>4. QED
  BY <1>2, <1>3

\* Every step keeps the invariant.
LEMMA DocumentsStep ==
  Inv /\ DocumentsInv /\ [NextDashboard]_everything => Inv' /\ DocumentsInv'
<1> SUFFICES ASSUME Inv, DocumentsInv, [NextDashboard]_everything PROVE Inv' /\ DocumentsInv'
  OBVIOUS
<1>1. [Next]_vars
  BY PipelineStep
<1>2. Inv' /\ site' >= site
  BY <1>1, NextInv
<1>3. NumbersInv'
  BY <1>1, NumbersStep DEF DocumentsInv
<1>0. /\ DataInv /\ ListsInv /\ VerdictInv /\ PageInv
      /\ site \in Nat /\ site' \in Nat
  BY <1>2 DEF DocumentsInv, Inv, SiteInv
<1>p. PageInv'
  <2>1. page' = page \/ page' = site \/ page' = 0
    BY DEF NextDashboard, Release, PushData, CollectData, PushDocuments, LoadSnapshot,
           LoadManualActions, Others, everything, dashboardVars
  <2>2. QED
    BY <1>0, <1>2, <2>1 DEF PageInv
<1>4. CASE PushData
  BY <1>2, <1>3, <1>4, <1>p, PushStep DEF DocumentsInv
<1>5. CASE PushDocuments
  BY <1>2, <1>3, <1>5, <1>p, PushDocumentsStep DEF DocumentsInv
<1>6. CASE CollectData
  <2>1. UNCHANGED <<main, data, released>>
    BY <1>6 DEF CollectData, Collected
  <2>2. PICK v \in Observable : verdict' = [verdict EXCEPT ![collect.snapshot] = v]
    BY <1>6 DEF CollectData
  <2>3. VerdictInv'
    BY <1>0, <2>1, <2>2, Recorded
  <2>4. QED
    BY <1>0, <1>2, <1>3, <1>p, <2>1, <2>3, BranchStays DEF DocumentsInv
<1>7. CASE Others
  <2>1. UNCHANGED <<main, data, released>> /\ verdict' = Held
    BY <1>7 DEF Others, DispatchPages, TriggerCollect, FailCollect, FailPages, StartWaiting,
                Rebase, FinishCollect, Build, Deploy, Skip
  <2>2. VerdictInv'
    BY <1>0, <2>1, HeldKeeps
  <2>3. QED
    BY <1>0, <1>2, <1>3, <1>p, <2>1, <2>2, BranchStays DEF DocumentsInv
<1>8. CASE Release \/ LoadSnapshot \/ LoadManualActions \/ UNCHANGED everything
  <2>1. UNCHANGED <<main, data, verdict>> /\ (released' = released \/ released' = TRUE)
    BY <1>8 DEF Release, LoadSnapshot, LoadManualActions, everything, vars, dashboardVars
  <2>2. VerdictInv'
    BY <1>0, <2>1 DEF VerdictInv
  <2>3. QED
    BY <1>0, <1>2, <1>3, <1>p, <2>1, <2>2, BranchStays DEF DocumentsInv
<1>9. QED
  BY <1>4, <1>5, <1>6, <1>7, <1>8 DEF NextDashboard

-----------------------------------------------------------------------------
\* The invariant holds throughout.
LEMMA DocumentsRun == SpecDashboard => [](Inv /\ DocumentsInv)
<1>1. InitDashboard => Inv /\ DocumentsInv
  BY InitInv, InitDocuments DEF InitDashboard
<1>2. QED
  BY <1>1, DocumentsStep, PTL DEF SpecDashboard, everything

\* Every variable keeps its type: every commit has the checklist it was pushed with,
\* and an open page is of a commit of main.
THEOREM DocumentsTypeCorrect == SpecDashboard => []DocumentsTypeOK
<1>1. ASSUME TypeOK, Inv, DocumentsInv PROVE DocumentsTypeOK
  <2>1. page \in 0 .. site /\ site \in 1 .. Tip /\ Tip \in Nat
    BY <1>1 DEF Inv, MainInv, SiteInv, DocumentsInv, PageInv, Tip
  <2>2. page \in 0 .. Tip
    BY <2>1
  <2> QED BY <1>1, <2>2 DEF DocumentsTypeOK, DocumentsInv, DataInv, VerdictInv
<1> QED BY <1>1, TypeCorrect, PipelineInside, DocumentsRun, PTL

\* Whatever is declared, and whichever documents the page meets, an action with
\* an automatic check leaves it only once the release has happened.
THEOREM HiddenOnlyWhenReleased == SpecDashboard => []HiddenIsReleased
<1>1. Inv /\ DocumentsInv => HiddenIsReleased
  <2> SUFFICES ASSUME Inv, DocumentsInv, NEW a \in Actions, Expect[a] # "none",
                      ~PagePending(Row(a, ShownList))
               PROVE  released
    BY DEF HiddenIsReleased
  <2>1. Resolved(a, ShownList) = "yes"
    BY DEF PagePending, Row
  <2>2. ShownList # NoSnapshot /\ verdict[ShownList] # "missing"
    BY <2>1 DEF Resolved
  <2>3. site \in 1 .. Tip /\ DataInv /\ VerdictInv
    BY DEF Inv, SiteInv, DocumentsInv
  <2>4. ShownList \in Snapshot \cup {NoSnapshot}
    BY <2>3 DEF ShownList, DataInv
  <2>5. QED
    BY <2>2, <2>3, <2>4 DEF VerdictInv
<1>2. QED
  BY <1>1, DocumentsRun, PTL

\* Beside a snapshot that came with its checklist, the page never shows a
\* checklist computed from an older one.
THEOREM ListsOnlyAdvance == SpecDashboard => []ListIsNotOlder
<1>1. Inv /\ DocumentsInv => ListIsNotOlder
  <2> SUFFICES ASSUME Inv, DocumentsInv, Open,
                      ShownSnapshot > MaxPushes \/ data[page] = ShownSnapshot
               PROVE  \E i \in page .. Tip : main[i].snapshot = ShownList
    BY DEF ListIsNotOlder
  <2>1. site \in 1 .. Tip /\ page \in 1 .. site /\ Tip \in Nat
    BY DEF Inv, SiteInv, MainInv, DocumentsInv, PageInv, Open, Tip
  <2>2. page \in 1 .. Tip /\ site \in page .. Tip
    BY <2>1
  <2>3. Complete(page)
    BY DEF Complete, ShownSnapshot
  <2>4. QED
    BY <2>2, <2>3 DEF DocumentsInv, ListsInv, ShownList
<1>2. QED
  BY <1>1, DocumentsRun, PTL

\* The counts of the command are those of the rows the page keeps.
THEOREM CountsAreTheRows == SpecDashboard => []CountsMatchRows
<1>1. ASSUME NEW a \in Actions, NEW l
      PROVE  Pending(Resolved(a, l), Expect[a] # "none", a \in DeclaredDone) <=> PagePending(Row(a, l))
  BY DEF Pending, PagePending, Row
<1>2. CountsMatchRows
  BY <1>1 DEF CountsMatchRows, PendingOf
<1>3. QED
  BY <1>2, PTL

=============================================================================
