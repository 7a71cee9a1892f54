---------------------------- MODULE PackageFacts ----------------------------
(***************************************************************************)
(* The GitHub facts of the packages over many collects: repository         *)
(* counters, open issues, Actions statistics, workflow runs and coverage.  *)
(* Each collect reads them again, then carries forward from the snapshot   *)
(* it found what it failed to see, by five rules that do not look at the   *)
(* same thing; the totals are summed over the result.                      *)
(*                                                                         *)
(* A fact is abstracted to the collect that read it.                       *)
(***************************************************************************)
EXTENDS Integers, Sequences, FiniteSetsExt

CONSTANTS
  Packages,      \* the inventory, in its order: a sequence of package ids
  RepoOf,        \* package -> repository; two packages may share one
  Workflows,     \* the workflow files the inventory declares
  MaxCollects,   \* bound: collects in a behaviour
  MaxFailures    \* bound: probes that go unanswered in one collect

VARIABLES
  clock,      \* the newest collect
  phase,      \* idle, or between reconcile and the write
  built,      \* what the collect has read, before anything is carried
  published   \* the snapshot on disk, which the collect has read at its start

factsVars == <<clock, phase, built, published>>

-----------------------------------------------------------------------------
Package == {Packages[i] : i \in DOMAIN Packages}

ASSUME PackageFactsAssumption ==
  /\ Packages \in Seq(Package)
  /\ MaxCollects \in Nat /\ MaxFailures \in Nat

Absent  == -1      \* the block is null, as an offline collect leaves it
Empty   == 0       \* the block is there and all its public fields are null
Stamp   == 1 .. MaxCollects
Block   == Stamp \cup {Absent, Empty}

\* issues is never null: a listing that failed counts zero.  `flows` is empty
\* when the list of workflows is.
Facts == [repo_stats : Block, issues : Stamp \cup {Empty}, actions_stats : Block,
          listed : BOOLEAN, flows : [Workflows -> Stamp \cup {Empty}],
          scanned : BOOLEAN, coverage : Stamp \cup {Empty}]

\* What is asked for a package; a checkout may not be there, or hold no coverage.
Question == {"repo_stats", "issues", "actions_stats", "checkout", "coverage"} \cup Workflows

\* The probes of a collect that go unanswered.
Failures == UNION {kSubset(k, Package \X Question) : k \in 0 .. MaxFailures}

NoFacts == [repo_stats |-> Absent, issues |-> Empty, actions_stats |-> Absent,
            listed |-> FALSE, flows |-> [w \in Workflows |-> Empty],
            scanned |-> FALSE, coverage |-> Empty]

\* A repository's counters are taken from its first package in the inventory.
FirstOf(r) == {Packages[i] : i \in {j \in DOMAIN Packages :
                /\ RepoOf[Packages[j]] = r
                /\ \A k \in 1 .. j - 1 : RepoOf[Packages[k]] # r}}

Totals(facts) ==
  [r \in {RepoOf[p] : p \in Package} |->
     LET p == CHOOSE q \in FirstOf(r) : TRUE
     IN  [issues |-> facts[p].issues, stats |-> facts[p].repo_stats]]

NoSnapshot == [exists |-> FALSE, facts |-> [p \in Package |-> NoFacts],
               totals |-> Totals([p \in Package |-> NoFacts])]

InitFacts ==
  /\ clock = 0 /\ phase = "idle"
  /\ built = [p \in Package |-> NoFacts]
  /\ published = NoSnapshot

-----------------------------------------------------------------------------
\* Offline no block of GitHub is made at all; the checkout is scanned anyway.
Observed(p, failed, offline, now) ==
  LET At(probe) == IF <<p, probe>> \in failed THEN Empty ELSE now
  IN  [repo_stats |-> IF offline THEN Absent ELSE At("repo_stats"),
       issues |-> IF offline THEN Empty ELSE At("issues"),
       actions_stats |-> IF offline THEN Absent ELSE At("actions_stats"),
       listed |-> ~offline,
       flows |-> [w \in Workflows |-> IF offline THEN Empty ELSE At(w)],
       scanned |-> At("checkout") = now,
       coverage |-> IF At("checkout") = now THEN At("coverage") ELSE Empty]

\* One package is reconciled after the other; any probe may fail on its own.
Collect ==
  /\ phase = "idle" /\ clock < MaxCollects
  /\ clock' = clock + 1
  /\ \E offline \in BOOLEAN, failed \in Failures :
       built' = [p \in Package |-> Observed(p, failed, offline, clock')]
  /\ phase' = "built"
  /\ UNCHANGED published

\* Slip: the issues are carried when none is open.
KeepIssuesIfNone(now, old) == now.issues = Empty

\* The issue counts follow the repository counters, whatever their own probe did.
KeepIssues(now, old) == now.repo_stats \in {Absent, Empty}

\* Slip: a list that is there replaces the prior one.
FlowsReplaced(now, old) == IF now.listed THEN now.flows ELSE old.flows

\* An empty list takes the prior one; otherwise each silent workflow takes its own.
Flows(now, old) ==
  [w \in Workflows |-> IF now.flows[w] = Empty THEN old.flows[w] ELSE now.flows[w]]

\* A block that is there but empty takes the prior one, if there was one.
KeepBlock(now, old) == IF now = Empty /\ old # Absent THEN old ELSE now

\* _carry_forward_github_public_signals, for one package.
Carried(now, old) ==
  [now EXCEPT
     !.repo_stats = KeepBlock(now.repo_stats, old.repo_stats),
     !.actions_stats = KeepBlock(now.actions_stats, old.actions_stats),
     !.listed = now.listed \/ old.listed,
     !.flows = Flows(now, old),
     !.issues = IF KeepIssues(now, old) THEN old.issues ELSE @]

\* Slip: the prior figure is looked up by package.
PriorCoverageOwn(p) == published.facts[p].coverage

\* prior_coverage is keyed by repository: its last package with a figure wins.
PriorCoverage(p) ==
  LET known == {i \in DOMAIN Packages : /\ RepoOf[Packages[i]] = RepoOf[p]
                                        /\ published.facts[Packages[i]].coverage # Empty}
  IN  IF known = {} THEN Empty
      ELSE published.facts[Packages[CHOOSE i \in known : \A k \in known : k <= i]].coverage

Covered(p) ==
  [built[p] EXCEPT !.coverage = IF built[p].scanned /\ @ = Empty THEN PriorCoverage(p) ELSE @]

\* Slip: the totals stay those of the packages as reconciled.
TotalsBefore(facts) == Totals(built)

TotalsAfter(facts) == Totals(facts)

\* The coverage first, then the GitHub facts, then the totals, then the file.
Write ==
  /\ phase = "built"
  /\ LET facts == [p \in Package |->
                     IF published.exists THEN Carried(Covered(p), published.facts[p]) ELSE built[p]]
     IN  published' = [exists |-> TRUE, facts |-> facts, totals |-> TotalsAfter(facts)]
  /\ phase' = "idle"
  /\ built' = [p \in Package |-> NoFacts]
  /\ UNCHANGED clock

NextFacts == Collect \/ Write

SpecFacts == InitFacts /\ [][NextFacts]_factsVars

-----------------------------------------------------------------------------
Snapshot == [exists : BOOLEAN, facts : [Package -> Facts],
             totals : [{RepoOf[p] : p \in Package} ->
                         [issues : Stamp \cup {Empty}, stats : Block]]]

\* Types of every variable.
FactsTypeOK ==
  /\ clock \in 0 .. MaxCollects /\ phase \in {"idle", "built"}
  /\ built \in [Package -> Facts]
  /\ published \in Snapshot

\* Pull requests are counted by subtracting the open issues from GitHub's mixed
\* count, so a package shows the two together only when one collect read both
\* (or the issue listing failed in the collect that read the counters).
IssuesMatchCounters ==
  \A p \in Package : LET f == published.facts[p]
    IN f.repo_stats \in Stamp => f.issues \in {f.repo_stats, Empty}

\* The last known run of a declared workflow is never forgotten, online or not.
WorkflowsAreRemembered ==
  [][\A p \in Package, w \in Workflows :
       published'.facts[p].flows[w] >= published.facts[p].flows[w]]_factsVars

\* A scan without the coverage artifact keeps a figure already published for the
\* same repository, and never invents one.
CoverageIsKept ==
  [][published' # published => \A p \in Package :
       LET own == {published.facts[q].coverage : q \in {r \in Package : RepoOf[r] = RepoOf[p]}}
       IN  /\ published'.facts[p].coverage \in own \cup {clock, Empty}
           /\ (published'.facts[p].scanned /\ own # {Empty}) => published'.facts[p].coverage # Empty]_factsVars

\* What the front page sums is what the rows below it show, carried or read.
TotalsMatchRows ==
  published.exists => \A r \in DOMAIN published.totals :
    \E p \in Package : /\ RepoOf[p] = r
                       /\ published.totals[r].issues = published.facts[p].issues
                       /\ published.totals[r].stats = published.facts[p].repo_stats

=============================================================================
