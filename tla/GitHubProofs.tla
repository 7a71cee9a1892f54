---------------------------- MODULE GitHubProofs ----------------------------
(***************************************************************************)
(* Proofs about what is read from GitHub: the facts of the packages        *)
(* through any number of collects (PackageFacts), and the paged listings   *)
(* of one repository (GitHub).  They share no state, and each has a part   *)
(* of this module.                                                         *)
(***************************************************************************)
EXTENDS GitHub, PackageFacts, SequenceTheorems, FiniteSetTheorems, TLAPS

-----------------------------------------------------------------------------
(* Numbers. *)

\* A set of naturals that is not empty has a least member.
LEMMA LeastExists ==
  ASSUME NEW S \in SUBSET Nat, S # {}
  PROVE  \E m \in S : \A n \in S : m <= n
<1>1. PICK m \in S : \A n \in S : ~(<<n, m>> \in OpToRel(<, Nat))
  BY WFMin, NatLessThanWellFounded
<1>2. \A n \in S : ~(n < m)
  BY <1>1 DEF OpToRel
<1> QED BY <1>2

\* A bounded one that is not empty has a greatest.
LEMMA GreatestExists ==
  ASSUME NEW S \in SUBSET Nat, S # {}, NEW top \in Nat, \A n \in S : n <= top
  PROVE  \E m \in S : \A n \in S : n <= m
<1> DEFINE Bounds == {b \in Nat : \A n \in S : n <= b}
<1>1. PICK m \in Bounds : \A b \in Bounds : m <= b
  <2>1. Bounds \in SUBSET Nat /\ top \in Bounds
    OBVIOUS
  <2> HIDE DEF Bounds
  <2> QED BY <2>1, LeastExists
<1>2. ASSUME m \notin S PROVE FALSE
  <2>1. PICK n \in S : n <= m
    BY <1>1
  <2>2. m - 1 \in Bounds
    BY <1>1, <1>2, <2>1
  <2> QED BY <1>1, <2>2
<1> QED BY <1>1, <1>2

-----------------------------------------------------------------------------
(* The facts of the packages: for any inventory, any number of collects and
   whatever goes unanswered. *)

LEMMA PackageIndices ==
  /\ DOMAIN Packages = 1 .. Len(Packages) /\ Len(Packages) \in Nat
  /\ \A i \in DOMAIN Packages : Packages[i] \in Package
  /\ \A p \in Package : \E i \in DOMAIN Packages : p = Packages[i]
  BY PackageFactsAssumption, LenProperties DEF Package

\* Every repository of the inventory has a first package, which is the one its
\* counters are taken from.
LEMMA FirstExists ==
  ASSUME NEW p \in Package
  PROVE  \E q \in FirstOf(RepoOf[p]) : TRUE
<1> DEFINE Same == {j \in DOMAIN Packages : RepoOf[Packages[j]] = RepoOf[p]}
<1>1. Same \in SUBSET Nat /\ Same # {}
  BY PackageIndices
<1>2. PICK m \in Same : \A n \in Same : m <= n
  <2> HIDE DEF Same
  <2> QED BY <1>1, LeastExists
<1>3. \A k \in 1 .. m - 1 : RepoOf[Packages[k]] # RepoOf[p]
  BY <1>2, PackageIndices
<1> QED BY <1>2, <1>3 DEF FirstOf

\* The row of a repository is taken from one of its packages.
LEMMA TotalsAreOfAPackage ==
  ASSUME NEW facts, NEW p \in Package
  PROVE  \E q \in Package : /\ RepoOf[q] = RepoOf[p]
                            /\ Totals(facts)[RepoOf[p]] =
                                 [issues |-> facts[q].issues, stats |-> facts[q].repo_stats]
<1> DEFINE first == CHOOSE q \in FirstOf(RepoOf[p]) : TRUE
<1>1. first \in FirstOf(RepoOf[p])
  BY FirstExists
<1>2. first \in Package /\ RepoOf[first] = RepoOf[p]
  BY <1>1 DEF FirstOf, Package
<1>3. RepoOf[p] \in {RepoOf[q] : q \in Package}
  OBVIOUS
<1>4. Totals(facts)[RepoOf[p]] = [issues |-> facts[first].issues, stats |-> facts[first].repo_stats]
  BY <1>3 DEF Totals
<1> QED BY <1>2, <1>4

\* What a collect saw of a package: facts of its own date or nothing, the issues of
\* an offline collect at zero.
SeenAt(f, now) ==
  /\ f.repo_stats \in {Absent, Empty, now} /\ f.actions_stats \in {Absent, Empty, now}
  /\ f.issues \in {Empty, now} /\ f.coverage \in {Empty, now}
  /\ \A w \in Workflows : f.flows[w] \in {Empty, now}

\* Nothing published is of a later date than the last collect.
SeenBefore(f) == \A w \in Workflows : f.flows[w] <= clock

FactsInv ==
  /\ FactsTypeOK
  /\ phase = "built" => clock \in Stamp
  /\ \A p \in Package : phase = "built" => SeenAt(built[p], clock)
  /\ ~published.exists => published.facts = [p \in Package |-> NoFacts]
  /\ \A p \in Package : SeenBefore(published.facts[p])
  /\ IssuesMatchCounters /\ TotalsMatchRows

LEMMA NoFactsTypes == NoFacts \in Facts
  BY PackageFactsAssumption DEF NoFacts, Facts, Block, Stamp, Absent, Empty

\* The totals of typed facts are typed.
LEMMA TotalsTypes ==
  ASSUME NEW facts \in [Package -> Facts]
  PROVE  Totals(facts) \in [{RepoOf[p] : p \in Package} -> [issues : Stamp \cup {Empty}, stats : Block]]
<1>1. \A p \in Package : Totals(facts)[RepoOf[p]] \in [issues : Stamp \cup {Empty}, stats : Block]
  <2> SUFFICES ASSUME NEW p \in Package
               PROVE  Totals(facts)[RepoOf[p]] \in [issues : Stamp \cup {Empty}, stats : Block]
    OBVIOUS
  <2>1. PICK q \in Package : Totals(facts)[RepoOf[p]] =
                               [issues |-> facts[q].issues, stats |-> facts[q].repo_stats]
    BY TotalsAreOfAPackage
  <2>2. facts[q] \in Facts
    OBVIOUS
  <2> QED BY <2>1, <2>2 DEF Facts
<1>2. Totals(facts) = [r \in {RepoOf[p] : p \in Package} |-> Totals(facts)[r]]
  BY DEF Totals
<1> QED BY <1>1, <1>2

LEMMA InitFactsInv == InitFacts => FactsInv
<1> SUFFICES ASSUME InitFacts PROVE FactsInv
  OBVIOUS
<1>1. [p \in Package |-> NoFacts] \in [Package -> Facts]
  BY NoFactsTypes
<1>2. published \in Snapshot
  BY <1>1, TotalsTypes DEF InitFacts, NoSnapshot, Snapshot
<1>3. FactsTypeOK
  BY <1>1, <1>2, PackageFactsAssumption DEF InitFacts, FactsTypeOK
<1>4. \A p \in Package : published.facts[p] = NoFacts
  BY DEF InitFacts, NoSnapshot
<1>5. IssuesMatchCounters /\ \A p \in Package : SeenBefore(published.facts[p])
  BY <1>4 DEF InitFacts, IssuesMatchCounters, SeenBefore, NoFacts, Absent, Empty, Stamp
<1> QED BY <1>3, <1>5 DEF InitFacts, FactsInv, NoSnapshot, TotalsMatchRows

\* A collect sees facts of its own date.
LEMMA ObservedNow ==
  ASSUME NEW p \in Package, NEW failed, NEW offline \in BOOLEAN, clock' \in Stamp
  PROVE  /\ Observed(p, failed, offline, clock') \in Facts
         /\ SeenAt(Observed(p, failed, offline, clock'), clock')
<1> DEFINE seen == Observed(p, failed, offline, clock')
           At(probe1) == IF <<p, probe1>> \in failed THEN Empty ELSE clock'
<1>1. seen = [repo_stats |-> IF offline THEN Absent ELSE At("repo_stats"),
              issues |-> IF offline THEN Empty ELSE At("issues"),
              actions_stats |-> IF offline THEN Absent ELSE At("actions_stats"),
              listed |-> ~offline,
              flows |-> [w \in Workflows |-> IF offline THEN Empty ELSE At(w)],
              scanned |-> At("checkout") = clock',
              coverage |-> IF At("checkout") = clock' THEN At("coverage") ELSE Empty]
  BY DEF Observed
<1>2. \A q : At(q) \in {Empty, clock'}
  OBVIOUS
<1> HIDE DEF At
<1>3. seen \in Facts
  BY <1>1, <1>2 DEF Facts, Block
<1>4. SeenAt(seen, clock')
  BY <1>1, <1>2 DEF SeenAt
<1> QED BY <1>3, <1>4

LEMMA CollectFacts == ASSUME FactsInv, Collect PROVE FactsInv'
<1>1. clock' \in Stamp /\ clock' > clock /\ UNCHANGED published /\ phase' = "built"
  BY PackageFactsAssumption DEF FactsInv, FactsTypeOK, Collect, Stamp
<1>2. PICK offline \in BOOLEAN, failed \in Failures :
        built' = [p \in Package |-> Observed(p, failed, offline, clock')]
  BY DEF Collect
<1>3. built' \in [Package -> Facts] /\ \A p \in Package : SeenAt(built[p], clock)'
  <2>1. \A p \in Package : Observed(p, failed, offline, clock') \in Facts
                           /\ SeenAt(Observed(p, failed, offline, clock'), clock')
    BY <1>1, ObservedNow
  <2> QED BY <1>2, <2>1 DEF SeenAt
<1>4. FactsTypeOK'
  BY <1>1, <1>3 DEF FactsInv, FactsTypeOK, Stamp
<1>5. \A p \in Package : SeenBefore(published.facts[p])'
  <2>1. ASSUME NEW p \in Package, NEW w \in Workflows PROVE published.facts[p].flows[w] <= clock'
    <3>1. published.facts[p] \in Facts
      BY DEF FactsInv, FactsTypeOK, Snapshot
    <3>2. published.facts[p].flows[w] \in Int /\ published.facts[p].flows[w] <= clock
      BY <3>1, PackageFactsAssumption DEF FactsInv, SeenBefore, Facts, Stamp, Empty
    <3> QED BY <1>1, <3>2 DEF FactsInv, FactsTypeOK, Stamp
  <2> QED BY <1>1, <2>1 DEF SeenBefore
<1> QED BY <1>1, <1>3, <1>4, <1>5 DEF FactsInv, IssuesMatchCounters, TotalsMatchRows

-----------------------------------------------------------------------------
(* The write. *)

\* The prior figure of a repository is one of its packages', and there is one when
\* one of them has one.
LEMMA PriorCoverageIsOwn ==
  ASSUME FactsTypeOK, NEW p \in Package
  PROVE  LET own == {published.facts[q].coverage : q \in {r \in Package : RepoOf[r] = RepoOf[p]}}
         IN  /\ PriorCoverage(p) \in own \cup {Empty}
             /\ PriorCoverage(p) \in Stamp \cup {Empty}
             /\ own # {Empty} => PriorCoverage(p) # Empty
<1> DEFINE own == {published.facts[q].coverage : q \in {r \in Package : RepoOf[r] = RepoOf[p]}}
           known == {i \in DOMAIN Packages : /\ RepoOf[Packages[i]] = RepoOf[p]
                                             /\ published.facts[Packages[i]].coverage # Empty}
           last == CHOOSE i \in known : \A k \in known : k <= i
<1>1. \A q \in Package : published.facts[q].coverage \in Stamp \cup {Empty}
  BY DEF FactsTypeOK, Snapshot, Facts
<1>2. own # {Empty} => known # {}
  <2> SUFFICES ASSUME own # {Empty} PROVE known # {}
    OBVIOUS
  <2>1. published.facts[p].coverage \in own
    OBVIOUS
  <2>2. PICK q \in Package : RepoOf[q] = RepoOf[p] /\ published.facts[q].coverage # Empty
    BY <2>1
  <2>3. PICK i \in DOMAIN Packages : q = Packages[i]
    BY PackageIndices
  <2> QED BY <2>2, <2>3
<1>3. CASE known = {}
  BY <1>2, <1>3 DEF PriorCoverage
<1>4. CASE known # {}
  <2>1. \E i \in known : \A k \in known : k <= i
    <3>1. known \in SUBSET Nat /\ Len(Packages) \in Nat /\ \A k \in known : k <= Len(Packages)
      BY PackageIndices
    <3> HIDE DEF known
    <3> QED BY <1>4, <3>1, GreatestExists
  <2>2. last \in known
    BY <2>1
  <2>3. PriorCoverage(p) = published.facts[Packages[last]].coverage
    BY <1>4 DEF PriorCoverage
  <2>4. Packages[last] \in Package /\ RepoOf[Packages[last]] = RepoOf[p]
        /\ published.facts[Packages[last]].coverage # Empty
    <3> HIDE DEF last
    <3> QED BY <2>2, PackageIndices
  <2> HIDE DEF last
  <2> QED BY <1>1, <2>3, <2>4
<1> QED BY <1>3, <1>4

\* What the write publishes of a package.
Rewritten(p) ==
  IF published.exists THEN Carried(Covered(p), published.facts[p]) ELSE built[p]

LEMMA WritePublishes ==
  ASSUME Write
  PROVE  /\ published'.exists = TRUE
         /\ published'.facts = [p \in Package |-> Rewritten(p)]
         /\ published'.totals = Totals(published'.facts)
         /\ built' = [p \in Package |-> NoFacts] /\ phase' = "idle" /\ UNCHANGED clock
  BY DEF Write, Rewritten, TotalsAfter

\* The carry of one package, block by block.
LEMMA CarriedFields ==
  ASSUME FactsInv, phase = "built", NEW p \in Package
  PROVE  LET old == published.facts[p]
             now == built[p]
             new == Rewritten(p)
         IN  /\ new \in Facts /\ old \in Facts /\ now \in Facts
             /\ SeenAt(now, clock) /\ clock \in Stamp
             /\ new.scanned = now.scanned
             /\ ~published.exists => new = now
             /\ published.exists =>
                  /\ new.repo_stats = KeepBlock(now.repo_stats, old.repo_stats)
                  /\ new.issues = IF KeepIssues(now, old) THEN old.issues ELSE now.issues
                  /\ new.coverage = IF now.scanned /\ now.coverage = Empty
                                      THEN PriorCoverage(p) ELSE now.coverage
                  /\ \A w \in Workflows :
                       new.flows[w] = IF now.flows[w] = Empty THEN old.flows[w] ELSE now.flows[w]
<1> DEFINE old == published.facts[p]
           now == built[p]
           new == Rewritten(p)
<1>1. old \in Facts /\ now \in Facts /\ SeenAt(now, clock) /\ clock \in Stamp
  BY DEF FactsInv, FactsTypeOK, Snapshot
<1>2. CASE ~published.exists
  BY <1>1, <1>2 DEF Rewritten
<1>3. CASE published.exists
  <2>1. /\ Covered(p) \in Facts
        /\ Covered(p).coverage = IF now.scanned /\ now.coverage = Empty
                                   THEN PriorCoverage(p) ELSE now.coverage
        /\ Covered(p).repo_stats = now.repo_stats /\ Covered(p).issues = now.issues
        /\ Covered(p).scanned = now.scanned /\ Covered(p).flows = now.flows
        /\ Covered(p).actions_stats = now.actions_stats /\ Covered(p).listed = now.listed
    <3>1. PriorCoverage(p) \in Stamp \cup {Empty}
      BY PriorCoverageIsOwn DEF FactsInv
    <3> QED BY <1>1, <3>1 DEF Covered, Facts
  <2>2. Flows(Covered(p), old) \in [Workflows -> Stamp \cup {Empty}]
    BY <1>1, <2>1 DEF Flows, Facts
  <2>3. /\ KeepBlock(now.repo_stats, old.repo_stats) \in Block
        /\ KeepBlock(now.actions_stats, old.actions_stats) \in Block
    BY <1>1 DEF KeepBlock, Facts
  <2>4. new = Carried(Covered(p), old)
    BY <1>3 DEF Rewritten
  <2>5. new = [Covered(p) EXCEPT
                 !.repo_stats = KeepBlock(now.repo_stats, old.repo_stats),
                 !.actions_stats = KeepBlock(now.actions_stats, old.actions_stats),
                 !.listed = now.listed \/ old.listed,
                 !.flows = Flows(Covered(p), old),
                 !.issues = IF KeepIssues(now, old) THEN old.issues ELSE now.issues]
    BY <2>1, <2>4 DEF Carried, KeepIssues
  <2>6. new \in Facts
    BY <1>1, <2>1, <2>2, <2>3, <2>5 DEF Facts
  <2>7. \A w \in Workflows :
          new.flows[w] = IF now.flows[w] = Empty THEN old.flows[w] ELSE now.flows[w]
    BY <2>1, <2>5 DEF Facts, Flows
  <2>8. /\ new.repo_stats = KeepBlock(now.repo_stats, old.repo_stats)
        /\ new.issues = IF KeepIssues(now, old) THEN old.issues ELSE now.issues
        /\ new.coverage = Covered(p).coverage /\ new.scanned = now.scanned
    BY <2>1, <2>5 DEF Facts
  <2> QED BY <1>1, <1>3, <2>1, <2>6, <2>7, <2>8
<1> QED BY <1>2, <1>3

LEMMA WriteFacts == ASSUME FactsInv, Write PROVE FactsInv'
<1>1. /\ published'.exists = TRUE /\ published'.facts = [p \in Package |-> Rewritten(p)]
      /\ published'.totals = Totals(published'.facts)
      /\ built' = [p \in Package |-> NoFacts] /\ phase' = "idle" /\ UNCHANGED clock
  BY WritePublishes
<1>2. phase = "built"
  BY DEF Write
<1>3. published'.facts \in [Package -> Facts]
  BY <1>1, <1>2, CarriedFields
<1>4. FactsTypeOK'
  <2>1. published' = [exists |-> TRUE, facts |-> published'.facts, totals |-> published'.totals]
    BY DEF Write
  <2>2. published' \in Snapshot
    BY <1>1, <1>3, <2>1, TotalsTypes DEF Snapshot
  <2> QED BY <1>1, <2>2, NoFactsTypes DEF FactsInv, FactsTypeOK
<1>5. ASSUME NEW p \in Package
      PROVE  /\ SeenBefore(published'.facts[p])
             /\ published'.facts[p].repo_stats \in Stamp =>
                  published'.facts[p].issues \in {published'.facts[p].repo_stats, Empty}
  <2> DEFINE old == published.facts[p]
             now == built[p]
             new == Rewritten(p)
  <2>1. published'.facts[p] = new
    BY <1>1
  <2>2. \A w \in Workflows : old.flows[w] <= clock
    BY DEF FactsInv, SeenBefore
  <2>3. clock \in Nat /\ \A w \in Workflows : now.flows[w] \in {0, clock}
    BY <1>2, CarriedFields DEF SeenAt, Empty, Stamp
  <2>4. old.repo_stats \in Stamp => old.issues \in {old.repo_stats, Empty}
    BY DEF FactsInv, IssuesMatchCounters
  <2>5. CASE ~published.exists
    BY <1>1, <1>2, <2>1, <2>3, <2>5, CarriedFields DEF SeenAt, SeenBefore, Stamp, Absent, Empty
  <2>6. CASE published.exists
    <3>1. \A w \in Workflows :
            new.flows[w] = IF now.flows[w] = Empty THEN old.flows[w] ELSE now.flows[w]
      BY <1>2, <2>6, CarriedFields
    <3>2. SeenBefore(new)
      BY <2>2, <2>3, <3>1, <1>1 DEF SeenBefore
    <3>3. /\ new.repo_stats = KeepBlock(now.repo_stats, old.repo_stats)
          /\ new.issues = IF KeepIssues(now, old) THEN old.issues ELSE now.issues
          /\ now.repo_stats \in {Absent, Empty, clock} /\ now.issues \in {Empty, clock}
      BY <1>2, <2>6, CarriedFields DEF SeenAt
    <3>4. new.repo_stats \in Stamp => new.issues \in {new.repo_stats, Empty}
      BY <2>4, <3>3 DEF KeepBlock, KeepIssues, Stamp, Absent, Empty
    <3> QED BY <2>1, <3>2, <3>4
  <2> QED BY <2>5, <2>6
<1>6. IssuesMatchCounters'
  BY <1>5 DEF IssuesMatchCounters
<1>7. \A p \in Package : SeenBefore(published.facts[p])'
  BY <1>1, <1>5 DEF SeenBefore
<1>8. TotalsMatchRows'
  <2>1. ASSUME NEW p \in Package
        PROVE  \E q \in Package :
                 /\ RepoOf[q] = RepoOf[p]
                 /\ published'.totals[RepoOf[p]].issues = published'.facts[q].issues
                 /\ published'.totals[RepoOf[p]].stats = published'.facts[q].repo_stats
    <3>1. PICK q \in Package :
            /\ RepoOf[q] = RepoOf[p]
            /\ Totals(published'.facts)[RepoOf[p]] =
                 [issues |-> published'.facts[q].issues, stats |-> published'.facts[q].repo_stats]
      BY TotalsAreOfAPackage
    <3> QED BY <1>1, <3>1
  <2>2. DOMAIN published'.totals = {RepoOf[p] : p \in Package}
    BY <1>1 DEF Totals
  <2>3. ASSUME NEW r \in DOMAIN published'.totals
        PROVE  \E q \in Package : /\ RepoOf[q] = r
                                  /\ published'.totals[r].issues = published'.facts[q].issues
                                  /\ published'.totals[r].stats = published'.facts[q].repo_stats
    <3>1. PICK p \in Package : r = RepoOf[p]
      BY <2>2
    <3> QED BY <2>1, <3>1
  <2> QED BY <2>3 DEF TotalsMatchRows
<1> QED BY <1>1, <1>4, <1>6, <1>7, <1>8 DEF FactsInv

LEMMA NextFactsInv == ASSUME FactsInv, [NextFacts]_factsVars PROVE FactsInv'
<1>1. CASE UNCHANGED factsVars
  BY <1>1 DEF FactsInv, FactsTypeOK, SeenAt, SeenBefore, IssuesMatchCounters, TotalsMatchRows, factsVars
<1> QED BY <1>1, CollectFacts, WriteFacts DEF NextFacts

\* The facts a row shows, and the totals above it, are those of the collects they
\* say they are of.
THEOREM FactsInvariant == SpecFacts => []FactsInv
  BY InitFactsInv, NextFactsInv, PTL DEF SpecFacts

\* Every variable of the package facts keeps its type (_reconcile_package, collect).
THEOREM FactsTypeCorrect == SpecFacts => []FactsTypeOK
  BY FactsInvariant, PTL DEF FactsInv

\* Whatever fails, and however often the facts are carried forward, the issues shown
\* beside the repository's counters were read by the same collect.
THEOREM IssuesBelong == SpecFacts => []IssuesMatchCounters
  BY FactsInvariant, PTL DEF FactsInv

\* The totals of the front page are those of the rows below them.
THEOREM TotalsAgree == SpecFacts => []TotalsMatchRows
  BY FactsInvariant, PTL DEF FactsInv

\* The last known run of a workflow is never forgotten.
THEOREM WorkflowsStay == SpecFacts => WorkflowsAreRemembered
<1>1. FactsInv /\ [NextFacts]_factsVars =>
        [\A p \in Package, w \in Workflows :
           published'.facts[p].flows[w] >= published.facts[p].flows[w]]_factsVars
  <2> SUFFICES ASSUME FactsInv, NextFacts, NEW p \in Package, NEW w \in Workflows
               PROVE  published'.facts[p].flows[w] >= published.facts[p].flows[w]
    OBVIOUS
  <2>1. published.facts[p].flows[w] \in Nat /\ published.facts[p].flows[w] <= clock
    <3>1. published.facts[p] \in Facts
      BY DEF FactsInv, FactsTypeOK, Snapshot
    <3> QED BY <3>1 DEF FactsInv, Facts, SeenBefore, Stamp, Empty
  <2>2. CASE Collect
    BY <2>1, <2>2 DEF Collect
  <2>3. CASE Write
    <3>1. phase = "built" /\ published'.facts[p] = Rewritten(p)
      BY <2>3, WritePublishes DEF Write
    <3>2. built[p].flows[w] \in {0, clock} /\ clock \in Nat
      BY <3>1, CarriedFields DEF SeenAt, Stamp, Empty
    <3>3. CASE published.exists
      <4>1. Rewritten(p).flows[w] =
              IF built[p].flows[w] = Empty THEN published.facts[p].flows[w] ELSE built[p].flows[w]
        BY <3>1, <3>3, CarriedFields
      <4> QED BY <2>1, <3>1, <3>2, <4>1 DEF Empty
    <3>4. CASE ~published.exists
      <4>1. published.facts[p] = NoFacts /\ Rewritten(p) = built[p]
        BY <3>4 DEF FactsInv, Rewritten
      <4>2. published.facts[p].flows[w] = 0
        BY <4>1 DEF NoFacts, Empty
      <4> QED BY <3>1, <3>2, <4>1, <4>2
    <3> QED BY <3>3, <3>4
  <2> QED BY <2>2, <2>3 DEF NextFacts
<1> QED BY <1>1, FactsInvariant, PTL DEF SpecFacts, WorkflowsAreRemembered

\* A scan without the artifact keeps a figure of its repository, and shows none that
\* was not one.
THEOREM CoverageStays == SpecFacts => CoverageIsKept
<1> DEFINE Kept == published' # published => \A p \in Package :
       LET own == {published.facts[q].coverage : q \in {r \in Package : RepoOf[r] = RepoOf[p]}}
       IN  /\ published'.facts[p].coverage \in own \cup {clock, Empty}
           /\ (published'.facts[p].scanned /\ own # {Empty}) => published'.facts[p].coverage # Empty
<1>1. FactsInv /\ [NextFacts]_factsVars => [Kept]_factsVars
  <2> SUFFICES ASSUME FactsInv, NextFacts, published' # published PROVE Kept
    OBVIOUS
  <2>1. Write
    BY DEF NextFacts, Collect
  <2>2. phase = "built"
    BY <2>1 DEF Write
  <2> SUFFICES ASSUME NEW p \in Package
               PROVE  LET own == {published.facts[q].coverage : q \in {r \in Package : RepoOf[r] = RepoOf[p]}}
                      IN  /\ published'.facts[p].coverage \in own \cup {clock, Empty}
                          /\ (published'.facts[p].scanned /\ own # {Empty})
                               => published'.facts[p].coverage # Empty
    OBVIOUS
  <2> DEFINE own == {published.facts[q].coverage : q \in {r \in Package : RepoOf[r] = RepoOf[p]}}
             now == built[p]
             new == Rewritten(p)
  <2>3. published'.facts[p] = new
    BY <2>1, WritePublishes
  <2>4. now.coverage \in {Empty, clock} /\ new.scanned = now.scanned
    BY <2>2, CarriedFields DEF SeenAt
  <2>5. CASE published.exists
    <3>1. new.coverage = IF now.scanned /\ now.coverage = Empty THEN PriorCoverage(p) ELSE now.coverage
      BY <2>2, <2>5, CarriedFields
    <3>2. PriorCoverage(p) \in own \cup {Empty} /\ (own # {Empty} => PriorCoverage(p) # Empty)
      BY PriorCoverageIsOwn DEF FactsInv
    <3>3. new.coverage \in own \cup {clock, Empty}
          /\ (new.scanned /\ own # {Empty} => new.coverage # Empty)
      <4> HIDE DEF own, new
      <4> QED BY <2>4, <3>1, <3>2
    <3> QED BY <2>3, <3>3
  <2>6. CASE ~published.exists
    <3>1. published.facts = [q \in Package |-> NoFacts] /\ new = now
      BY <2>6 DEF FactsInv, Rewritten
    <3>2. own = {Empty}
      <4>1. \A q \in Package : published.facts[q].coverage = Empty
        BY <3>1 DEF NoFacts
      <4> QED BY <4>1
    <3> QED BY <2>3, <2>4, <3>1, <3>2
  <2> QED BY <2>5, <2>6
<1> QED BY <1>1, FactsInvariant, PTL DEF SpecFacts, CoverageIsKept

-----------------------------------------------------------------------------
(* The listings of one repository: for any page size, any number of items and
   whatever changes while they are read. *)

LEMMA PageArithmetic ==
  ASSUME NEW p \in Nat \ {0}
  PROVE  /\ (p - 1) * PageSize \in Nat
         /\ p * PageSize = (p - 1) * PageSize + PageSize
         /\ p <= p * PageSize
<1>1. \A a, b \in Nat : a * b \in Nat
  OBVIOUS
<1>2. (p - 1) * PageSize \in Nat
  BY <1>1, GitHubAssumption
<1>3. p * PageSize = (p - 1) * PageSize + PageSize
  BY GitHubAssumption
<1>4. p * PageSize = p + p * (PageSize - 1) /\ p * (PageSize - 1) \in Nat
  BY <1>1, GitHubAssumption
<1> QED BY <1>2, <1>3, <1>4, GitHubAssumption

\* A sequence without its i-th element.
LEMMA RemoveAtIs ==
  ASSUME NEW S, NEW s \in Seq(S), NEW i \in DOMAIN s
  PROVE  /\ RemoveAt(s, i) \in Seq(S) /\ Len(RemoveAt(s, i)) = Len(s) - 1
         /\ \A n \in 1 .. Len(s) - 1 : RemoveAt(s, i)[n] = IF n < i THEN s[n] ELSE s[n + 1]
<1>1. Len(s) \in Nat /\ i \in 1 .. Len(s) /\ \A n \in 1 .. Len(s) : s[n] \in S
  BY LenProperties
<1>2. /\ SubSeq(s, 1, i - 1) \in Seq(S) /\ Len(SubSeq(s, 1, i - 1)) = i - 1
      /\ \A n \in 1 .. i - 1 : SubSeq(s, 1, i - 1)[n] = s[n]
  <2>1. \A n \in 1 .. i - 1 : s[n] \in S
    BY <1>1
  <2> QED BY <1>1, <2>1, SubSeqProperties
<1>3. /\ SubSeq(s, i + 1, Len(s)) \in Seq(S) /\ Len(SubSeq(s, i + 1, Len(s))) = Len(s) - i
      /\ \A n \in 1 .. Len(s) - i : SubSeq(s, i + 1, Len(s))[n] = s[i + n]
  <2>1. \A n \in i + 1 .. Len(s) : s[n] \in S
    BY <1>1
  <2> QED BY <1>1, <2>1, SubSeqProperties
<1> DEFINE a == SubSeq(s, 1, i - 1)
           b == SubSeq(s, i + 1, Len(s))
<1>4. /\ a \o b \in Seq(S) /\ Len(a \o b) = Len(a) + Len(b)
      /\ \A n \in 1 .. Len(a) + Len(b) : (a \o b)[n] = IF n <= Len(a) THEN a[n] ELSE b[n - Len(a)]
  BY <1>2, <1>3, ConcatProperties
<1>5. RemoveAt(s, i) = a \o b /\ Len(a) = i - 1 /\ Len(b) = Len(s) - i
  BY <1>2, <1>3 DEF RemoveAt
<1> DEFINE cut == RemoveAt(s, i)
<1>6. /\ cut \in Seq(S) /\ Len(cut) = Len(s) - 1
      /\ \A n \in 1 .. Len(s) - 1 : cut[n] = IF n <= i - 1 THEN a[n] ELSE b[n - (i - 1)]
  <2> HIDE DEF a, b
  <2>1. Len(a) + Len(b) = Len(s) - 1
    BY <1>1, <1>5
  <2> QED BY <1>4, <1>5, <2>1
<1>7. ASSUME NEW n \in 1 .. Len(s) - 1 PROVE cut[n] = IF n < i THEN s[n] ELSE s[n + 1]
  <2> HIDE DEF cut
  <2>1. CASE n < i
    <3>1. n \in 1 .. i - 1 /\ n <= i - 1
      BY <1>1, <2>1
    <3>2. cut[n] = a[n] /\ a[n] = s[n]
      BY <1>2, <1>6, <3>1
    <3> QED BY <2>1, <3>2
  <2>2. CASE ~(n < i)
    <3>1. n - (i - 1) \in 1 .. Len(s) - i /\ i + (n - (i - 1)) = n + 1 /\ ~(n <= i - 1)
      BY <1>1, <2>2
    <3>2. cut[n] = b[n - (i - 1)] /\ b[n - (i - 1)] = s[n + 1]
      <4>1. cut[n] = b[n - (i - 1)]
        BY <1>6, <3>1
      <4>2. b[n - (i - 1)] = s[i + (n - (i - 1))]
        BY <1>3, <3>1
      <4> QED BY <3>1, <4>1, <4>2
    <3> QED BY <2>2, <3>2
  <2> QED BY <2>1, <2>2
<1> HIDE DEF cut
<1>8. \A n \in 1 .. Len(s) - 1 : cut[n] = IF n < i THEN s[n] ELSE s[n + 1]
  BY <1>7
<1> QED BY <1>6, <1>8 DEF cut

LEMMA Injected ==
  ASSUME NEW S, NEW T, IsFiniteSet(T), NEW f \in [S -> T],
         \A a, b \in S : f[a] = f[b] => a = b
  PROVE  IsFiniteSet(S) /\ Cardinality(S) \in Nat /\ Cardinality(S) <= Cardinality(T)
<1>1. f \in Injection(S, T)
  BY DEF Injection, IsInjective
<1> QED BY <1>1, FS_Injection, FS_CardinalityType

\* A set is larger by one at most than what it is with one element taken out.
LEMMA OneMore ==
  ASSUME NEW S, NEW x, NEW T, IsFiniteSet(T), IsFiniteSet(S \ {x}),
         Cardinality(S \ {x}) <= Cardinality(T)
  PROVE  IsFiniteSet(S) /\ Cardinality(S) \in Nat /\ Cardinality(S) <= Cardinality(T) + 1
<1>1. CASE x \notin S
  <2>1. S = S \ {x}
    BY <1>1
  <2>2. IsFiniteSet(S) /\ Cardinality(S) <= Cardinality(T)
    BY <2>1
  <2>3. Cardinality(S) \in Nat /\ Cardinality(T) \in Nat
    BY <2>2, FS_CardinalityType
  <2> QED BY <2>2, <2>3
<1>2. CASE x \in S
  <2>1. S = (S \ {x}) \cup {x}
    BY <1>2
  <2>2. IsFiniteSet(S) /\ Cardinality(S) = Cardinality(S \ {x}) + 1
    <3> DEFINE R == S \ {x}
    <3>1. x \notin R /\ S = R \cup {x}
      BY <2>1
    <3> HIDE DEF R
    <3>2. IsFiniteSet(R)
      BY DEF R
    <3> QED BY <3>1, <3>2, FS_AddElement DEF R
  <2>3. Cardinality(S \ {x}) \in Nat /\ Cardinality(T) \in Nat
    BY FS_CardinalityType
  <2> QED BY <2>2, <2>3
<1> QED BY <1>1, <1>2

LEMMA FiniteItems ==
  ASSUME NEW S, S \subseteq Item
  PROVE  IsFiniteSet(S) /\ Cardinality(S) \in Nat
<1>1. IsFiniteSet(Item)
  BY FS_Interval, GitHubAssumption DEF Item
<1>2. IsFiniteSet(S)
  BY <1>1, FS_Subset
<1> QED BY <1>2, FS_CardinalityType

-----------------------------------------------------------------------------
\* The listing as it will read if nothing changes: what was listed, then the items
\* beyond; the positions of it that are no pull request.
Ahead == {n \in 1 .. Len(probe.names) : probe.names[n] \notin PullRequests}
         \cup {n \in DOMAIN items : n > Len(probe.names) /\ items[n] \notin PullRequests}

\* What a listing should have and does not.
Unlisted == probe.at_start \ (probe.removed \cup Listed)

\* What of it the listing has gone past: an older item is listed, or its place is
\* before the next page.
Passed(i) ==
  \/ \E j \in Listed : j <= i
  \/ \E n \in DOMAIN items : n <= Len(probe.names) /\ items[n] = i
Lost == {i \in Unlisted : Passed(i)}

\* The repository, newest first.
Ordered ==
  /\ Len(items) <= made
  /\ \A n \in DOMAIN items : items[n] <= made
  /\ \A m, n \in DOMAIN items : m < n => items[m] > items[n]

\* The observers account for every item.
Watched ==
  /\ probe.at_start \cup probe.added \cup probe.removed \subseteq 1 .. made
  /\ \A n \in DOMAIN items : items[n] \notin probe.removed
  /\ \A i \in probe.at_start \ probe.removed : \E n \in DOMAIN items : items[n] = i
  /\ Len(items) = Cardinality(probe.at_start) + Cardinality(probe.added) - Cardinality(probe.removed)

\* Where the call is in its pages, and what its answer says.
Paged ==
  /\ (probe.call \in Listings /\ Running) => Len(probe.names) = (probe.page - 1) * PageSize
  /\ probe.phase = "gh" => Failed
  /\ (probe.call \in Listings /\ Done /\ ~Failed) => Len(items) <= Len(probe.names)
  /\ (probe.call = "repo_stats" /\ Done /\ ~Failed) => probe._open_issues_count = Len(items)

\* The bounds.
Bounded ==
  /\ Cardinality(Lost) <= Cardinality(probe.removed)
  /\ (probe.call = "repo_stats" /\ probe.whole) => Cardinality(Unlisted) <= Cardinality(probe.removed)
  /\ Cardinality(Ahead) <= Cardinality(probe.at_start \ PullRequests) + Cardinality(probe.added)

GitHubInv ==
  /\ TypeOK /\ Ordered
  /\ probe.phase = "idle" => probe = Idle
  /\ probe.phase # "idle" => Watched /\ Paged /\ Bounded

-----------------------------------------------------------------------------
(* What stays true of any state that keeps the invariant. *)

\* The shape of the state.
LEMMA Shape ==
  ASSUME GitHubInv
  PROVE  /\ Len(items) \in Nat /\ DOMAIN items = 1 .. Len(items) /\ items \in Seq(Item)
         /\ \A n \in 1 .. Len(items) : items[n] \in Item
         /\ probe \in Probe /\ made \in 0 .. MaxItems /\ MaxItems \in Nat
         /\ probe.names \in Seq(Item) /\ Len(probe.names) \in Nat
         /\ DOMAIN probe.names = 1 .. Len(probe.names)
         /\ probe.at_start \subseteq Item /\ probe.removed \subseteq Item /\ probe.added \subseteq Item
<1>1. items \in Seq(Item) /\ probe \in Probe /\ made \in 0 .. MaxItems
  BY DEF GitHubInv, TypeOK
<1>2. probe.names \in Seq(Item) /\ probe.at_start \subseteq Item
      /\ probe.removed \subseteq Item /\ probe.added \subseteq Item
  BY <1>1 DEF Probe
<1> QED BY <1>1, <1>2, LenProperties, ElementOfSeq, GitHubAssumption

\* The sets that are counted are finite.
LEMMA Counts ==
  ASSUME GitHubInv
  PROVE  /\ \A S \in SUBSET Item : IsFiniteSet(S) /\ Cardinality(S) \in Nat
         /\ Lost \subseteq Unlisted /\ Unlisted \subseteq Item
         /\ Ahead \subseteq 1 .. Len(probe.names) + Len(items)
         /\ IsFiniteSet(Ahead) /\ Cardinality(Ahead) \in Nat
<1>1. Lost \subseteq Unlisted /\ Unlisted \subseteq Item
  BY Shape DEF Lost, Unlisted
<1>2. Ahead \subseteq 1 .. Len(probe.names) + Len(items)
  BY Shape DEF Ahead
<1>3. IsFiniteSet(Ahead)
  <2>1. IsFiniteSet(1 .. Len(probe.names) + Len(items))
    <3>1. Len(probe.names) + Len(items) \in Int
      BY Shape
    <3> QED BY <3>1, FS_Interval
  <2> QED BY <1>2, <2>1, FS_Subset
<1> QED BY <1>1, <1>2, <1>3, FiniteItems, FS_CardinalityType

-----------------------------------------------------------------------------
(* The maintainers. *)

\* An item created moves every other one place on, in front of the pages to come.
LEMMA CreateStep == ASSUME GitHubInv, Create PROVE GitHubInv'
<1> DEFINE k == Len(probe.names)
<1>1. /\ made < MaxItems /\ made' = made + 1 /\ items' = <<made + 1>> \o items
      /\ probe' = [probe EXCEPT !.added = @ \cup {made + 1}]
      /\ UNCHANGED <<token, quota, gh>> /\ Running
  BY DEF Create
<1>2. made + 1 \in Item /\ made' \in 0 .. MaxItems /\ made \in Nat
  BY <1>1, Shape DEF Item
<1>3. /\ items' \in Seq(Item) /\ Len(items') = Len(items) + 1
      /\ DOMAIN items' = 1 .. Len(items) + 1
      /\ items'[1] = made + 1
      /\ \A n \in 2 .. Len(items) + 1 : items'[n] = items[n - 1]
  <2>1. <<made + 1>> \in Seq(Item) /\ Len(<<made + 1>>) = 1 /\ <<made + 1>>[1] = made + 1
    BY <1>2
  <2>2. /\ items' \in Seq(Item) /\ Len(items') = 1 + Len(items)
        /\ \A n \in 1 .. 1 + Len(items) : items'[n] = IF n <= 1 THEN <<made + 1>>[n] ELSE items[n - 1]
    BY <1>1, <2>1, Shape, ConcatProperties
  <2> QED BY <2>1, <2>2, Shape, LenProperties
<1>4. /\ probe' \in Probe /\ probe'.added = probe.added \cup {made + 1}
      /\ probe'.names = probe.names /\ probe'.call = probe.call /\ probe'.phase = probe.phase
      /\ probe'.page = probe.page /\ probe'.status = probe.status /\ probe'.whole = probe.whole
      /\ probe'.at_start = probe.at_start /\ probe'.removed = probe.removed
  BY <1>1, <1>2, Shape DEF Probe
<1>5. Watched /\ Paged /\ Bounded /\ Ordered /\ Running' /\ ~Done'
  BY <1>1, <1>4 DEF GitHubInv, Running, Done
<1>6. TypeOK'
  BY <1>1, <1>2, <1>3, <1>4 DEF GitHubInv, TypeOK
<1>7. Ordered'
  <2>1. \A n \in 1 .. Len(items) : items[n] <= made /\ items[n] \in Item
    BY <1>5, Shape DEF Ordered
  <2>2. \A n \in DOMAIN items' : items'[n] <= made'
    BY <1>1, <1>2, <1>3, <2>1, Shape DEF Item
  <2>3. ASSUME NEW m \in DOMAIN items', NEW n \in DOMAIN items', m < n
        PROVE  items'[m] > items'[n]
    <3>1. n \in 2 .. Len(items) + 1 /\ items'[n] = items[n - 1] /\ n - 1 \in 1 .. Len(items)
      BY <1>3, <2>3, Shape
    <3>2. CASE m = 1
      BY <1>2, <1>3, <2>1, <3>1, <3>2 DEF Item
    <3>3. CASE m # 1
      <4>1. items'[m] = items[m - 1] /\ m - 1 \in DOMAIN items /\ n - 1 \in DOMAIN items /\ m - 1 < n - 1
        BY <1>3, <2>3, <3>1, <3>3, Shape
      <4> QED BY <1>5, <3>1, <4>1 DEF Ordered
    <3> QED BY <3>2, <3>3
  <2>4. Len(items') <= made'
    BY <1>1, <1>2, <1>3, <1>5, Shape DEF Ordered
  <2> QED BY <2>2, <2>3, <2>4 DEF Ordered
<1>8. Watched'
  <2>1. Cardinality(probe'.added) = Cardinality(probe.added) + 1
    <3>1. made + 1 \notin probe.added
      BY <1>2, <1>5 DEF Watched
    <3>2. IsFiniteSet(probe.added)
      BY Shape, FiniteItems
    <3> QED BY <1>4, <3>1, <3>2, FS_AddElement
  <2>2. probe'.at_start \cup probe'.added \cup probe'.removed \subseteq 1 .. made'
    BY <1>1, <1>2, <1>4, <1>5 DEF Watched
  <2>3. \A n \in DOMAIN items' : items'[n] \notin probe'.removed
    <3>1. made + 1 \notin probe.removed
      BY <1>2, <1>5 DEF Watched
    <3>2. ASSUME NEW n \in 2 .. Len(items) + 1 PROVE items'[n] \notin probe'.removed
      <4>1. n - 1 \in DOMAIN items /\ items'[n] = items[n - 1]
        BY <1>3, Shape
      <4> QED BY <1>4, <1>5, <4>1 DEF Watched
    <3>3. items'[1] \notin probe'.removed
      BY <1>3, <1>4, <3>1
    <3> QED BY <1>3, <3>2, <3>3, Shape
  <2>4. ASSUME NEW i \in probe'.at_start \ probe'.removed
        PROVE  \E n \in DOMAIN items' : items'[n] = i
    <3>1. PICK n \in DOMAIN items : items[n] = i
      BY <1>4, <1>5 DEF Watched
    <3>2. n + 1 \in 2 .. Len(items) + 1 /\ (n + 1) - 1 = n
      BY <3>1, Shape
    <3> QED BY <1>3, <3>1, <3>2
  <2>5. Len(items') = Cardinality(probe'.at_start) + Cardinality(probe'.added) - Cardinality(probe'.removed)
    BY <1>3, <1>4, <1>5, <2>1, Shape, Counts DEF Watched
  <2> QED BY <2>2, <2>3, <2>4, <2>5 DEF Watched
<1>9. Paged'
  BY <1>4, <1>5 DEF Paged, Running, Done, Failed
<1>10. Unlisted' = Unlisted /\ Listed' = Listed
  BY <1>4 DEF Unlisted, Listed
<1>11. Lost' \subseteq Lost
  <2> SUFFICES ASSUME NEW i \in Unlisted, Passed(i)' PROVE Passed(i)
    BY <1>10 DEF Lost
  <2>1. CASE \E j \in Listed : j <= i
    BY <2>1 DEF Passed
  <2>2. ASSUME NEW n \in DOMAIN items', n <= Len(probe'.names), items'[n] = i PROVE Passed(i)
    <3>1. i # made + 1
      BY <1>2, <1>5 DEF Unlisted, Watched
    <3>2. n - 1 \in DOMAIN items /\ items[n - 1] = i /\ n - 1 <= Len(probe.names)
      BY <1>3, <1>4, <2>2, <3>1, Shape
    <3> QED BY <3>2 DEF Passed
  <2> QED BY <1>10, <2>1, <2>2 DEF Passed
<1>12. Cardinality(Lost') <= Cardinality(probe'.removed)
  <2>1. Cardinality(Lost') <= Cardinality(Lost) /\ Cardinality(Lost') \in Nat
    BY <1>11, Counts, FS_Subset, FS_CardinalityType
  <2> QED BY <1>4, <1>5, <2>1, Counts, Shape DEF Bounded
<1>13. Cardinality(Ahead') <= Cardinality(Ahead) + 1 /\ Cardinality(Ahead') \in Nat
  <2> DEFINE rest == Ahead' \ {k + 1}
             f == [n \in rest |-> IF n <= k THEN n ELSE n - 1]
  <2>1. ASSUME NEW n \in rest
        PROVE  n \in Int /\ IF n <= k THEN n \in Ahead ELSE n - 1 \in Ahead /\ n - 1 > k
    <3>1. n \in 1 .. k \/ n \in 1 .. Len(items) + 1
      BY <1>3, <1>4, Shape DEF Ahead
    <3>2. CASE n <= k
      BY <1>3, <1>4, <3>1, <3>2, Shape DEF Ahead
    <3>3. CASE n > k
      <4>1. n \in 1 .. Len(items) + 1 /\ items'[n] \notin PullRequests /\ n # k + 1 /\ k \in Nat
        <5>1. ~(n \in 1 .. Len(probe'.names)) /\ k \in Nat
          BY <1>4, <3>3, Shape
        <5>2. n \in DOMAIN items' /\ items'[n] \notin PullRequests
          BY <5>1 DEF Ahead
        <5> QED BY <1>3, <5>1, <5>2
      <4>2. n \in 2 .. Len(items) + 1 /\ n - 1 > k
        BY <3>3, <4>1, Shape
      <4>3. n - 1 \in DOMAIN items /\ items[n - 1] \notin PullRequests
        BY <1>3, <4>1, <4>2, Shape
      <4>4. n - 1 \in Ahead
        BY <4>2, <4>3 DEF Ahead
      <4> QED BY <3>3, <4>2, <4>4
    <3> QED BY <3>1, <3>2, <3>3, Shape
  <2>2. f \in [rest -> Ahead]
    BY <2>1
  <2>3. ASSUME NEW a \in rest, NEW b \in rest, f[a] = f[b] PROVE a = b
    BY <2>1, <2>3, Shape
  <2>4. IsFiniteSet(rest) /\ Cardinality(rest) <= Cardinality(Ahead)
    <3> HIDE DEF rest, f
    <3> QED BY <2>2, <2>3, Injected, Counts
  <2> QED BY <2>4, OneMore, Counts
<1>14. Bounded'
  <2>1. Cardinality(probe'.added) = Cardinality(probe.added) + 1
    <3>1. made + 1 \notin probe.added
      BY <1>2, <1>5 DEF Watched
    <3>2. IsFiniteSet(probe.added)
      BY Shape, FiniteItems
    <3> QED BY <1>4, <3>1, <3>2, FS_AddElement
  <2>2. Cardinality(Ahead') <= Cardinality(probe'.at_start \ PullRequests) + Cardinality(probe'.added)
    <3>1. /\ Cardinality(probe.added) \in Nat /\ Cardinality(probe.at_start \ PullRequests) \in Nat
          /\ Cardinality(Ahead) \in Nat
      BY Counts, FiniteItems, Shape
    <3> QED BY <1>4, <1>5, <1>13, <2>1, <3>1 DEF Bounded
  <2> QED BY <1>4, <1>5, <1>10, <1>12, <2>2 DEF Bounded
<1> QED BY <1>1, <1>4, <1>6, <1>7, <1>8, <1>9, <1>14 DEF GitHubInv, Running

\* An item deleted moves the older ones one place back: the first of the page to come
\* may slip behind it.
LEMMA DeleteStep == ASSUME GitHubInv, Delete PROVE GitHubInv'
<1> DEFINE k == Len(probe.names)
<1>1. PICK d \in DOMAIN items :
        /\ items' = RemoveAt(items, d)
        /\ probe' = [probe EXCEPT !.removed = @ \cup {items[d]}]
  BY DEF Delete
<1>2. UNCHANGED <<token, quota, gh, made>> /\ Running
  BY DEF Delete
<1>3. /\ items' \in Seq(Item) /\ Len(items') = Len(items) - 1
      /\ DOMAIN items' = 1 .. Len(items) - 1
      /\ \A n \in 1 .. Len(items) - 1 : items'[n] = IF n < d THEN items[n] ELSE items[n + 1]
  <2>1. items \in Seq(Item)
    BY Shape
  <2>2. /\ items' \in Seq(Item) /\ Len(items') = Len(items) - 1
        /\ \A n \in 1 .. Len(items) - 1 : items'[n] = IF n < d THEN items[n] ELSE items[n + 1]
    BY <1>1, <2>1, RemoveAtIs
  <2> QED BY <2>2, LenProperties
<1>4. /\ probe' \in Probe /\ probe'.removed = probe.removed \cup {items[d]}
      /\ probe'.names = probe.names /\ probe'.call = probe.call /\ probe'.phase = probe.phase
      /\ probe'.page = probe.page /\ probe'.status = probe.status /\ probe'.whole = probe.whole
      /\ probe'.at_start = probe.at_start /\ probe'.added = probe.added
  BY <1>1, Shape DEF Probe
<1>5. Watched /\ Paged /\ Bounded /\ Ordered /\ Running' /\ ~Done'
  BY <1>2, <1>4 DEF GitHubInv, Running, Done
<1>6. d \in 1 .. Len(items) /\ Len(items) \in Nat /\ items[d] \in Item /\ items[d] \notin probe.removed
  BY <1>5, Shape DEF Watched
\* The place an item had.
<1> DEFINE old == [n \in 1 .. Len(items) - 1 |-> IF n < d THEN n ELSE n + 1]
<1>7. \A n \in DOMAIN items' : /\ old[n] \in DOMAIN items /\ old[n] # d /\ items'[n] = items[old[n]]
                               /\ old[n] \in {n, n + 1}
  BY <1>3, <1>6, Shape
<1>8. \A m, n \in DOMAIN items' : m < n => old[m] < old[n]
  BY <1>3, <1>6
<1>9. \A n \in DOMAIN items : n # d => \E m \in DOMAIN items' : old[m] = n
  <2> SUFFICES ASSUME NEW n \in 1 .. Len(items), n # d PROVE \E m \in DOMAIN items' : old[m] = n
    BY Shape
  <2>1. CASE n < d
    <3>1. n \in DOMAIN items' /\ old[n] = n
      BY <1>3, <1>6, <2>1
    <3> QED BY <3>1
  <2>2. CASE n > d
    <3>1. n - 1 \in DOMAIN items' /\ old[n - 1] = n
      BY <1>3, <1>6, <2>2
    <3> QED BY <3>1
  <2> QED BY <1>6, <2>1, <2>2
<1> HIDE DEF old
<1>10. TypeOK'
  BY <1>2, <1>3, <1>4 DEF GitHubInv, TypeOK
<1>11. Ordered'
  <2>1. Len(items') <= made'
    BY <1>2, <1>3, <1>5, <1>6, Shape DEF Ordered
  <2> QED BY <1>2, <1>5, <1>7, <1>8, <2>1 DEF Ordered
<1>12. \A n \in DOMAIN items : n # d => items[n] # items[d]
  <2> SUFFICES ASSUME NEW n \in 1 .. Len(items), n # d PROVE items[n] # items[d]
    BY Shape
  <2>1. items[n] \in Int /\ items[d] \in Int /\ n \in DOMAIN items
    BY Shape DEF Item
  <2>2. items[n] > items[d] \/ items[d] > items[n]
    BY <1>5, <1>6, <2>1 DEF Ordered
  <2> QED BY <2>1, <2>2
<1>13. Cardinality(probe'.removed) = Cardinality(probe.removed) + 1
  <2>1. IsFiniteSet(probe.removed)
    BY Shape, FiniteItems
  <2> QED BY <1>4, <1>6, <2>1, FS_AddElement
<1>14. /\ Cardinality(probe.removed) \in Nat /\ Cardinality(probe.added) \in Nat
       /\ Cardinality(probe.at_start) \in Nat /\ Cardinality(probe.at_start \ PullRequests) \in Nat
  BY FiniteItems, Shape
<1>15. Watched'
  <2>1. probe'.at_start \cup probe'.added \cup probe'.removed \subseteq 1 .. made'
    <3>1. items[d] \in 1 .. made
      BY <1>5, <1>6, Shape DEF Ordered, Item
    <3> QED BY <1>2, <1>4, <1>5, <3>1 DEF Watched
  <2>2. \A n \in DOMAIN items' : items'[n] \notin probe'.removed
    BY <1>4, <1>5, <1>7, <1>12 DEF Watched
  <2>3. ASSUME NEW i \in probe'.at_start \ probe'.removed
        PROVE  \E n \in DOMAIN items' : items'[n] = i
    <3>1. PICK n \in DOMAIN items : items[n] = i
      BY <1>4, <1>5 DEF Watched
    <3>2. n # d
      BY <1>4, <3>1
    <3> QED BY <1>7, <1>9, <3>1, <3>2
  <2>4. Len(items') = Cardinality(probe'.at_start) + Cardinality(probe'.added) - Cardinality(probe'.removed)
    BY <1>3, <1>4, <1>5, <1>6, <1>13, <1>14 DEF Watched
  <2> QED BY <2>1, <2>2, <2>3, <2>4 DEF Watched
<1>16. Paged'
  BY <1>4, <1>5 DEF Paged, Running, Done, Failed
<1>17. Unlisted' \subseteq Unlisted /\ Listed' = Listed
  BY <1>4 DEF Unlisted, Listed
<1>18. Lost' \ {items[k + 1]} \subseteq Lost
  <2> SUFFICES ASSUME NEW i \in Unlisted, Passed(i)', i # items[k + 1] PROVE Passed(i)
    BY <1>17 DEF Lost
  <2>1. CASE \E j \in Listed : j <= i
    BY <2>1 DEF Passed
  <2>2. ASSUME NEW n \in DOMAIN items', n <= Len(probe'.names), items'[n] = i PROVE Passed(i)
    <3>1. old[n] \in DOMAIN items /\ items[old[n]] = i /\ old[n] \in {n, n + 1}
      BY <1>7, <2>2
    <3>2. old[n] <= k
      <4>1. n \in Nat /\ n <= k /\ k \in Nat
        BY <1>3, <1>4, <2>2, Shape
      <4>2. old[n] # k + 1
        BY <3>1, <2>2
      <4> QED BY <3>1, <4>1, <4>2
    <3> QED BY <3>1, <3>2 DEF Passed
  <2> QED BY <1>17, <2>1, <2>2 DEF Passed
<1>19. Cardinality(Lost') <= Cardinality(probe'.removed)
  <2>1. IsFiniteSet(Lost) /\ Cardinality(Lost) \in Nat
    BY Counts
  <2>2. IsFiniteSet(Lost' \ {items[k + 1]}) /\ Cardinality(Lost' \ {items[k + 1]}) <= Cardinality(Lost)
    BY <1>18, <2>1, FS_Subset
  <2>3. Cardinality(Lost') <= Cardinality(Lost) + 1 /\ Cardinality(Lost') \in Nat
    BY <2>1, <2>2, OneMore
  <2> QED BY <1>5, <1>13, <1>14, <2>1, <2>3 DEF Bounded
<1>20. Cardinality(Unlisted') <= Cardinality(Unlisted) /\ Cardinality(Unlisted') \in Nat
  <2>1. IsFiniteSet(Unlisted)
    BY Counts
  <2>2. IsFiniteSet(Unlisted')
    BY <1>17, <2>1, FS_Subset
  <2> QED BY <1>17, <2>1, <2>2, FS_Subset, FS_CardinalityType
<1>21. Cardinality(Ahead') <= Cardinality(Ahead) /\ Cardinality(Ahead') \in Nat
  <2> DEFINE S == Ahead'
             f == [n \in S |-> IF n <= k THEN n ELSE old[n]]
  <2>1. ASSUME NEW n \in S
        PROVE  n \in Nat /\ IF n <= k THEN n \in Ahead
                            ELSE n \in DOMAIN items' /\ old[n] \in Ahead /\ old[n] \in Nat /\ old[n] > k
    <3>1. n \in 1 .. k \/ n \in 1 .. Len(items) - 1
      BY <1>3, <1>4 DEF Ahead
    <3>2. n \in Nat /\ k \in Nat
      BY <3>1, Shape
    <3>3. CASE n <= k
      <4>1. ~(n > Len(probe'.names))
        BY <1>4, <3>2, <3>3
      <4>2. n \in 1 .. Len(probe'.names) /\ probe'.names[n] \notin PullRequests
        BY <4>1 DEF Ahead
      <4> QED BY <1>4, <3>2, <3>3, <4>2 DEF Ahead
    <3>4. CASE ~(n <= k)
      <4>1. ~(n \in 1 .. Len(probe'.names))
        BY <1>4, <3>2, <3>4
      <4>2. n \in DOMAIN items' /\ items'[n] \notin PullRequests
        BY <4>1 DEF Ahead
      <4>3. old[n] \in DOMAIN items /\ items[old[n]] \notin PullRequests /\ old[n] \in {n, n + 1}
        BY <1>7, <4>2
      <4>4. old[n] \in Nat /\ old[n] > k
        BY <3>2, <3>4, <4>3
      <4> QED BY <3>2, <3>4, <4>2, <4>3, <4>4 DEF Ahead
    <3> QED BY <3>2, <3>3, <3>4
  <2>2. f \in [S -> Ahead]
    BY <2>1
  <2>3. ASSUME NEW a \in S, NEW b \in S, f[a] = f[b] PROVE a = b
    <3> HIDE DEF S
    <3>1. /\ a \in Nat /\ (a <= k \/ (a \in DOMAIN items' /\ old[a] > k /\ old[a] \in Nat))
          /\ b \in Nat /\ (b <= k \/ (b \in DOMAIN items' /\ old[b] > k /\ old[b] \in Nat))
          /\ k \in Nat
      BY <2>1, Shape
    <3>2. CASE a <= k \/ b <= k
      BY <2>3, <3>1, <3>2
    <3>3. CASE ~(a <= k) /\ ~(b <= k)
      <4>1. old[a] = old[b] /\ a \in DOMAIN items' /\ b \in DOMAIN items'
        BY <2>3, <3>1, <3>3
      <4>2. ~(a < b) /\ ~(b < a)
        BY <1>8, <3>1, <3>3, <4>1
      <4> QED BY <3>1, <4>2
    <3> QED BY <3>2, <3>3
  <2> HIDE DEF S, f
  <2>4. Cardinality(S) \in Nat /\ Cardinality(S) <= Cardinality(Ahead)
    BY <2>2, <2>3, Injected, Counts
  <2> QED BY <2>4 DEF S
<1>22. Bounded'
  <2>1. Cardinality(Ahead) \in Nat /\ Cardinality(Unlisted) \in Nat
    BY Counts
  <2> QED BY <1>4, <1>5, <1>13, <1>14, <1>19, <1>20, <1>21, <2>1 DEF Bounded
<1> QED BY <1>2, <1>4, <1>10, <1>11, <1>15, <1>16, <1>22 DEF GitHubInv, Running

-----------------------------------------------------------------------------
(* The collector. *)

\* A listing begins with every item in front of it.
LEMMA CallStep == ASSUME GitHubInv, NEW c \in Calls, Call(c) PROVE GitHubInv'
<1>1. /\ probe' = [Idle EXCEPT !.call = c, !.phase = "asking", !.at_start = Range(items)]
      /\ UNCHANGED <<token, quota, gh, items, made>> /\ c # "repo_stats"
  BY DEF Call
<1>2. Range(items) \subseteq Item /\ \A i \in Range(items) : \E n \in 1 .. Len(items) : i = items[n]
  BY Shape DEF Range
<1>3. /\ probe'.call = c /\ probe'.phase = "asking" /\ probe'.at_start = Range(items)
      /\ probe'.removed = {} /\ probe'.added = {} /\ probe'.names = <<>> /\ probe'.page = 1
      /\ probe'.status = "200" /\ probe'.whole = FALSE /\ probe'._open_issues_count = NoCount
  BY <1>1 DEF Idle
<1>4. probe' \in Probe
  <2>1. probe' = [call |-> c, phase |-> "asking", page |-> 1, names |-> <<>>, status |-> "200",
                  _open_issues_count |-> NoCount, whole |-> FALSE,
                  at_start |-> Range(items), removed |-> {}, added |-> {}]
    BY <1>1 DEF Idle
  <2>2. 1 \in 1 .. MaxItems + 1 /\ <<>> \in Seq(Item)
    BY Shape, EmptySeq
  <2> QED BY <1>2, <2>1, <2>2 DEF Probe, Phases, Statuses
<1>5. TypeOK' /\ Ordered'
  BY <1>1, <1>4 DEF GitHubInv, TypeOK, Ordered
<1>6. \A m, n \in 1 .. Len(items) : items[m] = items[n] => m = n
  <2> SUFFICES ASSUME NEW m \in 1 .. Len(items), NEW n \in 1 .. Len(items), m < n
               PROVE  items[m] # items[n]
    OBVIOUS
  <2>1. items[m] > items[n] /\ items[m] \in Int /\ items[n] \in Int
    BY Shape DEF GitHubInv, Ordered, Item
  <2> QED BY <2>1
<1> DEFINE places == [n \in 1 .. Len(items) |-> items[n]]
<1>7. Cardinality(Range(items)) = Len(items)
  <2>1. places \in [1 .. Len(items) -> Range(items)]
    BY Shape DEF Range
  <2>2. places \in Bijection(1 .. Len(items), Range(items))
    BY <1>2, <1>6, <2>1 DEF Bijection, Injection, IsInjective, Surjection
  <2>3. IsFiniteSet(1 .. Len(items)) /\ Cardinality(1 .. Len(items)) = Len(items)
    <3>1. Len(items) \in Int /\ 1 \in Int /\ Len(items) \in Nat
      BY Shape
    <3> QED BY <3>1, FS_Interval
  <2>4. ExistsBijection(1 .. Len(items), Range(items))
    BY <2>2 DEF ExistsBijection
  <2> QED BY <2>3, <2>4, FS_Bijection
<1>8. Watched'
  <2>1. \A i \in Range(items) : i \in 1 .. made
    BY <1>2, Shape DEF GitHubInv, Ordered, Item
  <2>2. Cardinality({}) = 0
    BY FS_EmptySet
  <2>3. probe'.at_start \cup probe'.added \cup probe'.removed \subseteq 1 .. made'
    BY <1>1, <1>3, <2>1
  <2>4. \A i \in probe'.at_start \ probe'.removed : \E n \in DOMAIN items' : items'[n] = i
    BY <1>1, <1>2, <1>3, Shape
  <2>5. Len(items') = Cardinality(probe'.at_start) + Cardinality(probe'.added) - Cardinality(probe'.removed)
    <3>1. Cardinality(probe'.added) = 0 /\ Cardinality(probe'.removed) = 0
      BY <1>3, <2>2
    <3>2. Cardinality(probe'.at_start) = Len(items')
      BY <1>1, <1>3, <1>7
    <3> QED BY <1>1, <3>1, <3>2, Shape
  <2> QED BY <1>3, <2>3, <2>4, <2>5 DEF Watched
<1>9. Paged'
  BY <1>3, EmptySeq, GitHubAssumption DEF Paged, Running, Done, Failed
<1>10. Lost' = {}
  <2>1. Listed' = {} /\ Len(probe'.names) = 0
    BY <1>3, EmptySeq DEF Listed, Range
  <2> QED BY <1>1, <2>1, Shape DEF Lost, Passed
<1>11. Cardinality(Ahead') <= Cardinality(Range(items) \ PullRequests) /\ Cardinality(Ahead') \in Nat
  <2> DEFINE S == Ahead'
             T == Range(items) \ PullRequests
             f == [n \in S |-> items[n]]
  <2>1. \A n \in S : n \in 1 .. Len(items) /\ items[n] \notin PullRequests
    <3>1. Len(probe'.names) = 0 /\ 1 .. 0 = {}
      BY <1>3, EmptySeq
    <3> QED BY <1>1, <3>1, Shape DEF Ahead
  <2>2. f \in [S -> T]
    BY <2>1, Shape DEF Range
  <2>3. \A a, b \in S : f[a] = f[b] => a = b
    BY <1>6, <2>1
  <2>4. IsFiniteSet(T)
    BY <1>2, FiniteItems
  <2> HIDE DEF S, T, f
  <2>5. Cardinality(S) \in Nat /\ Cardinality(S) <= Cardinality(T)
    BY <2>2, <2>3, <2>4, Injected
  <2> QED BY <2>5 DEF S, T
<1>12. Bounded'
  <2>1. Cardinality({}) = 0 /\ Cardinality(Range(items) \ PullRequests) \in Nat
    BY <1>2, FiniteItems, FS_EmptySet
  <2> QED BY <1>3, <1>10, <1>11, <2>1 DEF Bounded
<1> QED BY <1>3, <1>5, <1>8, <1>9, <1>12 DEF GitHubInv

\* The issues are in; the repository is asked next, and what they lack is settled.
LEMMA CallStatsStep == ASSUME GitHubInv, CallStats PROVE GitHubInv'
<1>1. /\ probe.phase = "done" /\ probe.call = "open_issues"
      /\ probe' = [probe EXCEPT !.call = "repo_stats", !.phase = "asking", !.whole = (probe.status = "200")]
      /\ UNCHANGED <<token, quota, gh, items, made>>
  BY DEF CallStats
<1>2. /\ probe' \in Probe /\ probe'.call = "repo_stats" /\ probe'.phase = "asking"
      /\ probe'.whole = (probe.status = "200")
      /\ probe'.names = probe.names /\ probe'.at_start = probe.at_start
      /\ probe'.removed = probe.removed /\ probe'.added = probe.added
  BY <1>1, Shape DEF Probe, Calls, Phases
<1>3. Watched /\ Paged /\ Bounded /\ Ordered
  BY <1>1 DEF GitHubInv
<1>4. TypeOK' /\ Ordered'
  BY <1>1, <1>2, <1>3 DEF GitHubInv, TypeOK, Ordered
<1>5. Watched' /\ Paged'
  BY <1>1, <1>2, <1>3 DEF Watched, Paged, Done, Running, Listings
<1>6. Unlisted' = Unlisted /\ Lost' = Lost /\ Ahead' = Ahead
  BY <1>1, <1>2 DEF Unlisted, Lost, Passed, Ahead, Listed
<1>7. probe.status = "200" => Lost = Unlisted
  <2> SUFFICES ASSUME probe.status = "200", NEW i \in Unlisted PROVE Passed(i)
    BY DEF Lost
  <2>1. Len(items) <= Len(probe.names)
    BY <1>1, <1>3 DEF Paged, Listings, Done, Failed
  <2>2. PICK n \in DOMAIN items : items[n] = i
    BY <1>3 DEF Watched, Unlisted
  <2> QED BY <2>1, <2>2, Shape DEF Passed
<1>8. Bounded'
  BY <1>2, <1>3, <1>6, <1>7 DEF Bounded
<1> QED BY <1>2, <1>4, <1>5, <1>8 DEF GitHubInv

\* A request that ends without an answer: it is asked again otherwise, or the call
\* ends with what it has.
LEMMA FailStep ==
  ASSUME GitHubInv, Running, UNCHANGED <<gh, items, made>>,
         token' \in Tokens, quota' \in 0 .. Quota,
         NEW next \in {"anonymous", "gh", "done"}, NEW status \in Statuses,
         probe' = [probe EXCEPT !.phase = next, !.status = status],
         next # "anonymous" => status # "200"
  PROVE  GitHubInv'
<1>1. /\ probe' \in Probe /\ probe'.call = probe.call /\ probe'.phase = next
      /\ probe'.whole = probe.whole /\ probe'.status = status /\ probe'.page = probe.page
      /\ probe'.names = probe.names /\ probe'.at_start = probe.at_start
      /\ probe'.removed = probe.removed /\ probe'.added = probe.added
  BY Shape DEF Probe, Phases
<1>2. Watched /\ Paged /\ Bounded /\ Ordered
  BY DEF GitHubInv, Running
<1>3. TypeOK' /\ Ordered'
  BY <1>1, <1>2 DEF GitHubInv, TypeOK, Ordered
<1>4. Watched'
  BY <1>1, <1>2 DEF Watched
<1>5. Paged'
  BY <1>1, <1>2 DEF Paged, Done, Running, Failed
<1>6. Unlisted' = Unlisted /\ Lost' = Lost /\ Ahead' = Ahead
  BY <1>1 DEF Unlisted, Lost, Passed, Ahead, Listed
<1>7. Bounded'
  BY <1>1, <1>2, <1>6 DEF Bounded
<1> QED BY <1>1, <1>3, <1>4, <1>5, <1>7 DEF GitHubInv

\* A page is the items of its places.
LEMMA PageIs ==
  ASSUME GitHubInv, NEW p \in 1 .. MaxItems + 1
  PROVE  LET k == (p - 1) * PageSize
             size == Len(Page(p))
         IN  /\ Page(p) \in Seq(Item) /\ size \in Nat /\ size <= PageSize
             /\ k \in Nat /\ k + PageSize = p * PageSize
             /\ \A n \in 1 .. size : k + n \in 1 .. Len(items) /\ Page(p)[n] = items[k + n]
             /\ size < PageSize => Len(items) <= k + size
             /\ size = PageSize => p <= Len(items)
<1> DEFINE k == (p - 1) * PageSize
           last == IF p * PageSize < Len(items) THEN p * PageSize ELSE Len(items)
           s == Page(p)
<1>1. k \in Nat /\ p * PageSize = k + PageSize /\ p <= p * PageSize /\ PageSize \in Nat \ {0} /\ p \in Nat
  BY Shape, PageArithmetic, GitHubAssumption
<1>2. Len(items) \in Nat /\ items \in Seq(Item)
  BY Shape
<1> HIDE DEF k
<1>3. last \in Nat /\ last <= Len(items) /\ last <= k + PageSize
  BY <1>1, <1>2
<1>4. /\ s \in Seq(Item) /\ Len(s) = IF k + 1 <= last THEN last - (k + 1) + 1 ELSE 0
      /\ \A n \in 1 .. last - (k + 1) + 1 : s[n] = items[(k + 1) + n - 1]
  <2>1. \A n \in k + 1 .. last : items[n] \in Item
    BY <1>1, <1>2, <1>3, Shape
  <2>2. s = SubSeq(items, k + 1, last)
    BY DEF Page, k
  <2>3. k + 1 \in Int /\ last \in Int
    BY <1>1, <1>3
  <2> HIDE DEF last, s
  <2> QED BY <2>1, <2>2, <2>3, SubSeqProperties
<1>5. Len(s) = IF k + 1 <= last THEN last - k ELSE 0
  <2> HIDE DEF last, s
  <2> QED BY <1>1, <1>3, <1>4
<1>6. ASSUME NEW n \in 1 .. Len(s) PROVE k + n \in 1 .. Len(items) /\ s[n] = items[k + n]
  <2> HIDE DEF s
  <2>1. n \in 1 .. last - (k + 1) + 1 /\ (k + 1) + n - 1 = k + n /\ n \in 1 .. last - k
    BY <1>1, <1>3, <1>5
  <2>2. k + n \in 1 .. Len(items)
    BY <1>1, <1>2, <1>3, <2>1
  <2> QED BY <1>4, <2>1, <2>2
<1>7. Len(s) \in Nat /\ Len(s) <= PageSize
  BY <1>1, <1>3, <1>5
<1>8. Len(s) < PageSize => Len(items) <= k + Len(s)
  <2> HIDE DEF s
  <2> QED BY <1>1, <1>2, <1>5
<1>9. Len(s) = PageSize => p <= Len(items)
  <2> HIDE DEF s
  <2> QED BY <1>1, <1>2, <1>5
<1> QED BY <1>1, <1>4, <1>6, <1>7, <1>8, <1>9 DEF k

\* A document of one answer.
LEMMA DocumentStep ==
  ASSUME GitHubInv, Running, UNCHANGED <<gh, items, made>>, token' \in Tokens, quota' \in 0 .. Quota,
         probe.call \notin Listings, probe' = ReadDocument(probe)
  PROVE  GitHubInv'
<1>1. Len(items) \in 0 .. MaxItems
  BY Shape DEF GitHubInv, Ordered
<1>2. /\ probe' \in Probe /\ probe'.call = probe.call /\ probe'.phase = "done" /\ probe'.status = "200"
      /\ probe'.whole = probe.whole
      /\ probe'.names = probe.names /\ probe'.at_start = probe.at_start
      /\ probe'.removed = probe.removed /\ probe'.added = probe.added
      /\ probe.call = "repo_stats" => probe'._open_issues_count = Len(items)
  <2>1. CASE probe.call = "repo_stats"
    BY <1>1, <2>1, Shape DEF ReadDocument, Probe, Phases, Statuses
  <2>2. CASE probe.call # "repo_stats"
    BY <2>2, Shape DEF ReadDocument, Probe, Phases, Statuses
  <2> QED BY <2>1, <2>2
<1>3. Watched /\ Paged /\ Bounded /\ Ordered
  BY DEF GitHubInv, Running
<1>4. TypeOK' /\ Ordered'
  BY <1>2, <1>3 DEF GitHubInv, TypeOK, Ordered
<1>5. Watched' /\ Paged'
  BY <1>2, <1>3 DEF Watched, Paged, Done, Running, Failed
<1>6. Unlisted' = Unlisted /\ Lost' = Lost /\ Ahead' = Ahead
  BY <1>2 DEF Unlisted, Lost, Passed, Ahead, Listed
<1>7. Bounded'
  BY <1>2, <1>3, <1>6 DEF Bounded
<1> QED BY <1>2, <1>4, <1>5, <1>7 DEF GitHubInv

\* A page lists the items of its places: nothing is lost by listing, and what the
\* listing will read if nothing changes is as before.
LEMMA PageStep ==
  ASSUME GitHubInv, Running, UNCHANGED <<gh, items, made>>, token' \in Tokens, quota' \in 0 .. Quota,
         probe.call \in Listings, probe' = ReadPage(probe)
  PROVE  GitHubInv'
<1> DEFINE k == Len(probe.names)
           body == Page(probe.page)
           size == Len(body)
<1>1. Watched /\ Paged /\ Bounded /\ Ordered
  BY DEF GitHubInv, Running
<1>2. probe.page \in 1 .. MaxItems + 1 /\ k = (probe.page - 1) * PageSize
  BY <1>1, Shape DEF Paged, Probe
<1>3. /\ body \in Seq(Item) /\ size \in Nat /\ size <= PageSize
      /\ k + PageSize = probe.page * PageSize
      /\ \A n \in 1 .. size : k + n \in 1 .. Len(items) /\ body[n] = items[k + n]
      /\ size < PageSize => Len(items) <= k + size
      /\ size = PageSize => probe.page <= Len(items)
  BY <1>2, PageIs
<1> DEFINE names == probe.names \o body
<1>4. /\ names \in Seq(Item) /\ Len(names) = k + size /\ DOMAIN names = 1 .. k + size
      /\ \A n \in 1 .. k : names[n] = probe.names[n]
      /\ \A n \in k + 1 .. k + size : n \in 1 .. Len(items) /\ names[n] = items[n]
  <2> HIDE DEF body
  <2>1. /\ names \in Seq(Item) /\ Len(names) = k + size
        /\ \A n \in 1 .. k + size : names[n] = IF n <= k THEN probe.names[n] ELSE body[n - k]
    BY <1>3, Shape, ConcatProperties
  <2> HIDE DEF names
  <2>2. k \in Nat /\ size \in Nat
    BY <1>3, Shape
  <2>3. \A n \in 1 .. k : names[n] = probe.names[n]
    BY <2>1, <2>2
  <2>4. ASSUME NEW n \in k + 1 .. k + size PROVE n \in 1 .. Len(items) /\ names[n] = items[n]
    <3>1. n - k \in 1 .. size /\ k + (n - k) = n /\ ~(n <= k) /\ n \in 1 .. k + size
      BY <2>2
    <3>2. names[n] = body[n - k]
      BY <2>1, <3>1
    <3>3. k + (n - k) \in 1 .. Len(items) /\ body[n - k] = items[k + (n - k)]
      BY <1>3, <3>1
    <3> QED BY <3>1, <3>2, <3>3
  <2> QED BY <2>1, <2>3, <2>4, LenProperties
<1>5. PageSize \in Nat \ {0} /\ k \in Nat /\ size \in Nat
  BY <1>3, Shape, GitHubAssumption
<1>6. /\ probe'.names = names /\ probe'.call = probe.call /\ probe'.whole = probe.whole
      /\ probe'.at_start = probe.at_start /\ probe'.removed = probe.removed /\ probe'.added = probe.added
      /\ probe'.phase = IF size < PageSize THEN "done" ELSE "asking"
      /\ probe'.page = IF size < PageSize THEN probe.page ELSE probe.page + 1
      /\ probe' \in Probe
  <2> HIDE DEF body
  <2>1. CASE size < PageSize
    <3>1. probe' = [probe EXCEPT !.names = names, !.phase = "done", !.status = "200"]
      BY <2>1, Shape DEF ReadPage, Probe, body
    <3> HIDE DEF names
    <3> QED BY <1>4, <2>1, <3>1, Shape DEF Probe, Phases, Statuses
  <2>2. CASE ~(size < PageSize)
    <3>1. probe' = [probe EXCEPT !.names = names, !.phase = "asking", !.page = probe.page + 1]
      BY <2>2, Shape DEF ReadPage, Probe, body
    <3>2. probe.page + 1 \in 1 .. MaxItems + 1
      <4>1. probe.page <= Len(items) /\ Len(items) <= made /\ made <= MaxItems
        BY <1>1, <1>3, <1>5, <2>2, Shape DEF Ordered
      <4> QED BY <1>2, <4>1, Shape
    <3> HIDE DEF names
    <3> QED BY <1>4, <2>2, <3>1, <3>2, Shape DEF Probe, Phases
  <2> QED BY <2>1, <2>2
<1> HIDE DEF k, body, size, names
<1>7. TypeOK' /\ Ordered'
  BY <1>1, <1>6 DEF GitHubInv, TypeOK, Ordered
<1>8. Watched'
  BY <1>1, <1>6 DEF Watched
<1>9. Paged'
  <2>1. CASE size < PageSize
    BY <1>3, <1>4, <1>6, <2>1 DEF Paged, Running, Done, Listings
  <2>2. CASE ~(size < PageSize)
    <3>1. size = PageSize /\ (probe.page + 1) - 1 = probe.page
      BY <1>2, <1>3, <1>5, <2>2
    <3>2. Len(probe'.names) = (probe'.page - 1) * PageSize
      BY <1>3, <1>4, <1>6, <2>2, <3>1
    <3> QED BY <1>6, <2>2, <3>2 DEF Paged, Running, Done, Listings
  <2> QED BY <2>1, <2>2
<1>10. /\ \A j \in Listed : j \in Listed'
       /\ \A n \in DOMAIN items : n \in k + 1 .. k + size => items[n] \in Listed'
       /\ \A j \in Listed' : j \in Listed \/ \E n \in k + 1 .. k + size : n \in DOMAIN items /\ items[n] = j
  <2>1. Listed = {probe.names[n] : n \in 1 .. k}
    BY Shape DEF Listed, Range, k
  <2>2. Listed' = {names[n] : n \in 1 .. k + size}
    BY <1>4, <1>6 DEF Listed, Range
  <2>3. ASSUME NEW n \in 1 .. k + size PROVE n \in 1 .. k \/ n \in k + 1 .. k + size
    BY <1>5
  <2>4. \A n \in 1 .. k : n \in 1 .. k + size
    BY <1>5
  <2>5. \A n \in k + 1 .. k + size : n \in 1 .. k + size
    BY <1>5
  <2> QED BY <1>4, <2>1, <2>2, <2>3, <2>4, <2>5, Shape
<1>11. Unlisted' \subseteq Unlisted
  BY <1>6, <1>10 DEF Unlisted
<1>12. Lost' \subseteq Lost
  <2> SUFFICES ASSUME NEW i \in Unlisted', Passed(i)' PROVE Passed(i)
    BY <1>11 DEF Lost
  <2>1. PICK n \in DOMAIN items : items[n] = i
    BY <1>1, <1>6 DEF Watched, Unlisted
  <2>2. i \notin Listed' /\ i \in Int /\ n \in 1 .. Len(items) /\ n \in Nat
    BY <2>1, Shape DEF Unlisted, Item
  <2>3. ASSUME n <= k PROVE Passed(i)
    BY <2>1, <2>3 DEF Passed, k
  <2>4. ~(n \in k + 1 .. k + size)
    BY <1>10, <2>1, <2>2
  <2>5. CASE \E m \in DOMAIN items' : m <= Len(probe'.names) /\ items'[m] = i
    <3>1. PICK m \in DOMAIN items : m <= k + size /\ items[m] = i
      BY <1>4, <1>6, <2>5
    <3>2. m \notin k + 1 .. k + size
      BY <1>10, <2>2, <3>1
    <3>3. m <= k
      BY <1>5, <3>1, <3>2, Shape
    <3> QED BY <3>1, <3>3 DEF Passed, k
  <2>6. ASSUME NEW j \in Listed', j <= i PROVE Passed(i)
    <3>1. CASE j \in Listed
      BY <2>6, <3>1 DEF Passed
    <3>2. ASSUME NEW m \in k + 1 .. k + size, m \in DOMAIN items, items[m] = j PROVE Passed(i)
      <4>1. ~(m < n)
        BY <1>1, <2>1, <2>2, <2>6, <3>2, Shape DEF Ordered, Item
      <4>2. n <= k
        BY <1>5, <2>2, <2>4, <4>1
      <4> QED BY <2>3, <4>2
    <3> QED BY <1>10, <3>1, <3>2
  <2> QED BY <2>5, <2>6 DEF Passed
<1>13. Ahead' = Ahead
  <2>1. \A n \in 1 .. Len(items) : n \in k + 1 .. k + size => (n > k /\ ~(n > k + size))
    BY <1>5
  <2>2. ASSUME NEW n PROVE n \in Ahead' <=> n \in Ahead
    <3>1. n \in Ahead' <=> \/ n \in 1 .. k + size /\ names[n] \notin PullRequests
                           \/ n \in 1 .. Len(items) /\ n > k + size /\ items[n] \notin PullRequests
      BY <1>4, <1>6, Shape DEF Ahead
    <3>2. n \in Ahead <=> \/ n \in 1 .. k /\ probe.names[n] \notin PullRequests
                          \/ n \in 1 .. Len(items) /\ n > k /\ items[n] \notin PullRequests
      BY Shape DEF Ahead, k
    <3>3. CASE n \in 1 .. k
      <4>1. n \in 1 .. k + size /\ names[n] = probe.names[n] /\ ~(n > k) /\ ~(n > k + size)
        BY <1>4, <1>5, <3>3
      <4> QED BY <3>1, <3>2, <3>3, <4>1
    <3>4. CASE n \in k + 1 .. k + size
      <4>1. n \in 1 .. k + size /\ n \notin 1 .. k /\ n > k /\ ~(n > k + size)
        BY <1>5, <3>4
      <4>2. n \in 1 .. Len(items) /\ names[n] = items[n]
        BY <1>4, <3>4
      <4> QED BY <3>1, <3>2, <4>1, <4>2
    <3>5. CASE n \notin 1 .. k /\ n \notin k + 1 .. k + size
      <4>1. n \notin 1 .. k + size
        BY <1>5, <3>5
      <4>2. n \in 1 .. Len(items) => (n > k <=> n > k + size)
        BY <1>5, <3>5
      <4> QED BY <3>1, <3>2, <3>5, <4>1, <4>2
    <3> QED BY <3>3, <3>4, <3>5
  <2> QED BY <2>2
<1>14. Bounded'
  <2>1. IsFiniteSet(Lost) /\ IsFiniteSet(Unlisted)
    BY Counts
  <2>2. /\ Cardinality(Lost') <= Cardinality(Lost) /\ Cardinality(Lost') \in Nat
        /\ Cardinality(Unlisted') <= Cardinality(Unlisted) /\ Cardinality(Unlisted') \in Nat
    BY <1>11, <1>12, <2>1, FS_Subset, FS_CardinalityType
  <2>3. /\ Cardinality(Lost) \in Nat /\ Cardinality(Unlisted) \in Nat
        /\ Cardinality(probe.removed) \in Nat
    BY Counts, Shape
  <2> QED BY <1>1, <1>6, <1>13, <2>2, <2>3 DEF Bounded
<1> QED BY <1>6, <1>7, <1>8, <1>9, <1>14 DEF GitHubInv

LEMMA ReadStep ==
  ASSUME GitHubInv, Running, UNCHANGED <<gh, items, made>>, token' \in Tokens, quota' \in 0 .. Quota,
         probe' = Read(probe)
  PROVE  GitHubInv'
  BY DocumentStep, PageStep DEF Read

LEMMA WorkStep == ASSUME GitHubInv, Work PROVE GitHubInv'
<1>1. token \in Tokens /\ gh \in BOOLEAN /\ quota \in 0 .. Quota /\ probe.status \in Statuses
  BY Shape DEF GitHubInv, TypeOK, Probe
<1>2. ASSUME NEW next \in {"anonymous", "gh", "done"}, NEW status \in Statuses,
             probe' = [probe EXCEPT !.phase = next, !.status = status],
             next # "anonymous" => status # "200", Running,
             UNCHANGED <<token, quota, gh, items, made>>
      PROVE  GitHubInv'
  BY <1>1, <1>2, FailStep
<1>3. ASSUME NEW status \in {"denied", "down"}, probe' = Refused(probe, status), Running,
             UNCHANGED <<token, quota, gh, items, made>>
      PROVE  GitHubInv'
  <2>1. CASE HasFallback(probe.call)
    BY <1>2, <1>3, <2>1 DEF Refused, Statuses
  <2>2. CASE ~HasFallback(probe.call)
    BY <1>2, <1>3, <2>2 DEF Refused, Statuses
  <2> QED BY <2>1, <2>2
<1>4. ASSUME quota > 0, quota' = quota - 1 PROVE quota' \in 0 .. Quota
  BY <1>1, <1>4, GitHubAssumption
<1>5. CASE Ask
  <2>1. Running /\ UNCHANGED <<token, gh, items, made>>
    BY <1>5 DEF Ask, Running
  <2>2. CASE probe' = Read(probe) /\ UNCHANGED quota
    BY <1>1, <2>1, <2>2, ReadStep
  <2>3. CASE quota > 0 /\ quota' = quota - 1 /\ probe' = Read(probe)
    BY <1>1, <1>4, <2>1, <2>3, ReadStep
  <2>4. CASE probe' = [probe EXCEPT !.phase = "anonymous"] /\ UNCHANGED quota
    <3>1. probe' = [probe EXCEPT !.phase = "anonymous", !.status = probe.status]
      BY <2>4, Shape DEF Probe
    <3> QED BY <1>1, <1>2, <2>1, <2>4, <3>1
  <2>5. CASE probe' = Refused(probe, "denied") /\ UNCHANGED quota
    BY <1>3, <2>1, <2>5
  <2>6. CASE probe' = Refused(probe, "down") /\ UNCHANGED quota
    BY <1>3, <2>1, <2>6
  <2> QED BY <1>5, <2>2, <2>3, <2>4, <2>5, <2>6 DEF Ask
<1>6. CASE AskAnonymously
  <2>1. Running /\ UNCHANGED <<token, gh, items, made>>
    BY <1>6 DEF AskAnonymously, Running
  <2>2. CASE quota > 0 /\ quota' = quota - 1 /\ probe' = Read(probe)
    BY <1>1, <1>4, <2>1, <2>2, ReadStep
  <2>3. CASE probe' = Refused(probe, "denied") /\ UNCHANGED quota
    BY <1>3, <2>1, <2>3
  <2>4. CASE probe' = Refused(probe, "down") /\ UNCHANGED quota
    BY <1>3, <2>1, <2>4
  <2> QED BY <1>6, <2>2, <2>3, <2>4 DEF AskAnonymously
<1>7. CASE AskGh
  <2>1. Running /\ UNCHANGED <<token, quota, gh, items, made>> /\ probe.phase = "gh"
    BY <1>7 DEF AskGh, Running
  <2>2. CASE probe' = Read(probe)
    BY <1>1, <2>1, <2>2, ReadStep
  <2>3. CASE probe' = [probe EXCEPT !.phase = "done"]
    <3>1. probe.status # "200"
      BY <2>1 DEF GitHubInv, Paged, Failed
    <3>2. probe' = [probe EXCEPT !.phase = "done", !.status = probe.status]
      BY <2>3, Shape DEF Probe
    <3> QED BY <1>1, <1>2, <2>1, <3>1, <3>2
  <2> QED BY <1>7, <2>2, <2>3 DEF AskGh
<1> QED BY <1>5, <1>6, <1>7 DEF Work

LEMMA StillStep ==
  ASSUME GitHubInv, token' \in Tokens, UNCHANGED <<quota, gh, items, made, probe>>
  PROVE  GitHubInv'
<1>1. TypeOK' /\ Ordered' /\ (probe'.phase = "idle" => probe' = Idle)
  BY DEF GitHubInv, TypeOK, Ordered
<1>2. Watched' = Watched /\ Paged' = Paged
  BY DEF Watched, Paged, Running, Done, Failed
<1>3. Unlisted' = Unlisted /\ Lost' = Lost /\ Ahead' = Ahead
  BY DEF Unlisted, Lost, Passed, Ahead, Listed
<1>4. Bounded' = Bounded
  BY <1>3 DEF Bounded
<1> QED BY <1>1, <1>2, <1>4 DEF GitHubInv

LEMMA GitHubInit == ASSUME Init PROVE GitHubInv
<1>1. /\ made \in 0 .. MaxItems /\ MaxItems \in Nat /\ items = [i \in 1 .. made |-> made + 1 - i]
      /\ probe = Idle
  BY GitHubAssumption DEF Init
<1>2. items \in [1 .. made -> Item]
  BY <1>1 DEF Item
<1>3. items \in Seq(Item) /\ Len(items) = made /\ DOMAIN items = 1 .. made
  BY <1>1, <1>2
<1>4. Idle \in Probe /\ Idle.phase = "idle"
  <2>1. <<>> \in Seq(Item) /\ 1 \in 1 .. MaxItems + 1
    BY <1>1, EmptySeq
  <2> QED BY <2>1 DEF Idle, Probe, Calls, Phases, Statuses
<1>5. Ordered
  BY <1>1, <1>3 DEF Ordered
<1> QED BY <1>1, <1>3, <1>4, <1>5 DEF Init, GitHubInv, TypeOK

LEMMA GitHubNext == ASSUME GitHubInv, [Next]_vars PROVE GitHubInv'
<1>1. token \in Tokens
  BY DEF GitHubInv, TypeOK
<1>2. CASE UNCHANGED vars
  BY <1>1, <1>2, StillStep DEF vars
<1>3. CASE Revoke
  BY <1>3, StillStep DEF Revoke, Tokens
<1> QED BY <1>2, <1>3, CreateStep, DeleteStep, CallStep, CallStatsStep, WorkStep DEF Next

\* Through every page and every change of the repository, what was listed accounts
\* for what was there.
THEOREM GitHubInvariant == Spec => []GitHubInv
  BY GitHubInit, GitHubNext, PTL DEF Spec

\* Every variable of the probe keeps its type; in particular a listing never asks for
\* a page beyond the one after the last item.
THEOREM GitHubTypeCorrect == Spec => []TypeOK
  BY GitHubInvariant, PTL DEF GitHubInv

\* For any page size, whatever is created and removed between two pages, and whether
\* the listing ends or is cut short, it lacks no more items than were removed.
THEOREM LossIsBounded == Spec => []LossIsBoundedByRemovals
<1>1. ASSUME GitHubInv PROVE LossIsBoundedByRemovals
  <2> DEFINE reached == {i \in probe.at_start : ~Failed \/ \E j \in Listed : j <= i}
             lacking == reached \ (probe.removed \cup Listed)
  <2> SUFFICES ASSUME Done, probe.call \in Listings
               PROVE  Cardinality(lacking) <= Cardinality(probe.removed)
    BY DEF LossIsBoundedByRemovals
  <2>1. Watched /\ Paged /\ Bounded
    BY <1>1 DEF GitHubInv, Done
  <2>2. lacking \subseteq Lost
    <3> SUFFICES ASSUME NEW i \in lacking PROVE i \in Unlisted /\ Passed(i)
      BY DEF Lost
    <3>1. i \in Unlisted
      BY DEF Unlisted
    <3>2. CASE ~Failed
      <4>1. PICK n \in DOMAIN items : items[n] = i
        BY <2>1, <3>1 DEF Watched, Unlisted
      <4>2. n <= Len(probe.names)
        BY <1>1, <2>1, <3>2, <4>1, Shape DEF Paged
      <4> QED BY <3>1, <4>1, <4>2 DEF Passed
    <3>3. CASE Failed
      BY <3>1, <3>3 DEF Passed
    <3> QED BY <3>2, <3>3
  <2> HIDE DEF lacking
  <2>3. IsFiniteSet(Lost) /\ Cardinality(Lost) \in Nat
    BY <1>1, Counts
  <2>4. Cardinality(lacking) <= Cardinality(Lost) /\ Cardinality(lacking) \in Nat
    BY <2>2, <2>3, FS_Subset, FS_CardinalityType
  <2>5. Cardinality(probe.removed) \in Nat
    BY <1>1, Counts, Shape
  <2> QED BY <2>1, <2>3, <2>4, <2>5 DEF Bounded
<1> QED BY <1>1, GitHubInvariant, PTL

\* A union has no more members than its parts together.
LEMMA UnionBound ==
  ASSUME NEW S, NEW T, IsFiniteSet(S), IsFiniteSet(T)
  PROVE  /\ IsFiniteSet(S \cup T) /\ Cardinality(S \cup T) \in Nat
         /\ Cardinality(S) \in Nat /\ Cardinality(T) \in Nat
         /\ Cardinality(S \cup T) <= Cardinality(S) + Cardinality(T)
         /\ S \cap T = {} => Cardinality(S \cup T) = Cardinality(S) + Cardinality(T)
<1>1. /\ IsFiniteSet(S \cup T)
      /\ Cardinality(S \cup T) = Cardinality(S) + Cardinality(T) - Cardinality(S \cap T)
  BY FS_Union
<1>2. IsFiniteSet(S \cap T)
  <2>1. S \cap T \in SUBSET S
    OBVIOUS
  <2> QED BY <2>1, FS_Subset
<1>3. Cardinality(S) \in Nat /\ Cardinality(T) \in Nat /\ Cardinality(S \cap T) \in Nat
      /\ Cardinality(S \cup T) \in Nat
  BY <1>1, <1>2, FS_CardinalityType
<1>4. S \cap T = {} => Cardinality(S \cap T) = 0
  BY FS_EmptySet
<1> QED BY <1>1, <1>3, <1>4

\* What open_issues counts: every item that was there, is still listed and is no pull
\* request; and nothing beyond what was there and what was opened.
LEMMA CountedBounds ==
  ASSUME GitHubInv, probe.phase # "idle"
  PROVE  LET count == Counted(probe.names)
         IN  /\ count \in Nat
             /\ count <= Cardinality(probe.at_start \ PullRequests) + Cardinality(probe.added)
             /\ Cardinality(probe.at_start \ PullRequests)
                  <= count + Cardinality(probe.removed) + Cardinality(Unlisted)
<1> DEFINE P == {n \in DOMAIN probe.names : probe.names[n] \notin PullRequests}
           L == {j \in Listed : j \notin PullRequests}
           A == probe.at_start \ PullRequests
<1>1. Watched /\ Bounded
  BY DEF GitHubInv
<1>2. P \subseteq Ahead /\ IsFiniteSet(Ahead) /\ Cardinality(Ahead) \in Nat
  BY Shape, Counts DEF Ahead
<1>3. IsFiniteSet(P)
  BY <1>2, FS_Subset
<1>4. Cardinality(P) \in Nat /\ Cardinality(P) <= Cardinality(Ahead)
  <2> HIDE DEF P
  <2> QED BY <1>2, <1>3, FS_Subset, FS_CardinalityType
<1>5. IsFiniteSet(L) /\ Cardinality(L) <= Cardinality(P)
  <2> DEFINE f == [n \in P |-> probe.names[n]]
  <2>1. f \in Surjection(P, L)
    BY DEF Surjection, Listed, Range
  <2> HIDE DEF P, L, f
  <2> QED BY <1>3, <2>1, FS_Surjection
<1>6. A \subseteq (L \cup probe.removed) \cup Unlisted
  BY DEF Unlisted
<1>7. IsFiniteSet(probe.removed) /\ IsFiniteSet(Unlisted) /\ Cardinality(A) \in Nat
      /\ Cardinality(probe.added) \in Nat
  BY Counts, Shape, FiniteItems
<1> HIDE DEF L, P
<1>8. /\ IsFiniteSet(L \cup probe.removed)
      /\ Cardinality(L \cup probe.removed) <= Cardinality(L) + Cardinality(probe.removed)
      /\ Cardinality(L) \in Nat /\ Cardinality(probe.removed) \in Nat /\ Cardinality(L \cup probe.removed) \in Nat
  BY <1>5, <1>7, UnionBound
<1> DEFINE U == (L \cup probe.removed) \cup Unlisted
<1>9. /\ IsFiniteSet(U) /\ Cardinality(U) \in Nat /\ Cardinality(Unlisted) \in Nat
      /\ Cardinality(U) <= Cardinality(L \cup probe.removed) + Cardinality(Unlisted)
  BY <1>7, <1>8, UnionBound
<1>10. Cardinality(A) <= Cardinality(U)
  <2> HIDE DEF A, U
  <2> QED BY <1>6, <1>9, FS_Subset DEF U
<1>11. Counted(probe.names) = Cardinality(P)
  BY DEF Counted, P
<1>12. Cardinality(P) <= Cardinality(A) + Cardinality(probe.added)
  BY <1>1, <1>2, <1>4, <1>7 DEF Bounded
<1> HIDE DEF A, U
<1>13. Cardinality(A) <= Cardinality(P) + Cardinality(probe.removed) + Cardinality(Unlisted)
  BY <1>4, <1>5, <1>7, <1>8, <1>9, <1>10
<1> QED BY <1>4, <1>11, <1>12, <1>13 DEF A

\* The published number of pull requests, the difference of a listing and of a count
\* taken later, is off by no more than what changed in between.
THEOREM PullRequestsAreClose == Spec => []PullRequestsAreOffByChanges
<1>1. ASSUME GitHubInv PROVE PullRequestsAreOffByChanges
  <2> DEFINE before == Cardinality(probe.at_start \cap PullRequests)
             others == Cardinality(probe.at_start \ PullRequests)
             removed == Cardinality(probe.removed)
             added == Cardinality(probe.added)
             count == Counted(probe.names)
             total == probe._open_issues_count
  <2> SUFFICES ASSUME Done, ~Failed, probe.call = "repo_stats"
               PROVE  /\ open_prs(probe) >= before - removed
                      /\ probe.whole => open_prs(probe) <= before + added + removed
    BY DEF PullRequestsAreOffByChanges
  <2>1. Watched /\ Paged /\ Bounded /\ probe.phase # "idle"
    BY <1>1 DEF GitHubInv, Done
  <2>2. total = Cardinality(probe.at_start) + added - removed
    BY <2>1 DEF Paged, Watched
  <2>3. Cardinality(probe.at_start) = before + others /\ before \in Nat /\ others \in Nat
    <3> DEFINE S == probe.at_start \cap PullRequests
               T == probe.at_start \ PullRequests
    <3>1. probe.at_start = S \cup T /\ S \cap T = {}
      OBVIOUS
    <3>2. IsFiniteSet(S) /\ IsFiniteSet(T)
      <4>1. S \subseteq Item /\ T \subseteq Item
        BY <1>1, Shape
      <4> QED BY <4>1, FiniteItems
    <3>3. Cardinality(S \cup T) = Cardinality(S) + Cardinality(T) /\ Cardinality(S) \in Nat /\ Cardinality(T) \in Nat
      <4> HIDE DEF S, T
      <4> QED BY <3>1, <3>2, UnionBound
    <3> QED BY <3>1, <3>3
  <2>4. added \in Nat /\ removed \in Nat /\ Cardinality(Unlisted) \in Nat
    BY <1>1, Counts, Shape
  <2>5. /\ count \in Nat /\ count <= others + added
        /\ others <= count + removed + Cardinality(Unlisted)
    BY <1>1, <2>1, CountedBounds
  <2>6. probe.whole => Cardinality(Unlisted) <= removed
    BY <2>1 DEF Bounded
  <2>7. open_prs(probe) = IF total >= count THEN total - count ELSE 0
    BY DEF open_prs
  <2> HIDE DEF before, others, removed, added, count, total
  <2>8. total = before + others + added - removed
    BY <2>2, <2>3, <2>4
  <2> QED BY <2>3, <2>4, <2>5, <2>6, <2>7, <2>8
<1> QED BY <1>1, GitHubInvariant, PTL

-----------------------------------------------------------------------------
(* How long a call may take. *)

\* The requests a call may still make: four doors a page, for the pages to come.
Requests ==
  4 * (MaxItems + 1 - probe.page) + CASE probe.phase = "asking" -> 3
                                      [] probe.phase = "anonymous" -> 2
                                      [] probe.phase = "gh" -> 1
                                      [] OTHER -> 0

\* A request ends the call or leaves fewer to make: a refusal moves to the next
\* credentials, a page to the next page.
LEMMA RequestStep ==
  ASSUME TypeOK, TypeOK', Running, Work
  PROVE  Requests' < Requests
<1>1. probe \in Probe /\ probe' \in Probe /\ MaxItems \in Nat
  BY GitHubAssumption DEF TypeOK
<1>2. probe.page \in Int /\ probe'.page \in Int
  BY <1>1 DEF Probe
<1>3. \/ probe'.phase = "done" /\ probe'.page = probe.page
      \/ probe'.phase = "asking" /\ probe'.page = probe.page + 1
      \/ probe'.phase = "anonymous" /\ probe.phase = "asking" /\ probe'.page = probe.page
      \/ probe'.phase = "gh" /\ probe.phase # "gh" /\ probe'.page = probe.page
  <2>1. \/ Read(probe).phase = "done" /\ Read(probe).page = probe.page
        \/ Read(probe).phase = "asking" /\ Read(probe).page = probe.page + 1
    BY <1>1, <1>2 DEF Read, ReadPage, ReadDocument, Probe
  <2>2. ASSUME NEW status \in Statuses
        PROVE  /\ Refused(probe, status).phase \in {"gh", "done"}
               /\ Refused(probe, status).page = probe.page
    BY <1>1 DEF Refused, Probe
  <2>3. "denied" \in Statuses /\ "down" \in Statuses
    BY DEF Statuses
  <2>4. CASE Ask
    <3>1. CASE probe' = Read(probe)
      BY <2>1, <3>1
    <3>2. CASE probe' = [probe EXCEPT !.phase = "anonymous"]
      BY <1>1, <2>4, <3>2 DEF Ask, Probe
    <3>3. CASE probe' = Refused(probe, "denied") \/ probe' = Refused(probe, "down")
      BY <2>2, <2>3, <2>4, <3>3 DEF Ask
    <3> QED BY <2>4, <3>1, <3>2, <3>3 DEF Ask
  <2>5. CASE AskAnonymously
    <3>1. CASE probe' = Read(probe)
      BY <2>1, <3>1
    <3>2. CASE probe' = Refused(probe, "denied") \/ probe' = Refused(probe, "down")
      BY <2>2, <2>3, <2>5, <3>2 DEF AskAnonymously
    <3> QED BY <2>5, <3>1, <3>2 DEF AskAnonymously
  <2>6. CASE AskGh
    <3>1. CASE probe' = Read(probe)
      BY <2>1, <3>1
    <3>2. CASE probe' = [probe EXCEPT !.phase = "done"]
      BY <1>1, <3>2 DEF Probe
    <3> QED BY <2>6, <3>1, <3>2 DEF AskGh
  <2> QED BY <2>4, <2>5, <2>6 DEF Work
<1>4. probe.phase \in {"asking", "anonymous", "gh"}
  BY DEF Running
<1> QED BY <1>1, <1>2, <1>3, <1>4 DEF Requests

\* The page loop has no bound of its own, and still a call makes no more than four
\* requests for each item there may be, and for one page more: whatever becomes of
\* the repository and the credentials, each request leaves fewer to make, and
\* nothing else makes more.
THEOREM RequestsAreBounded ==
  Spec => [][Running => /\ Requests' \in Nat /\ Requests' <= Requests
                        /\ Work => Requests' < Requests]_vars
<1>1. ASSUME TypeOK, TypeOK', [Next]_vars, Running
      PROVE  /\ Requests' \in Nat /\ Requests' <= Requests
             /\ Work => Requests' < Requests
  <2>1. probe \in Probe /\ probe' \in Probe /\ MaxItems \in Nat
    BY <1>1, GitHubAssumption DEF TypeOK
  <2>2. /\ probe.page \in 1 .. MaxItems + 1 /\ probe'.page \in 1 .. MaxItems + 1
        /\ probe.page \in Int /\ probe'.page \in Int
    BY <2>1 DEF Probe
  <2>3. Requests \in Nat /\ Requests' \in Nat
    BY <2>1, <2>2 DEF Requests
  <2>4. CASE Work
    BY <1>1, <2>3, <2>4, RequestStep
  <2>5. CASE ~Work
    <3>1. probe'.page = probe.page /\ probe'.phase = probe.phase
      <4>1. CASE Create \/ Delete
        <5>1. PICK a, r : probe' = [probe EXCEPT !.added = a] \/ probe' = [probe EXCEPT !.removed = r]
          BY <4>1 DEF Create, Delete
        <5> QED BY <2>1, <5>1 DEF Probe
      <4>2. CASE Revoke \/ UNCHANGED vars
        BY <4>2 DEF Revoke, vars
      <4>3. ~CallStats /\ \A c \in Calls : ~Call(c)
        <5>1. probe.phase # "idle" /\ probe.phase # "done"
          BY <1>1 DEF Running
        <5>2. ~CallStats
          BY <5>1 DEF CallStats
        <5>3. \A c \in Calls : ~Call(c)
          BY <5>1 DEF Call
        <5> QED BY <5>2, <5>3
      <4> QED BY <1>1, <2>5, <4>1, <4>2, <4>3 DEF Next
    <3>2. Requests' = Requests
      BY <3>1 DEF Requests
    <3> QED BY <2>3, <2>5, <3>2
  <2> QED BY <2>4, <2>5
<1> QED BY <1>1, GitHubTypeCorrect, PTL DEF Spec

=============================================================================
