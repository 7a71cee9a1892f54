----------------------------- MODULE Reconcile -----------------------------
(***************************************************************************)
(* Reconciling one package against the world, while the world moves: the   *)
(* collect reads the manifest, then the tags, then probes every target in  *)
(* the order of the inventory, then the release workflow, and maintainers  *)
(* keep bumping, tagging and publishing in between.                        *)
(*                                                                         *)
(* Versions are numbered so that an odd number is a release and the even   *)
(* number below it one of its prereleases (PEP 440 order); 0 is None.      *)
(***************************************************************************)
EXTENDS Integers, Sequences

CONSTANTS
  Inventories,   \* the packages explored: sequences of declared targets
  MaxVersion     \* bound: versions are 1 .. MaxVersion

Registries == {"pypi", "r-universe", "cran", "readthedocs", "github-release", "pages"}
Declared   == [registry : Registries, state : {"tracked", "excluded", "planned", "manual"}]

ASSUME ReconcileAssumption ==
  /\ MaxVersion \in Nat \ {0}
  /\ Inventories \subseteq Seq(Declared)

VARIABLES
  \* the world (not in the repository)
  manifest,   \* version in the source-of-truth file of the default branch
  tags,       \* versions tagged with the package's prefix
  live,       \* live[i]: version the registry of target i serves, None when it serves none
  failing,    \* targets whose current build failed (r-universe, pages)
  removed,    \* targets CRAN removed; its database keeps their last version
  tarball,    \* an R source tarball is attached to a release
  lastRun,    \* conclusion of the newest release run
  \* the collect
  package,    \* the declared targets
  offline,
  phase,
  source,     \* the version facts it read and derived
  index,      \* the r-universe listing kept by the process
  cells,      \* target statuses so far, in inventory order
  rollup,
  workflow,   \* conclusion reported for the release workflow
  \* observers
  tagsThen,   \* the tags that existed when they were listed
  told        \* what the registry of each target knew when it was asked

world   == <<manifest, tags, live, failing, removed, tarball, lastRun>>
collect == <<package, offline, phase, source, index, cells, rollup, workflow, tagsThen, told>>
vars    == <<world, collect>>

-----------------------------------------------------------------------------
None     == 0
Version  == 1 .. MaxVersion
Maybe(S) == S \cup {None}
IsPrerelease(v) == v % 2 = 0
Releases(S) == {v \in S : ~IsPrerelease(v)}

States == {"green", "stale", "pending", "missing", "broken", "unknown", "excluded"}
Runs   == {"none", "success", "failure"}

\* How a probe ends: with the registry's answer on the target; with 429 or 5xx
\* (busy); with a timeout or a lost connection (transport); with anything else,
\* a 401/403 or a 200 whose body is no JSON document (unusable).
Conclusive == {"ok", "absent"}
Transient  == {"busy", "transport"}
Http       == Conclusive \cup Transient \cup {"unusable"}

Targets == DOMAIN package
Cell    == [status : States, manual : BOOLEAN, planned : BOOLEAN]
Told    == [http : Http, live : Maybe(Version), removed : BOOLEAN, page : BOOLEAN]
Source  == [manifest : Maybe(Version), tag : Maybe(Version),
            expected : Maybe(Version), ahead : BOOLEAN]

Init ==
  /\ package \in Inventories
  /\ manifest \in Maybe(Version)
  /\ tags \in SUBSET Version
  /\ live \in [Targets -> Maybe(Releases(tags))]
  /\ failing = {} /\ removed = {} /\ lastRun = "none"
  /\ tarball \in BOOLEAN /\ (tarball => \E i \in Targets : package[i].registry = "cran")
  /\ offline \in BOOLEAN
  /\ phase = "manifest"
  /\ source = [manifest |-> None, tag |-> None, expected |-> None, ahead |-> FALSE]
  /\ index = [loaded |-> FALSE, http |-> "transport",
              live |-> [i \in Targets |-> None], failing |-> {}]
  /\ cells = <<>> /\ rollup = "unknown" /\ workflow = "none"
  /\ tagsThen = {} /\ told = <<>>

-----------------------------------------------------------------------------
(* The world: maintainers and registries, at any moment. *)

Bump ==
  /\ \E v \in Version : v > manifest /\ manifest' = v
  /\ UNCHANGED <<tags, live, failing, removed, tarball, lastRun>>

Tag ==
  /\ manifest \notin tags /\ manifest # None
  /\ tags' = tags \cup {manifest}
  /\ UNCHANGED <<manifest, live, failing, removed, tarball, lastRun>>

\* A release run publishes a tagged version.
Publish ==
  /\ \E i \in Targets, v \in Releases(tags) :
       /\ v > live[i]
       /\ live' = [live EXCEPT ![i] = v]
       /\ failing' = failing \ {i}
       /\ removed' = removed \ {i}
  /\ lastRun' = "success"
  /\ UNCHANGED <<manifest, tags, tarball>>

FailRelease ==
  /\ tags # {} /\ lastRun # "failure"
  /\ lastRun' = "failure"
  /\ UNCHANGED <<manifest, tags, live, failing, removed, tarball>>

FailBuild ==
  /\ \E i \in Targets \ failing :
       /\ live[i] # None /\ package[i].registry \in {"r-universe", "pages"}
       /\ failing' = failing \cup {i}
  /\ UNCHANGED <<manifest, tags, live, removed, tarball, lastRun>>

Remove ==
  /\ \E i \in Targets \ removed :
       /\ live[i] # None /\ package[i].registry = "cran"
       /\ removed' = removed \cup {i}
  /\ UNCHANGED <<manifest, tags, live, failing, tarball, lastRun>>

\* Followed until the collect ends: nothing it reports changes afterwards.
World ==
  /\ phase # "done"
  /\ Bump \/ Tag \/ Publish \/ FailRelease \/ FailBuild \/ Remove
  /\ UNCHANGED collect

-----------------------------------------------------------------------------
(* The pure version engine. *)

derive_expected(m, tag) == IF tag # None THEN tag ELSE m

source_ahead(m, tag) == m # None /\ tag # None /\ m > tag

\* _is_transient (status 0) and the 429/5xx rule of classify together.
classify(expected, published, http) ==
  IF http \in Transient THEN "unknown"
  ELSE IF http = "absent" \/ published = None THEN "missing"
  ELSE IF expected # None /\ published < expected THEN "stale"
  ELSE "green"

\* Slip: a package whose probes were inconclusive counts as green.
RollupForgiving(cs) ==
  LET tracked == {cs[i].status : i \in {j \in DOMAIN cs : ~cs[j].manual}} \ {"excluded", "unknown"}
      rank    == [broken |-> 1, missing |-> 2, stale |-> 3, pending |-> 4, unknown |-> 5, green |-> 6]
  IN IF cs = <<>> THEN {"excluded"}
     ELSE IF tracked = {} THEN {"green"}
     ELSE {s \in tracked : \A u \in tracked : rank[s] <= rank[u]}

\* _rollup: the worst tracked status, as the set that holds it.
Rollup(cs) ==
  LET tracked == {cs[i].status : i \in {j \in DOMAIN cs : ~cs[j].manual}} \ {"excluded"}
      rank    == [broken |-> 1, missing |-> 2, stale |-> 3, pending |-> 4, unknown |-> 5, green |-> 6]
  IN IF cs = <<>> THEN {"excluded"}
     ELSE IF tracked = {} THEN {"green"}
     ELSE {s \in tracked : \A u \in tracked : rank[s] <= rank[u]}

-----------------------------------------------------------------------------
(* The collect. *)

\* Slip: prereleases are taken for production tags.
LatestWithPrereleases(listed) ==
  IF listed = {} THEN {None} ELSE {v \in listed : \A u \in listed : u <= v}

\* _latest_prod_tag, as the set that holds it.
LatestProdTag(listed) ==
  IF Releases(listed) = {} THEN {None}
  ELSE {v \in Releases(listed) : \A u \in Releases(listed) : u <= v}

\* The manifest of the default branch, else of a local checkout that may lag
\* behind it, else none.  Offline nothing is read.
ReadManifest ==
  /\ phase = "manifest"
  /\ \E m \in 0 .. manifest :
       /\ offline => m = None
       /\ source' = [source EXCEPT !.manifest = m]
  /\ phase' = IF offline THEN "probing" ELSE "tags"
  /\ UNCHANGED <<world, package, offline, index, cells, rollup, workflow, tagsThen, told>>

\* The listing is paged, newest first; a page that fails ends it silently.
ReadTags ==
  /\ phase = "tags"
  /\ \E oldest \in 1 .. MaxVersion + 1 :
       \E tag \in LatestProdTag({v \in tags : v >= oldest}) :
         source' = [source EXCEPT !.tag = tag,
                                  !.expected = derive_expected(source.manifest, tag),
                                  !.ahead = source_ahead(source.manifest, tag)]
  /\ tagsThen' = tags
  /\ phase' = "probing"
  /\ UNCHANGED <<world, package, offline, index, cells, rollup, workflow, told>>

Next_i == Len(cells) + 1

Report(i, cell, answer) ==
  /\ phase = "probing" /\ i = Next_i /\ i \in Targets
  /\ cells' = Append(cells, cell)
  /\ told' = Append(told, answer)

\* A target without a flag, with those the inventory gives it, and a planned one.
Plain(status)  == [status |-> status, manual |-> FALSE, planned |-> FALSE]
Manual(i, status) ==
  [status |-> status, manual |-> (package[i].state = "manual"), planned |-> FALSE]
Planned == [status |-> "missing", manual |-> FALSE, planned |-> TRUE]

Unasked == [http |-> "transport", live |-> None, removed |-> FALSE, page |-> FALSE]

\* Excluded and planned targets, and every target of an offline run.
Declare(i) ==
  LET t == package[i]  probeFirst == t.registry \in {"github-release", "pages"} IN
  /\ \/ /\ t.state = "excluded"
        /\ Report(i, Plain("excluded"), Unasked)
     \/ /\ t.state = "planned" /\ ~probeFirst
        /\ Report(i, Planned, Unasked)
     \/ /\ offline /\ probeFirst /\ t.state # "excluded"
        /\ Report(i, Plain("unknown"), Unasked)
     \/ /\ offline /\ ~probeFirst /\ t.state \in {"tracked", "manual"}
        /\ Report(i, Manual(i, "unknown"), Unasked)
  /\ UNCHANGED <<world, package, offline, phase, source, index, rollup, workflow, tagsThen>>

Asks(i, registries) ==
  /\ phase = "probing" /\ i \in Targets /\ ~offline
  /\ package[i].registry \in registries
  /\ package[i].state # "excluded"
  /\ package[i].state = "planned" => package[i].registry \in {"github-release", "pages"}

\* A registry answers from what it serves now, or fails.
Answers(i) ==
  {IF live[i] = None THEN "absent" ELSE "ok"} \cup (Http \ Conclusive)

\* What a collector hands back of a record: its version, or none.
Handed(i, http) == IF http = "ok" THEN live[i] ELSE None

\* CRAN's database keeps the record of a removed package; its page, when it can
\* be read, tells.
Archived(i, page) == page /\ i \in removed

\* Read the Docs serves a site, not a version.
Expected(i) == IF package[i].registry = "readthedocs" THEN None ELSE source.expected

\* Registries with a record of their own.  CRAN is asked twice more: its page says
\* whether the package was removed, and a missing package whose tarball a release
\* carries is pending.  Either question may stay without an answer, and the error
\* of an unread page is dropped.
ProbeVersion(i) ==
  /\ Asks(i, {"pypi", "cran", "readthedocs", "github-release"})
  /\ \E http \in Answers(i), page \in {FALSE, (package[i].registry = "cran")},
        shipped \in {FALSE, tarball} :
       LET registry  == package[i].registry
           published == IF Archived(i, page) THEN None ELSE Handed(i, http)
           verdict   == classify(Expected(i), published, http)
           status    == IF verdict = "missing" /\ registry = "cran" /\ shipped
                        THEN "pending" ELSE verdict
       IN Report(i, IF registry = "github-release" THEN Plain(status) ELSE Manual(i, status),
                 [http |-> http, live |-> live[i], removed |-> i \in removed, page |-> page])
  /\ UNCHANGED <<world, package, offline, phase, source, index, rollup, workflow, tagsThen>>

\* The listing of the universe is fetched once; only a lost connection is retried.
LoadIndex ==
  \/ index.loaded /\ index' = index
  \/ /\ ~index.loaded
     /\ \E http \in Http \ {"absent"} :
          index' = [loaded |-> http # "transport", http |-> http, live |-> live, failing |-> failing]

\* Slip: a package whose build failed is taken for an absent one.
IndexVerdictFlat(i, ix) ==
  IF ix.http # "ok" THEN classify(source.expected, None, ix.http)
  ELSE classify(source.expected, IF i \in ix.failing THEN None ELSE ix.live[i], "ok")

\* The r-universe collector and the verdict of its fact.
IndexVerdict(i, ix) ==
  IF ix.http # "ok" THEN classify(source.expected, None, ix.http)
  ELSE IF i \in ix.failing THEN "broken"
  ELSE classify(source.expected, ix.live[i], IF ix.live[i] = None THEN "absent" ELSE "ok")

ProbeIndex(i) ==
  /\ Asks(i, {"r-universe"})
  /\ LoadIndex
  /\ Report(i, Manual(i, IndexVerdict(i, index')),
            [http |-> IF index'.http = "ok" /\ index'.live[i] = None THEN "absent" ELSE index'.http,
             live |-> index'.live[i], removed |-> FALSE, page |-> FALSE])
  /\ UNCHANGED <<world, package, offline, phase, source, rollup, workflow, tagsThen>>

\* Pages: whatever is not an answer reads as no site.
ProbePages(i) ==
  /\ Asks(i, {"pages"})
  /\ \E http \in Answers(i) :
       Report(i, Plain(IF http # "ok" THEN "missing"
                       ELSE IF i \in failing THEN "broken" ELSE "green"),
              [http |-> http, live |-> live[i], removed |-> FALSE, page |-> FALSE])
  /\ UNCHANGED <<world, package, offline, phase, source, index, rollup, workflow, tagsThen>>

\* The release workflows are read after the targets; then the roll-up.
Finish ==
  /\ phase = "probing" /\ Next_i \notin Targets
  /\ workflow' \in (IF offline THEN {"none"} ELSE {"none", lastRun})
  /\ rollup' \in Rollup(cells)
  /\ phase' = "done"
  /\ UNCHANGED <<world, package, offline, source, index, cells, tagsThen, told>>

Collect ==
  \/ ReadManifest \/ ReadTags \/ Finish
  \/ \E i \in Targets : Declare(i) \/ ProbeVersion(i) \/ ProbeIndex(i) \/ ProbePages(i)

Next == World \/ Collect

Spec == Init /\ [][Next]_vars

-----------------------------------------------------------------------------
\* Types of the world, the collect and its observers.
TypeOK ==
  /\ package \in Inventories
  /\ manifest \in Maybe(Version) /\ tags \subseteq Version
  /\ live \in [Targets -> Maybe(Version)]
  /\ failing \subseteq Targets /\ removed \subseteq Targets
  /\ tarball \in BOOLEAN /\ lastRun \in Runs /\ workflow \in Runs
  /\ offline \in BOOLEAN /\ phase \in {"manifest", "tags", "probing", "done"}
  /\ source \in Source
  /\ index \in [loaded : BOOLEAN, http : Http, live : [Targets -> Maybe(Version)],
                 failing : SUBSET Targets]
  /\ cells \in Seq(Cell) /\ told \in Seq(Told)
  /\ Len(cells) = Len(told) /\ Len(cells) <= Len(package)
  /\ rollup \in States /\ tagsThen \subseteq Version

\* A stale verdict is true: some production tag is newer than what the registry
\* served when it was asked, whatever was tagged and published meanwhile, as
\* long as a production tag could be listed at all.
StaleIsReal ==
  \A i \in DOMAIN cells :
    (cells[i].status = "stale" /\ source.tag # None) =>
      told[i].live # None /\ \E v \in Releases(tags) : v > told[i].live

Versioned(i) == package[i].registry \in {"pypi", "r-universe", "cran", "github-release"}
Counts(i)    == package[i].state \in {"tracked", "planned"}

\* A package rolled up green is released: each of its tracked registries served,
\* when asked, at least every production tag that existed when tags were listed,
\* and CRAN had not removed it unless CRAN's page could not be read.
GreenPackageIsReleased ==
  (phase = "done" /\ rollup = "green" /\ source.tag # None) =>
    \A i \in Targets : (Versioned(i) /\ Counts(i)) =>
      /\ \A v \in Releases(tagsThen) : told[i].live >= v
      /\ told[i].removed => ~told[i].page

\* A target reported as not published although its registry answered was really
\* not served, or was removed by CRAN.
AbsenceIsReal ==
  \A i \in DOMAIN cells :
    (cells[i].status \in {"missing", "pending"} /\ told[i].http \in Conclusive) =>
      told[i].live = None \/ told[i].removed

\* Why: what a cell owes to the registry's answer and to the listed tag, from the
\* probe to the end.
CellTrue(i, cell, answer) ==
  /\ cell.status = "stale" /\ source.tag # None =>
       answer.live # None /\ answer.live < source.tag
  /\ cell.status = "green" /\ Versioned(i) /\ source.tag # None => answer.live >= source.tag
  /\ cell.status = "green" => ~(answer.removed /\ answer.page)
  /\ cell.status \in {"missing", "pending"} /\ answer.http \in Conclusive =>
       answer.live = None \/ answer.removed
  /\ Counts(i) => cell.manual = FALSE /\ cell.status # "excluded"

\* The inductive strengthening of the three properties above.
Sound ==
  /\ source.tag # None =>
       /\ source.expected = source.tag /\ source.tag \in Releases(tags)
       /\ \A v \in Releases(tagsThen) : v <= source.tag
  /\ phase \in {"manifest", "tags"} => source.tag = None /\ cells = <<>>
  /\ index.http # "absent"
  /\ \A i \in DOMAIN cells : CellTrue(i, cells[i], told[i])
  /\ phase = "done" => Len(cells) = Len(package) /\ rollup \in Rollup(cells)

=============================================================================
