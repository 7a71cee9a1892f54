---------------------------- MODULE SourceFacts -----------------------------
(***************************************************************************)
(* The source facts of one package over many collects: the version its     *)
(* manifest declares, its newest production tag, the version expected of   *)
(* the registries, the commit shown and how far it is ahead of the tag.    *)
(* They are read one after the other while people push and tag; a collect  *)
(* that saw nothing on GitHub takes those of the snapshot it found, or of  *)
(* a local clone, without deriving again what depends on them.             *)
(*                                                                         *)
(* Versions are numbers: odd ones are production, even ones prereleases.   *)
(***************************************************************************)
EXTENDS Integers, Sequences

CONSTANTS
  MaxVersion,    \* bound: newest version ever declared
  MaxCommits,    \* bound: commits of the default branch
  MaxCollects    \* bound: collects in a behaviour

ASSUME SourceFactsAssumption ==
  MaxVersion \in Nat \ {0} /\ MaxCommits \in Nat \ {0} /\ MaxCollects \in Nat

VARIABLES
  clock,      \* the newest collect
  branch,     \* the version each commit of the default branch declares
  tags,       \* the commit each version is tagged at, or 0
  milestone,  \* the commit of the coordination tag, or 0
  clone,      \* what the local clone fetched, and when it did
  run,        \* the facts the running collect has read, or Idle
  published   \* the source facts of the snapshot on disk

world == <<branch, tags, milestone, clone>>
vars == <<clock, world, run, published>>

-----------------------------------------------------------------------------
Version == 1 .. MaxVersion
Commit == 1 .. MaxCommits
None == 0
NoCount == -1
IsProduction(v) == v % 2 = 1

Latest == Len(branch)
Tagged == {v \in Version : tags[v] # 0}
Larger(a, b) == IF a >= b THEN a ELSE b

\* `release` stands for the newest tag of any kind and for the dates, that of the
\* latest release among them.  Two observers say where the tag comes from: `of` is
\* the manifest it was read beside, `cut` that its listing missed other tags.
Source == [manifest_version : Version \cup {None}, latest_prod_tag : Version \cup {None},
           expected_prod_version : Version \cup {None}, source_ahead : BOOLEAN,
           release : BOOLEAN, commit : Commit \cup {None}, commits_ahead : 0 .. MaxCommits \cup {NoCount},
           of : Version \cup {None}, cut : BOOLEAN]

\* A source that only knows its manifest; nothing at all.
OnlyManifest(mf) ==
  [manifest_version |-> mf, latest_prod_tag |-> None, expected_prod_version |-> mf,
   source_ahead |-> FALSE, release |-> FALSE, commit |-> None, commits_ahead |-> NoCount, of |-> mf,
   cut |-> FALSE]

NoSource == OnlyManifest(None)

\* `ref` is what the commits will be counted up to: the branch or the milestone.
Running(step, source, ref) == [step |-> step, source |-> source, ref |-> ref]
Idle == Running("idle", NoSource, "branch")

Init ==
  /\ clock = 0 /\ published = NoSource /\ run = Idle
  /\ branch = <<1>> /\ milestone = 0
  /\ tags \in {[v \in Version |-> 0], [v \in Version |-> IF v = 1 THEN 1 ELSE 0]}
  /\ clone = [head |-> 1, tags |-> {}]

-----------------------------------------------------------------------------
\* The maintainers commit, tag what the head declares or the milestone, and fetch.
Push ==
  /\ Latest < MaxCommits
  /\ \E v \in branch[Latest] .. MaxVersion : branch' = Append(branch, v)
  /\ UNCHANGED <<clock, tags, milestone, clone, run, published>>

Tag ==
  /\ tags[branch[Latest]] = 0 /\ tags' = [tags EXCEPT ![branch[Latest]] = Latest]
  /\ UNCHANGED <<clock, branch, milestone, clone, run, published>>

TagMilestone ==
  /\ milestone = 0 /\ milestone' = Latest
  /\ UNCHANGED <<clock, branch, tags, clone, run, published>>

Fetch ==
  /\ clone' = [head |-> Latest, tags |-> Tagged]
  /\ UNCHANGED <<clock, branch, tags, milestone, run, published>>

-----------------------------------------------------------------------------
derive_expected(mf, tag) == IF tag # None THEN tag ELSE mf

ahead(mf, tag) == mf # None /\ tag # None /\ mf > tag

\* _latest_prod_tag: the newest production tag of those listed.
Newest(listed) ==
  LET production == {v \in listed : IsProduction(v)}
  IN  IF production = {} THEN {None}
      ELSE {v \in production : \A w \in production : w <= v}

\* Offline nothing is read, not even the manifest.  Online it comes from the
\* head, or from a checkout that lags, or from nowhere.
ReadManifest ==
  /\ run.step = "idle" /\ clock < MaxCollects /\ clock' = clock + 1
  /\ \/ run' = Running("write", NoSource, "branch")
     \/ \E mf \in {branch[c] : c \in 1 .. Latest} \cup {None} :
          run' = Running("tags", OnlyManifest(mf), "branch")
  /\ UNCHANGED <<world, published>>

\* A page that fails ends the listing, and what came before it is taken for all
\* there is: everything, some of the tags, or none.  A coordination tag that was
\* listed counts until a release covers what the manifest declares.
ReadTags ==
  /\ run.step = "tags"
  /\ \E listed \in SUBSET Tagged, coordination \in BOOLEAN :
       \E tag \in Newest(listed) :
         LET mf == run.source.manifest_version
             covered == mf # None /\ tag # None /\ tag >= mf
             ref == IF coordination /\ ~covered THEN "milestone" ELSE "branch"
         IN  /\ coordination => milestone # 0
             /\ run' = Running("commit",
                  [run.source EXCEPT !.latest_prod_tag = tag, !.source_ahead = ahead(mf, tag),
                                     !.expected_prod_version = derive_expected(mf, tag),
                                     !.release = (listed # {} \/ ref = "milestone"),
                                     !.cut = (tag # None /\ listed # Tagged)], ref)
  /\ UNCHANGED <<clock, world, published>>

\* latest_release; commit_fact of the milestone, else default_branch_commit.  Each may fail.
ReadCommit ==
  /\ run.step = "commit"
  /\ \E release \in BOOLEAN, ref \in {"branch", run.ref} :
       \E c \in (IF ref = "milestone" THEN {milestone} ELSE {Latest, None}) :
         run' = Running("compare", [run.source EXCEPT !.release = @ \/ release, !.commit = c], ref)
  /\ UNCHANGED <<clock, world, published>>

\* commits_ahead: the comparison is with the branch by name, as it is by now.
Compare ==
  /\ run.step = "compare"
  /\ \E counted \in BOOLEAN :
       LET tag == run.source.latest_prod_tag
           upto == IF run.ref = "milestone" THEN milestone ELSE Latest
           source == IF counted /\ tag # None
                       THEN [run.source EXCEPT !.commits_ahead = Larger(0, upto - tags[tag])]
                       ELSE run.source
       IN  run' = Running("write", source, run.ref)
  /\ UNCHANGED <<clock, world, published>>

-----------------------------------------------------------------------------
\* Slip: a source without a tag is missing its GitHub facts.
MissingTag(s) == s.latest_prod_tag = None

\* _source_missing_github_facts
Missing(s) == s.latest_prod_tag = None /\ ~s.release /\ s.commit = None /\ s.commits_ahead = NoCount

\* Slip: the tag is taken whatever the manifest was.
SameAlways(s) == TRUE

Same(s) == s.manifest_version = published.manifest_version

\* The fields of the prior source that this one lacks.
Carry(s) ==
  LET tagged == s.latest_prod_tag = None /\ published.latest_prod_tag # None
  IN  [s EXCEPT !.latest_prod_tag = IF tagged THEN published.latest_prod_tag ELSE @,
                !.of = IF tagged THEN published.of ELSE @,
                !.cut = IF tagged THEN published.cut ELSE @,
                !.release = @ \/ published.release,
                !.commit = IF @ = None THEN published.commit ELSE @,
                !.commits_ahead = IF @ = NoCount THEN published.commits_ahead ELSE @]

\* _local_git_source_facts: the tag of the clone that names the manifest's version.
Local(s) ==
  IF s.manifest_version \in clone.tags
    THEN [s EXCEPT !.latest_prod_tag = s.manifest_version,
                   !.expected_prod_version = s.manifest_version, !.of = s.manifest_version,
                   !.release = TRUE, !.commit = clone.head,
                   !.commits_ahead = clone.head - tags[s.manifest_version]]
    ELSE s

\* Slip: the clone is asked before the prior snapshot.
RecoveredLocally(s) ==
  IF clock = 1 \/ ~Missing(s) THEN s
  ELSE IF Same(s) /\ s.manifest_version \notin clone.tags THEN Carry(s) ELSE Local(s)

\* Before the first snapshot there is nothing to carry and no fallback either.
Recovered(s) ==
  IF clock = 1 \/ ~Missing(s) THEN s
  ELSE IF Same(s) THEN Carry(s) ELSE Local(s)

Write ==
  /\ run.step = "write"
  /\ published' = Recovered(run.source) /\ run' = Idle
  /\ UNCHANGED <<clock, world>>

Next ==
  \/ Push \/ Tag \/ TagMilestone \/ Fetch
  \/ ReadManifest \/ ReadTags \/ ReadCommit \/ Compare \/ Write

Spec == Init /\ [][Next]_vars

-----------------------------------------------------------------------------
\* Types of every variable.
TypeOK ==
  /\ clock \in 0 .. MaxCollects
  /\ branch \in Seq(Version) /\ Latest \in Commit
  /\ tags \in [Version -> 0 .. MaxCommits] /\ milestone \in 0 .. MaxCommits
  /\ clone \in [head : Commit, tags : SUBSET Version]
  /\ run \in [step : {"idle", "tags", "commit", "compare", "write"}, source : Source,
              ref : {"branch", "milestone"}]
  /\ published \in Source

\* A tag, however many collects carried it, was read beside the very manifest
\* version it is published with: no release is shown against another's source.
TagBelongsToManifest ==
  published.latest_prod_tag # None => published.of = published.manifest_version

\* While the manifest says the same, a production tag gives way to an older one only
\* in a collect whose own listing was cut short: neither a collect that saw nothing,
\* nor a clone that lags, nor any chain of carries takes it back, and the next whole
\* listing makes up for a cut one.
TagGoesBackOnlyWhenCut ==
  [][(/\ published'.manifest_version = published.manifest_version
      /\ IsProduction(published.latest_prod_tag)
      /\ published'.latest_prod_tag # None
      /\ published'.latest_prod_tag < published.latest_prod_tag)
        => run.source.cut /\ published'.latest_prod_tag = run.source.latest_prod_tag]_vars

\* The commit shown and the count beside it are two reads, and the count is by
\* name: it includes every commit between the tag and the commit shown, whatever
\* is pushed meanwhile, and none that nobody had pushed.
CountReachesTheCommit ==
  (published.commits_ahead # NoCount /\ published.commit # None) =>
    LET from == tags[published.latest_prod_tag]
    IN  /\ published.commits_ahead >= published.commit - from
        /\ published.commits_ahead <= Larger(0, Latest - from)

=============================================================================
