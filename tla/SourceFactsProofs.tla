------------------------- MODULE SourceFactsProofs --------------------------
(***************************************************************************)
(* For any number of versions, commits and collects: a tag stays with its  *)
(* manifest and goes back only with a listing cut short, and the commit    *)
(* shown is within the count.                                              *)
(***************************************************************************)
EXTENDS SourceFacts, TLAPS

\* What people have done.
WorldInv ==
  /\ branch \in Seq(Version) /\ Latest \in 1 .. MaxCommits
  /\ tags \in [Version -> 0 .. Latest] /\ milestone \in 0 .. Latest
  /\ clone \in [head : 1 .. Latest, tags : SUBSET Version]
  /\ \A v \in clone.tags : tags[v] \in 1 .. clone.head

\* A source is true of tags tg and of a branch of n commits.
Facts(s, tg, n) ==
  /\ s \in Source /\ s.commit <= n
  /\ s.latest_prod_tag # None => /\ s.of = s.manifest_version
                                 /\ tg[s.latest_prod_tag] \in 1 .. n
  /\ s.commits_ahead # NoCount =>
       /\ s.latest_prod_tag # None
       /\ s.commits_ahead <= Larger(0, n - tg[s.latest_prod_tag])
       /\ s.commit # None => s.commits_ahead >= s.commit - tg[s.latest_prod_tag]

\* What the running collect has read so far, and that its tag is no older than
\* the published one, unless its listing was cut short.
ProgressInv ==
  /\ run \in [step : {"idle", "tags", "commit", "compare", "write"}, source : Source,
              ref : {"branch", "milestone"}]
  /\ run.source.of = run.source.manifest_version
  /\ run.step \in {"idle", "tags"} => run.source.latest_prod_tag = None
  /\ run.step \in {"idle", "tags", "commit"} => run.source.commit = None
  /\ run.step # "write" => run.source.commits_ahead = NoCount

MilestoneInv ==
  run.ref = "milestone" =>
    milestone # 0 /\ (run.step = "compare" => run.source.commit = milestone)

TagInv ==
  (run.source.latest_prod_tag # None /\ ~run.source.cut /\ IsProduction(published.latest_prod_tag)) =>
     run.source.latest_prod_tag >= published.latest_prod_tag

Inv ==
  /\ WorldInv /\ ProgressInv /\ MilestoneInv /\ TagInv
  /\ Facts(run.source, tags, Latest) /\ Facts(published, tags, Latest)

-----------------------------------------------------------------------------
\* Tags stay and the branch grows: what was true of them stays true.
LEMMA FactsStay ==
  ASSUME NEW s, NEW n \in Nat, NEW m \in Nat, n <= m,
         NEW tg \in [Version -> 0 .. n], NEW th \in [Version -> 0 .. m],
         \A v \in Version : tg[v] # 0 => th[v] = tg[v],
         Facts(s, tg, n)
  PROVE  Facts(s, th, m)
<1>1. /\ s \in Source /\ s.commit \in Commit \cup {None} /\ s.commit <= n
      /\ s.latest_prod_tag \in Version \cup {None}
      /\ s.commits_ahead \in 0 .. MaxCommits \cup {NoCount}
  BY DEF Facts, Source
<1>2. MaxCommits \in Nat
  BY SourceFactsAssumption
<1>3. CASE s.latest_prod_tag = None
  BY <1>1, <1>2, <1>3 DEF Facts, Commit, None
<1>4. CASE s.latest_prod_tag # None
  <2>1. s.latest_prod_tag \in Version /\ tg[s.latest_prod_tag] \in 1 .. n
    BY <1>1, <1>4 DEF Facts
  <2>2. th[s.latest_prod_tag] = tg[s.latest_prod_tag]
    BY <2>1
  <2>3. s.commits_ahead # NoCount =>
          /\ s.commits_ahead <= Larger(0, n - tg[s.latest_prod_tag])
          /\ s.commit # None => s.commits_ahead >= s.commit - tg[s.latest_prod_tag]
    BY DEF Facts
  <2>4. Larger(0, n - tg[s.latest_prod_tag]) <= Larger(0, m - tg[s.latest_prod_tag])
    BY <2>1 DEF Larger
  <2>5. Larger(0, n - tg[s.latest_prod_tag]) \in Nat /\ Larger(0, m - tg[s.latest_prod_tag]) \in Nat
    BY <2>1 DEF Larger
  <2>6. s.commits_ahead # NoCount => s.commits_ahead <= Larger(0, m - tg[s.latest_prod_tag])
    BY <1>1, <1>2, <2>3, <2>4, <2>5
  <2>7. s.of = s.manifest_version /\ s.commit <= m /\ th[s.latest_prod_tag] \in 1 .. m
    BY <1>1, <1>2, <1>4, <2>1, <2>2 DEF Facts, Commit, None
  <2>8. QED
    BY <1>1, <1>4, <2>2, <2>3, <2>6, <2>7 DEF Facts
<1>5. QED
  BY <1>3, <1>4

\* What people do: only the world changes, and only forward.
Forward ==
  /\ WorldInv' /\ Latest <= Latest'
  /\ \A v \in Version : tags[v] # 0 => tags'[v] = tags[v]
  /\ milestone # 0 => milestone' = milestone

LEMMA PeopleGoForward ==
  ASSUME WorldInv, Push \/ Tag \/ TagMilestone \/ Fetch
  PROVE  Forward /\ UNCHANGED <<run, published>>
<1>0. /\ Latest \in Nat /\ Latest >= 1 /\ Latest <= MaxCommits /\ MaxCommits \in Nat
      /\ branch \in Seq(Version) /\ branch[Latest] \in Version
      /\ tags \in [Version -> 0 .. Latest] /\ milestone \in 0 .. Latest
      /\ clone \in [head : 1 .. Latest, tags : SUBSET Version]
      /\ \A v \in clone.tags : tags[v] \in 1 .. clone.head
  BY SourceFactsAssumption DEF WorldInv, Latest
<1>1. CASE Push
  <2>1. PICK v \in branch[Latest] .. MaxVersion : branch' = Append(branch, v)
    BY <1>1 DEF Push
  <2>2. v \in Version
    BY <1>0, <2>1, SourceFactsAssumption DEF Version
  <2>3. branch' \in Seq(Version) /\ Latest' = Latest + 1
    BY <1>0, <2>1, <2>2 DEF Latest
  <2>4. Latest < MaxCommits /\ UNCHANGED <<tags, milestone, clone, run, published>>
    BY <1>1 DEF Push
  <2>5. 0 .. Latest \subseteq 0 .. Latest' /\ 1 .. Latest \subseteq 1 .. Latest' /\ Latest' \in 1 .. MaxCommits
    BY <1>0, <2>3, <2>4
  <2>6. tags' \in [Version -> 0 .. Latest'] /\ milestone' \in 0 .. Latest'
        /\ clone' \in [head : 1 .. Latest', tags : SUBSET Version]
    BY <1>0, <2>4, <2>5
  <2>7. \A w \in clone'.tags : tags'[w] \in 1 .. clone'.head
    BY <1>0, <2>4
  <2>8. QED
    BY <1>0, <2>3, <2>4, <2>5, <2>6, <2>7 DEF Forward, WorldInv
<1>2. CASE Tag
  <2>1. /\ tags[branch[Latest]] = 0 /\ tags' = [tags EXCEPT ![branch[Latest]] = Latest]
        /\ UNCHANGED <<branch, milestone, clone, run, published>>
    BY <1>2 DEF Tag
  <2>2. Latest' = Latest
    BY <2>1 DEF Latest
  <2>3. tags' \in [Version -> 0 .. Latest]
    BY <1>0, <2>1
  <2>4. \A v \in Version : tags[v] # 0 => tags'[v] = tags[v]
    BY <1>0, <2>1
  <2>5. \A w \in clone.tags : tags'[w] \in 1 .. clone.head
    BY <1>0, <2>4
  <2>6. QED
    BY <1>0, <2>1, <2>2, <2>3, <2>4, <2>5 DEF Forward, WorldInv
<1>3. CASE TagMilestone
  BY <1>0, <1>3 DEF TagMilestone, Forward, WorldInv, Latest
<1>4. CASE Fetch
  <2>1. clone' = [head |-> Latest, tags |-> Tagged] /\ UNCHANGED <<branch, tags, milestone, run, published>>
    BY <1>4 DEF Fetch
  <2>2. Latest' = Latest
    BY <2>1 DEF Latest
  <2>3. Tagged \subseteq Version /\ \A v \in Tagged : tags[v] \in 1 .. Latest
    BY <1>0 DEF Tagged
  <2>4. clone' \in [head : 1 .. Latest, tags : SUBSET Version]
    BY <1>0, <2>1, <2>3
  <2>5. \A v \in clone'.tags : tags'[v] \in 1 .. clone'.head
    BY <2>1, <2>3
  <2>6. QED
    BY <1>0, <2>1, <2>2, <2>4, <2>5 DEF Forward, WorldInv
<1>5. QED
  BY <1>1, <1>2, <1>3, <1>4

\* What is read does not touch the world.
LEMMA ReadingStays ==
  ASSUME Inv, UNCHANGED <<world, published>>
  PROVE  WorldInv' /\ Facts(published', tags', Latest') /\ tags' = tags /\ Latest' = Latest /\ milestone' = milestone
<1>1. UNCHANGED <<branch, tags, milestone, clone>>
  BY DEF world
<1>2. Latest' = Latest
  BY <1>1 DEF Latest
<1>3. QED
  BY <1>1, <1>2 DEF Inv, WorldInv

\* What was listed is tagged; from a whole listing, no production tag is newer.
LEMMA NewestIsNewest ==
  ASSUME WorldInv, NEW listed \in SUBSET Tagged, NEW tag \in Newest(listed)
  PROVE  /\ tag \in Version \cup {None}
         /\ tag # None => tags[tag] \in 1 .. Latest
         /\ \A v \in Version :
              (tag # None /\ listed = Tagged /\ IsProduction(v) /\ tags[v] # 0) => v <= tag
<1>1. CASE tag = None
  BY <1>1
<1>2. CASE tag # None
  <2>1. tag \in listed /\ \A w \in {v \in listed : IsProduction(v)} : w <= tag
    BY <1>2 DEF Newest
  <2>2. tag \in Version /\ tags[tag] # 0 /\ tags[tag] \in 0 .. Latest
    BY <2>1 DEF Tagged, WorldInv
  <2>3. Latest \in Nat
    BY SourceFactsAssumption DEF WorldInv
  <2>4. tags[tag] \in 1 .. Latest
    BY <2>2, <2>3
  <2>5. QED
    BY <2>1, <2>2, <2>4 DEF Tagged
<1>3. QED
  BY <1>1, <1>2

-----------------------------------------------------------------------------
\* A source that only knows its manifest.
LEMMA OnlyManifestFacts ==
  ASSUME NEW mf \in Version \cup {None}, NEW tg, NEW n \in Nat
  PROVE  OnlyManifest(mf) \in Source /\ Facts(OnlyManifest(mf), tg, n)
<1>1. OnlyManifest(mf) \in Source
  BY DEF OnlyManifest, Source
<1>2. QED
  BY <1>1 DEF OnlyManifest, Facts, None, NoCount

\* What a run that has just begun, or just ended, satisfies.
LEMMA Began ==
  ASSUME NEW mf \in Version \cup {None}, NEW step \in {"idle", "tags", "write"},
         run' = Running(step, OnlyManifest(mf), "branch"), Latest' \in Nat
  PROVE  ProgressInv' /\ MilestoneInv' /\ TagInv' /\ Facts(run'.source, tags', Latest')
<1>1. /\ run'.source = OnlyManifest(mf) /\ run'.step = step /\ run'.ref = "branch"
      /\ run' = [step |-> step, source |-> OnlyManifest(mf), ref |-> "branch"]
  BY DEF Running
<1>2. OnlyManifest(mf) \in Source /\ Facts(OnlyManifest(mf), tags', Latest')
  BY OnlyManifestFacts
<1>3. /\ run'.source.of = run'.source.manifest_version /\ run'.source.latest_prod_tag = None
      /\ run'.source.commit = None /\ run'.source.commits_ahead = NoCount
  BY <1>1 DEF OnlyManifest
<1>4. QED
  BY <1>1, <1>2, <1>3 DEF ProgressInv, MilestoneInv, TagInv

LEMMA ReadManifestStep == ASSUME Inv, ReadManifest PROVE Inv'
<1>0. UNCHANGED <<world, published>>
  BY DEF ReadManifest
<1>1. WorldInv' /\ Facts(published', tags', Latest') /\ Latest' = Latest
  BY <1>0, ReadingStays
<1>2. Latest' \in Nat
  BY <1>1, SourceFactsAssumption DEF WorldInv
<1>3. PICK mf \in Version \cup {None}, step \in {"tags", "write"} :
        run' = Running(step, OnlyManifest(mf), "branch")
  <2>1. {branch[c] : c \in 1 .. Latest} \subseteq Version
    BY DEF Inv, WorldInv, Latest
  <2>2. QED
    BY <2>1 DEF ReadManifest, NoSource
<1>4. ProgressInv' /\ MilestoneInv' /\ TagInv' /\ Facts(run'.source, tags', Latest')
  BY <1>2, <1>3, Began
<1>5. QED
  BY <1>1, <1>4 DEF Inv

LEMMA ReadTagsStep == ASSUME Inv, ReadTags PROVE Inv'
<1>0. UNCHANGED <<world, published>> /\ run.step = "tags"
  BY DEF ReadTags
<1>1. /\ WorldInv' /\ Facts(published', tags', Latest') /\ Latest' = Latest
      /\ tags' = tags /\ milestone' = milestone
  BY <1>0, ReadingStays
<1> DEFINE mf == run.source.manifest_version
           Read(tag, seen, cut) ==
             [run.source EXCEPT !.latest_prod_tag = tag, !.source_ahead = ahead(mf, tag),
                                !.expected_prod_version = derive_expected(mf, tag),
                                !.release = seen, !.cut = cut]
<1>2. PICK listed \in SUBSET Tagged, coordination \in BOOLEAN :
        \E tag \in Newest(listed) :
          LET covered == mf # None /\ tag # None /\ tag >= mf
              ref == IF coordination /\ ~covered THEN "milestone" ELSE "branch"
          IN  /\ coordination => milestone # 0
              /\ run' = Running("commit",
                   Read(tag, listed # {} \/ ref = "milestone", tag # None /\ listed # Tagged), ref)
  BY DEF ReadTags
<1>2a. PICK tag \in Newest(listed) :
          LET covered == mf # None /\ tag # None /\ tag >= mf
              ref == IF coordination /\ ~covered THEN "milestone" ELSE "branch"
          IN  /\ coordination => milestone # 0
              /\ run' = Running("commit",
                   Read(tag, listed # {} \/ ref = "milestone", tag # None /\ listed # Tagged), ref)
  BY <1>2
<1> DEFINE covered == mf # None /\ tag # None /\ tag >= mf
           ref == IF coordination /\ ~covered THEN "milestone" ELSE "branch"
           seen == listed # {} \/ ref = "milestone"
           cut == tag # None /\ listed # Tagged
<1>2b. /\ run' = Running("commit", Read(tag, seen, cut), ref)
       /\ ref \in {"branch", "milestone"} /\ (ref = "milestone" => milestone # 0)
       /\ seen \in BOOLEAN /\ cut \in BOOLEAN /\ (tag # None /\ ~cut => listed = Tagged)
  BY <1>2a
<1> HIDE DEF seen, cut, ref, covered
<1>3. /\ tag \in Version \cup {None} /\ (tag # None => tags[tag] \in 1 .. Latest)
      /\ \A v \in Version : (tag # None /\ listed = Tagged /\ IsProduction(v) /\ tags[v] # 0) => v <= tag
  BY NewestIsNewest DEF Inv
<1> DEFINE now == Read(tag, seen, cut)
<1>4. /\ run.source \in Source /\ mf \in Version \cup {None} /\ run.source.of = mf
      /\ run.source.commit = None /\ run.source.commits_ahead = NoCount
  BY <1>0 DEF Inv, ProgressInv, Source
<1>5. /\ now \in Source /\ now.of = mf /\ now.manifest_version = mf
      /\ now.latest_prod_tag = tag /\ now.cut = cut /\ now.commit = None
      /\ now.commits_ahead = NoCount
  <2>1. ahead(mf, tag) \in BOOLEAN /\ derive_expected(mf, tag) \in Version \cup {None}
    BY <1>3, <1>4 DEF ahead, derive_expected
  <2>2. QED
    BY <1>2b, <1>3, <1>4, <2>1 DEF Source
<1> HIDE DEF now, mf
<1>6. /\ run'.source = now /\ run'.step = "commit" /\ run'.ref = ref
      /\ run' = [step |-> "commit", source |-> now, ref |-> ref]
  BY <1>2b DEF Running, now
<1>7. Facts(run'.source, tags', Latest')
  <2>1. Latest \in Nat
    BY SourceFactsAssumption DEF Inv, WorldInv
  <2>2. QED
    BY <1>1, <1>3, <1>5, <1>6, <2>1 DEF Facts, None
<1>8. ProgressInv' /\ MilestoneInv'
  BY <1>1, <1>2b, <1>5, <1>6 DEF ProgressInv, MilestoneInv
<1>9. TagInv'
  <2> SUFFICES ASSUME tag # None, ~cut, IsProduction(published.latest_prod_tag)
               PROVE  tag >= published.latest_prod_tag
    BY <1>0, <1>5, <1>6 DEF TagInv
  <2>1. published.latest_prod_tag # None
    BY DEF IsProduction, None
  <2>2. published.latest_prod_tag \in Version /\ tags[published.latest_prod_tag] \in 1 .. Latest
    BY <2>1 DEF Inv, Facts, Source
  <2>3. tags[published.latest_prod_tag] # 0
    BY <2>2
  <2>4. published.latest_prod_tag <= tag
    BY <1>2b, <1>3, <2>2, <2>3
  <2>5. QED
    BY <1>3, <2>2, <2>4, SourceFactsAssumption DEF Version, None
<1>10. QED
  BY <1>1, <1>7, <1>8, <1>9 DEF Inv

LEMMA ReadCommitStep == ASSUME Inv, ReadCommit PROVE Inv'
<1>0. UNCHANGED <<world, published>> /\ run.step = "commit"
  BY DEF ReadCommit
<1>1. /\ WorldInv' /\ Facts(published', tags', Latest') /\ Latest' = Latest
      /\ tags' = tags /\ milestone' = milestone
  BY <1>0, ReadingStays
<1>2. Latest \in Nat /\ Latest \in Commit /\ milestone \in 0 .. Latest /\ Latest <= MaxCommits
  BY SourceFactsAssumption DEF Inv, WorldInv, Commit
<1> DEFINE Read(release, c) == [run.source EXCEPT !.release = @ \/ release, !.commit = c]
<1>3. PICK release \in BOOLEAN, ref \in {"branch", run.ref} :
        \E c \in (IF ref = "milestone" THEN {milestone} ELSE {Latest, None}) :
          run' = Running("compare", Read(release, c), ref)
  BY DEF ReadCommit
<1>3a. PICK c \in (IF ref = "milestone" THEN {milestone} ELSE {Latest, None}) :
         run' = Running("compare", Read(release, c), ref)
  BY <1>3
<1>4. ref \in {"branch", "milestone"} /\ c \in Commit \cup {None} /\ c <= Latest
      /\ (ref = "milestone" => c = milestone /\ milestone # 0)
  <2>0. run.ref \in {"branch", "milestone"}
    BY DEF Inv, ProgressInv
  <2>1. CASE ref = "milestone"
    <3>1. c = milestone /\ milestone # 0
      BY <1>3a, <2>1 DEF Inv, MilestoneInv
    <3>2. milestone \in Commit /\ milestone <= Latest
      BY <1>2, <3>1, SourceFactsAssumption DEF Commit
    <3>3. QED
      BY <2>0, <2>1, <3>1, <3>2
  <2>2. CASE ref # "milestone"
    BY <1>2, <1>3a, <2>0, <2>2 DEF None
  <2>3. QED
    BY <2>1, <2>2
<1>5. /\ run.source \in Source /\ run.source.of = run.source.manifest_version
      /\ run.source.commits_ahead = NoCount
  BY <1>0 DEF Inv, ProgressInv
<1>6. /\ Read(release, c) \in Source
      /\ Read(release, c).of = run.source.manifest_version
      /\ Read(release, c).manifest_version = run.source.manifest_version
      /\ Read(release, c).latest_prod_tag = run.source.latest_prod_tag
      /\ Read(release, c).cut = run.source.cut
      /\ Read(release, c).commit = c /\ Read(release, c).commits_ahead = NoCount
  BY <1>4, <1>5 DEF Source
<1> HIDE DEF Read
<1>7. /\ run'.source = Read(release, c) /\ run'.step = "compare" /\ run'.ref = ref
      /\ run' = [step |-> "compare", source |-> Read(release, c), ref |-> ref]
  BY <1>3a DEF Running
<1>8. Facts(run'.source, tags', Latest')
  BY <1>1, <1>4, <1>6, <1>7 DEF Inv, Facts
<1>9. ProgressInv' /\ MilestoneInv' /\ TagInv'
  BY <1>0, <1>1, <1>4, <1>6, <1>7 DEF Inv, ProgressInv, MilestoneInv, TagInv
<1>10. QED
  BY <1>1, <1>8, <1>9 DEF Inv

\* The count, whenever it is taken, reaches the commit shown and no further
\* than the branch.
LEMMA CompareStep == ASSUME Inv, Compare PROVE Inv'
<1>0. UNCHANGED <<world, published>> /\ run.step = "compare"
  BY DEF Compare
<1>1. /\ WorldInv' /\ Facts(published', tags', Latest') /\ Latest' = Latest
      /\ tags' = tags /\ milestone' = milestone
  BY <1>0, ReadingStays
<1>2. Latest \in Nat /\ Latest <= MaxCommits /\ MaxCommits \in Nat /\ milestone \in 0 .. Latest
  BY SourceFactsAssumption DEF Inv, WorldInv
<1> DEFINE tag == run.source.latest_prod_tag
           upto == IF run.ref = "milestone" THEN milestone ELSE Latest
           Count == Larger(0, upto - tags[tag])
           Counted == [run.source EXCEPT !.commits_ahead = Count]
<1>3. /\ run.source \in Source /\ run.source.of = run.source.manifest_version
      /\ run.ref \in {"branch", "milestone"}
      /\ Facts(run.source, tags, Latest)
  BY DEF Inv, ProgressInv
<1>4. CASE run' = Running("write", run.source, run.ref)
  <2>1. /\ run'.source = run.source /\ run'.step = "write" /\ run'.ref = run.ref
        /\ run' = [step |-> "write", source |-> run.source, ref |-> run.ref]
    BY <1>4 DEF Running
  <2>2. Facts(run'.source, tags', Latest')
    BY <1>1, <1>3, <2>1
  <2>3. ProgressInv' /\ MilestoneInv' /\ TagInv'
    BY <1>0, <1>1, <1>3, <2>1 DEF Inv, ProgressInv, MilestoneInv, TagInv
  <2>4. QED
    BY <1>1, <2>2, <2>3 DEF Inv
<1>5. CASE run' # Running("write", run.source, run.ref)
  <2>1. tag # None /\ run' = Running("write", Counted, run.ref)
    BY <1>5 DEF Compare
  <2>2. tag \in Version /\ tags[tag] \in 1 .. Latest
    BY <1>3, <2>1 DEF Facts, Source
  <2>3. upto \in 0 .. Latest /\ run.source.commit <= upto
    <3>1. CASE run.ref = "milestone"
      <4>1. run.source.commit = milestone
        BY <1>0, <3>1 DEF Inv, MilestoneInv
      <4>2. QED
        BY <1>2, <3>1, <4>1
    <3>2. CASE run.ref # "milestone"
      BY <1>2, <1>3, <3>2 DEF Facts
    <3>3. QED
      BY <3>1, <3>2
  <2>4. run.source.commit \in Nat
    BY <1>3 DEF Source, Commit, None
  <2> HIDE DEF upto, tag
  <2>5. /\ Count \in 0 .. MaxCommits /\ Count <= Larger(0, Latest - tags[tag])
        /\ Count >= run.source.commit - tags[tag]
    BY <1>2, <2>2, <2>3, <2>4 DEF Larger
  <2> HIDE DEF Count
  <2>6. /\ Counted \in Source /\ Counted.of = run.source.manifest_version
        /\ Counted.manifest_version = run.source.manifest_version
        /\ Counted.latest_prod_tag = tag /\ Counted.cut = run.source.cut
        /\ Counted.commit = run.source.commit /\ Counted.commits_ahead = Count
    BY <1>3, <2>5 DEF Source, tag
  <2> HIDE DEF Counted
  <2>7. /\ run'.source = Counted /\ run'.step = "write" /\ run'.ref = run.ref
        /\ run' = [step |-> "write", source |-> Counted, ref |-> run.ref]
    BY <2>1 DEF Running
  <2>8. Facts(run'.source, tags', Latest')
    BY <1>1, <1>3, <2>1, <2>2, <2>5, <2>6, <2>7 DEF Facts
  <2>9. ProgressInv' /\ MilestoneInv' /\ TagInv'
    BY <1>0, <1>1, <1>3, <2>6, <2>7 DEF Inv, ProgressInv, MilestoneInv, TagInv, tag
  <2>10. QED
    BY <1>1, <2>8, <2>9 DEF Inv
<1>6. QED
  BY <1>4, <1>5

\* The step TagGoesBackOnlyWhenCut speaks of.
NotBack ==
  (/\ published'.manifest_version = published.manifest_version
   /\ IsProduction(published.latest_prod_tag)
   /\ published'.latest_prod_tag # None
   /\ published'.latest_prod_tag < published.latest_prod_tag)
     => run.source.cut /\ published'.latest_prod_tag = run.source.latest_prod_tag

\* The prior snapshot's facts are carried all together.
LEMMA CarryFacts ==
  ASSUME NEW s, NEW n \in Nat, NEW tg, NEW u,
         Facts(s, tg, n), s.of = s.manifest_version, Facts(published, tg, n),
         Missing(s), Same(s), u = Carry(s)
  PROVE  /\ Facts(u, tg, n) /\ u.latest_prod_tag = published.latest_prod_tag
<1>1. s \in Source /\ published \in Source
  BY DEF Facts
<1>2. s.latest_prod_tag = None /\ s.commit = None /\ s.commits_ahead = NoCount
  BY DEF Missing
<1>3. /\ u.manifest_version = s.manifest_version /\ u.latest_prod_tag = published.latest_prod_tag
      /\ u.of = (IF published.latest_prod_tag # None THEN published.of ELSE s.of)
      /\ u.commit = published.commit /\ u.commits_ahead = published.commits_ahead
      /\ u \in Source
  <2> DEFINE of == IF published.latest_prod_tag # None THEN published.of ELSE s.of
             cut == IF published.latest_prod_tag # None THEN published.cut ELSE s.cut
             release == s.release \/ published.release
             t == [s EXCEPT !.latest_prod_tag = published.latest_prod_tag, !.of = of, !.cut = cut,
                            !.release = release, !.commit = published.commit,
                            !.commits_ahead = published.commits_ahead]
  <2>1. u = t
    BY <1>2 DEF Carry
  <2>2. release \in BOOLEAN /\ cut \in BOOLEAN /\ of \in Version \cup {None}
    BY <1>1 DEF Source
  <2>3. /\ published.latest_prod_tag \in Version \cup {None} /\ published.commit \in Commit \cup {None}
        /\ published.commits_ahead \in 0 .. MaxCommits \cup {NoCount}
    BY <1>1 DEF Source
  <2> HIDE DEF of, cut, release
  <2>4. t \in Source
    BY <1>1, <2>2, <2>3 DEF Source
  <2>5. /\ t.manifest_version = s.manifest_version /\ t.latest_prod_tag = published.latest_prod_tag
        /\ t.of = of /\ t.commit = published.commit /\ t.commits_ahead = published.commits_ahead
    BY <1>1 DEF Source
  <2> HIDE DEF t
  <2>6. QED
    BY <2>1, <2>4, <2>5 DEF of
<1>4. s.manifest_version = published.manifest_version
  BY DEF Same
<1>5. QED
  BY <1>3, <1>4 DEF Facts

\* The clone counts from its own head.
LEMMA LocalFacts ==
  ASSUME WorldInv, NEW s, Facts(s, tags, Latest), NEW u, u = Local(s)
  PROVE  Facts(u, tags, Latest) /\ u.manifest_version = s.manifest_version
<1>0. /\ Latest \in Nat /\ Latest <= MaxCommits /\ MaxCommits \in Nat
      /\ clone.head \in 1 .. Latest /\ clone.tags \subseteq Version
      /\ \A v \in clone.tags : tags[v] \in 1 .. clone.head
  BY SourceFactsAssumption DEF WorldInv
<1>1. CASE s.manifest_version \notin clone.tags
  BY <1>1 DEF Local
<1>2. CASE s.manifest_version \in clone.tags
  <2> DEFINE v == s.manifest_version
             count == clone.head - tags[v]
             t == [s EXCEPT !.latest_prod_tag = v, !.expected_prod_version = v, !.of = v,
                            !.release = TRUE, !.commit = clone.head, !.commits_ahead = count]
  <2>1. u = t
    BY <1>2 DEF Local
  <2>2. v \in Version /\ tags[v] \in 1 .. clone.head /\ s \in Source
    BY <1>0, <1>2 DEF Facts
  <2>3. count \in 0 .. MaxCommits /\ clone.head \in Commit /\ tags[v] \in 1 .. Latest
        /\ count <= Larger(0, Latest - tags[v]) /\ clone.head <= Latest
    BY <1>0, <2>2 DEF Commit, Larger
  <2>4. t \in Source
    BY <2>2, <2>3 DEF Source
  <2>5. /\ t.manifest_version = v /\ t.latest_prod_tag = v /\ t.of = v
        /\ t.commit = clone.head /\ t.commits_ahead = count
    BY <2>2 DEF Source
  <2>6. count >= clone.head - tags[v] /\ v # None
    BY <1>0, <2>2, <2>3 DEF Version, None
  <2> HIDE DEF t, count
  <2>7. QED
    BY <2>1, <2>2, <2>3, <2>4, <2>5, <2>6 DEF Facts
<1>3. QED
  BY <1>1, <1>2

LEMMA WriteStep == ASSUME Inv, Write PROVE Inv' /\ NotBack
<1>0. UNCHANGED <<branch, tags, milestone, clone>> /\ run' = Idle /\ published' = Recovered(run.source)
  BY DEF Write, world
<1>1. WorldInv' /\ Latest' = Latest /\ Latest \in Nat
  <2>1. Latest' = Latest
    BY <1>0 DEF Latest
  <2>2. QED
    BY <1>0, <2>1, SourceFactsAssumption DEF Inv, WorldInv
<1>2. /\ Facts(run.source, tags, Latest) /\ Facts(published, tags, Latest) /\ WorldInv /\ TagInv
      /\ run.source.of = run.source.manifest_version
  BY DEF Inv, ProgressInv
<1>3. /\ published.latest_prod_tag \in Version \cup {None}
      /\ \A t \in Version \cup {None} : ~(t < t)
  BY <1>2, SourceFactsAssumption DEF Facts, Source, Version, None
<1>4. Facts(published', tags, Latest) /\ NotBack
  <2>1. CASE published' = run.source
    <3>1. run.source.latest_prod_tag \in Version \cup {None}
      BY <1>2 DEF Facts, Source
    <3>2. \A t, u \in Version \cup {None} : t < u => ~(t >= u)
      BY SourceFactsAssumption DEF Version, None
    <3>3. QED
      BY <1>2, <1>3, <2>1, <3>1, <3>2 DEF TagInv, NotBack
  <2>2. CASE Missing(run.source) /\ Same(run.source) /\ published' = Carry(run.source)
    <3>1. /\ Facts(published', tags, Latest)
          /\ published'.latest_prod_tag = published.latest_prod_tag
      BY <1>1, <1>2, <2>2, CarryFacts
    <3>2. QED
      BY <1>3, <3>1 DEF NotBack
  <2>3. CASE ~Same(run.source) /\ published' = Local(run.source)
    <3>1. Facts(published', tags, Latest) /\ published'.manifest_version = run.source.manifest_version
      BY <1>2, <2>3, LocalFacts
    <3>2. QED
      BY <2>3, <3>1 DEF NotBack, Same
  <2>4. QED
    BY <1>0, <2>1, <2>2, <2>3 DEF Recovered
<1>5. Facts(published', tags', Latest')
  BY <1>0, <1>1, <1>4
<1>6. run' = Running("idle", OnlyManifest(None), "branch") /\ None \in Version \cup {None} /\ Latest' \in Nat
  BY <1>0, <1>1 DEF Idle, NoSource
<1>7. ProgressInv' /\ MilestoneInv' /\ TagInv' /\ Facts(run'.source, tags', Latest')
  BY <1>6, Began
<1>8. QED
  BY <1>1, <1>4, <1>5, <1>7 DEF Inv

-----------------------------------------------------------------------------
\* Initially.
LEMMA InitInv == Init => Inv
<1> SUFFICES ASSUME Init PROVE Inv
  OBVIOUS
<1>1. /\ branch = <<1>> /\ milestone = 0 /\ clone = [head |-> 1, tags |-> {}]
      /\ published = OnlyManifest(None) /\ run = Running("idle", OnlyManifest(None), "branch")
      /\ Latest = 1 /\ 1 \in Version /\ 1 \in 1 .. MaxCommits
  BY SourceFactsAssumption DEF Init, Idle, NoSource, Latest, Version
<1>2. tags \in [Version -> 0 .. 1]
  BY DEF Init
<1>3. WorldInv
  BY <1>1, <1>2 DEF WorldInv
<1>4. OnlyManifest(None) \in Source /\ Facts(OnlyManifest(None), tags, 1)
  BY OnlyManifestFacts
<1>5. /\ run.source = OnlyManifest(None) /\ run.step = "idle" /\ run.ref = "branch"
      /\ run = [step |-> "idle", source |-> OnlyManifest(None), ref |-> "branch"]
  BY <1>1 DEF Running
<1>6. /\ run.source.of = run.source.manifest_version /\ run.source.latest_prod_tag = None
      /\ run.source.commit = None /\ run.source.commits_ahead = NoCount
  BY <1>5 DEF OnlyManifest
<1>7. ProgressInv /\ MilestoneInv /\ TagInv
  BY <1>4, <1>5, <1>6 DEF ProgressInv, MilestoneInv, TagInv
<1>8. QED
  BY <1>1, <1>3, <1>4, <1>5, <1>7 DEF Inv

\* Every step keeps the invariant and takes no tag back against a whole listing.
LEMMA NextInv == Inv /\ [Next]_vars => Inv' /\ NotBack
<1> SUFFICES ASSUME Inv, [Next]_vars PROVE Inv' /\ NotBack
  OBVIOUS
<1>s. ASSUME UNCHANGED published PROVE NotBack
  <2>1. published.latest_prod_tag \in Version \cup {None}
    BY DEF Inv, Facts, Source
  <2>2. ~(published.latest_prod_tag < published.latest_prod_tag)
    BY <2>1, SourceFactsAssumption DEF Version, None
  <2>3. QED
    BY <1>s, <2>2 DEF NotBack
<1>1. CASE Push \/ Tag \/ TagMilestone \/ Fetch
  <2>1. Forward /\ UNCHANGED <<run, published>>
    BY <1>1, PeopleGoForward DEF Inv
  <2>2. /\ Latest \in Nat /\ Latest' \in Nat /\ Latest <= Latest'
        /\ tags \in [Version -> 0 .. Latest] /\ tags' \in [Version -> 0 .. Latest']
        /\ \A v \in Version : tags[v] # 0 => tags'[v] = tags[v]
        /\ Facts(run.source, tags, Latest) /\ Facts(published, tags, Latest)
    BY <2>1, SourceFactsAssumption DEF Forward, Inv, WorldInv
  <2>3. Facts(run.source, tags', Latest') /\ Facts(published, tags', Latest')
    BY <2>2, FactsStay
  <2>4. ProgressInv' /\ MilestoneInv' /\ TagInv'
    BY <2>1 DEF Inv, Forward, ProgressInv, MilestoneInv, TagInv
  <2>5. QED
    BY <1>s, <2>1, <2>3, <2>4 DEF Inv, Forward
<1>2. CASE ReadManifest
  BY <1>2, <1>s, ReadManifestStep DEF ReadManifest
<1>3. CASE ReadTags
  BY <1>3, <1>s, ReadTagsStep DEF ReadTags
<1>4. CASE ReadCommit
  BY <1>4, <1>s, ReadCommitStep DEF ReadCommit
<1>5. CASE Compare
  BY <1>5, <1>s, CompareStep DEF Compare
<1>6. CASE Write
  BY <1>6, WriteStep
<1>7. CASE UNCHANGED vars
  <2>1. UNCHANGED <<world, published>> /\ UNCHANGED run
    BY <1>7 DEF vars
  <2>2. /\ WorldInv' /\ Facts(published', tags', Latest') /\ tags' = tags /\ Latest' = Latest
        /\ milestone' = milestone
    BY <2>1, ReadingStays
  <2>3. QED
    BY <1>s, <2>1, <2>2 DEF Inv, ProgressInv, MilestoneInv, TagInv
<1>8. QED
  BY <1>1, <1>2, <1>3, <1>4, <1>5, <1>6, <1>7 DEF Next

\* Every variable keeps its type; only a collect that starts moves the clock.
THEOREM TypeCorrect == Spec => []TypeOK
<1>1. Inv /\ clock \in 0 .. MaxCollects => TypeOK
  <2> SUFFICES ASSUME Inv, clock \in 0 .. MaxCollects PROVE TypeOK
    OBVIOUS
  <2>1. /\ WorldInv /\ ProgressInv /\ published \in Source
    BY DEF Inv, Facts
  <2>2. Latest \in Commit /\ 1 .. Latest \subseteq Commit /\ 0 .. Latest \subseteq 0 .. MaxCommits
    BY <2>1, SourceFactsAssumption DEF WorldInv, Commit
  <2>3. /\ tags \in [Version -> 0 .. MaxCommits] /\ milestone \in 0 .. MaxCommits
        /\ clone \in [head : Commit, tags : SUBSET Version]
    BY <2>1, <2>2 DEF WorldInv
  <2>4. QED
    BY <2>1, <2>2, <2>3 DEF WorldInv, ProgressInv, TypeOK
<1>2. Init => clock \in 0 .. MaxCollects
  BY SourceFactsAssumption DEF Init
<1>3. clock \in 0 .. MaxCollects /\ [Next]_vars => (clock \in 0 .. MaxCollects)'
  <2>1. [Next]_vars => UNCHANGED clock \/ (clock < MaxCollects /\ clock' = clock + 1)
    BY DEF Next, vars, Push, Tag, TagMilestone, Fetch, ReadManifest, ReadTags, ReadCommit,
         Compare, Write
  <2>2. QED
    BY <2>1, SourceFactsAssumption
<1>4. QED
  BY <1>1, <1>2, <1>3, InitInv, NextInv, PTL DEF Spec

\* A published tag was read beside the manifest it is published with.
THEOREM TagsBelong == Spec => []TagBelongsToManifest
<1>1. Inv => TagBelongsToManifest
  BY DEF Inv, Facts, TagBelongsToManifest
<1>2. QED
  BY <1>1, InitInv, NextInv, PTL DEF Spec

\* The commit shown is within the count shown, and the count within the branch.
THEOREM CountsReach == Spec => []CountReachesTheCommit
<1>1. Inv => CountReachesTheCommit
  BY DEF Inv, Facts, CountReachesTheCommit
<1>2. QED
  BY <1>1, InitInv, NextInv, PTL DEF Spec

\* Beside an unchanged manifest, a production tag gives way to an older one only in
\* a collect whose listing of tags was cut short.
THEOREM TagsGoBackOnlyWhenCut == Spec => TagGoesBackOnlyWhenCut
<1>1. NotBack => [NotBack]_vars
  OBVIOUS
<1>2. [NotBack]_vars =>
        [(/\ published'.manifest_version = published.manifest_version
          /\ IsProduction(published.latest_prod_tag)
          /\ published'.latest_prod_tag # None
          /\ published'.latest_prod_tag < published.latest_prod_tag)
            => run.source.cut /\ published'.latest_prod_tag = run.source.latest_prod_tag]_vars
  BY DEF NotBack
<1>3. QED
  BY <1>1, <1>2, InitInv, NextInv, PTL DEF Spec, TagGoesBackOnlyWhenCut

=============================================================================
