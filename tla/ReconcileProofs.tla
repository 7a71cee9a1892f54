-------------------------- MODULE ReconcileProofs --------------------------
(***************************************************************************)
(* Proofs about Reconcile for every inventory, every number of versions    *)
(* and every interleaving with the world: the types, and that stale, green *)
(* and missing verdicts are true of what the registries served.            *)
(***************************************************************************)
EXTENDS Reconcile, TLAPS

\* Appending one element keeps the others in place.
LEMMA Appended ==
  ASSUME NEW S, NEW s \in Seq(S), NEW x \in S
  PROVE  /\ Append(s, x) \in Seq(S)
         /\ Len(Append(s, x)) = Len(s) + 1
         /\ DOMAIN s = 1 .. Len(s) /\ Len(s) \in Nat
         /\ DOMAIN Append(s, x) = 1 .. (Len(s) + 1)
         /\ \A i \in 1 .. Len(s) : Append(s, x)[i] = s[i]
         /\ Append(s, x)[Len(s) + 1] = x
OBVIOUS

\* A package is a sequence of declared targets.
LEMMA PackageDeclared ==
  ASSUME package \in Inventories
  PROVE  /\ package \in Seq(Declared)
         /\ Len(package) \in Nat /\ Targets = 1 .. Len(package)
         /\ \A i \in Targets : package[i] \in Declared
BY ReconcileAssumption DEF Targets

\* One report: cells and told grow together by one entry.
LEMMA Reported ==
  ASSUME TypeOK, NEW i, NEW cell \in Cell, NEW answer \in Told, Report(i, cell, answer)
  PROVE  /\ cells' \in Seq(Cell) /\ told' \in Seq(Told)
         /\ Len(cells') = Len(told') /\ Len(cells') <= Len(package)
         /\ i = Len(cells) + 1
         /\ DOMAIN cells = 1 .. Len(cells) /\ DOMAIN cells' = 1 .. i /\ Len(cells) \in Nat
         /\ \A j \in DOMAIN cells : cells'[j] = cells[j] /\ told'[j] = told[j]
         /\ cells'[i] = cell /\ told'[i] = answer
<1>1. cells' = Append(cells, cell) /\ told' = Append(told, answer)
  BY DEF Report
<1>2. cells \in Seq(Cell) /\ told \in Seq(Told) /\ Len(cells) = Len(told)
  BY DEF TypeOK
<1>3. i = Len(cells) + 1 /\ i \in 1 .. Len(package) /\ Len(package) \in Nat
  BY PackageDeclared DEF Report, Next_i, TypeOK
<1>4. /\ cells' \in Seq(Cell) /\ Len(cells') = Len(cells) + 1 /\ Len(cells) \in Nat
      /\ DOMAIN cells = 1 .. Len(cells) /\ DOMAIN cells' = 1 .. (Len(cells) + 1)
      /\ \A j \in 1 .. Len(cells) : cells'[j] = cells[j]
      /\ cells'[Len(cells) + 1] = cell
  BY <1>1, <1>2, Appended
<1>5. /\ told' \in Seq(Told) /\ Len(told') = Len(told) + 1
      /\ \A j \in 1 .. Len(told) : told'[j] = told[j]
      /\ told'[Len(told) + 1] = answer
  BY <1>1, <1>2, Appended
<1> QED BY <1>2, <1>3, <1>4, <1>5

\* What a registry can answer, and what the classification can say.
LEMMA AnswerTypes ==
  ASSUME TypeOK, NEW i \in Targets
  PROVE  /\ Answers(i) \subseteq Http
         /\ Unasked \in Told
         /\ \A http \in Http : \A page \in BOOLEAN :
              [http |-> http, live |-> live[i], removed |-> i \in removed, page |-> page] \in Told
         /\ \A http \in Http : [http |-> http, live |-> live[i], removed |-> FALSE, page |-> FALSE] \in Told
BY DEF Answers, Http, Conclusive, Transient, Unasked, Told, TypeOK, Maybe

LEMMA ClassifyStates ==
  ASSUME NEW expected, NEW published, NEW http
  PROVE  classify(expected, published, http) \in {"unknown", "missing", "stale", "green"}
BY DEF classify

\* The newest production tag of a listing is a release of that listing, and no
\* release of it is newer.
LEMMA NewestTag ==
  ASSUME NEW listed \in SUBSET Version, NEW tag \in LatestProdTag(listed)
  PROVE  /\ tag \in Maybe(Version)
         /\ tag # None => tag \in Releases(listed) /\ \A v \in Releases(listed) : v <= tag
         /\ tag = None => Releases(listed) = {}
<1>1. \A v \in Releases(listed) : v \in Version /\ v # None
  BY DEF Releases, Version, None
<1>2. CASE Releases(listed) = {}
  BY <1>2 DEF LatestProdTag, Maybe, None
<1>3. CASE Releases(listed) # {}
  BY <1>1, <1>3 DEF LatestProdTag, Maybe
<1> QED BY <1>2, <1>3

-----------------------------------------------------------------------------
LEMMA InitTypes == Init => TypeOK
<1> SUFFICES ASSUME Init PROVE TypeOK
  OBVIOUS
<1>1. /\ package \in Inventories /\ manifest \in Maybe(Version) /\ tags \subseteq Version
      /\ failing \subseteq Targets /\ removed \subseteq Targets /\ tarball \in BOOLEAN
      /\ lastRun \in Runs /\ workflow \in Runs /\ offline \in BOOLEAN
      /\ phase \in {"manifest", "tags", "probing", "done"}
      /\ rollup \in States /\ tagsThen \subseteq Version
  BY DEF Init, Runs, States
<1>2. live \in [Targets -> Maybe(Version)]
  BY DEF Init, Maybe, Releases
<1>3. source \in Source
  BY DEF Init, Source, Maybe
<1>4. index \in [loaded : BOOLEAN, http : Http, live : [Targets -> Maybe(Version)],
                 failing : SUBSET Targets]
  BY DEF Init, Http, Transient, Maybe
<1>5. /\ cells \in Seq(Cell) /\ told \in Seq(Told)
      /\ Len(cells) = Len(told) /\ Len(cells) <= Len(package)
  BY <1>1, PackageDeclared DEF Init
<1> QED BY <1>1, <1>2, <1>3, <1>4, <1>5 DEF TypeOK

\* A step of the world keeps every type.
LEMMA WorldTypes == ASSUME TypeOK, World PROVE TypeOK'
<1>1. UNCHANGED collect
  BY DEF World
<1>2. Targets' = Targets
  BY <1>1 DEF collect, Targets
<1>3. /\ manifest' \in Maybe(Version) /\ tags' \subseteq Version
      /\ live' \in [Targets -> Maybe(Version)]
      /\ failing' \subseteq Targets /\ removed' \subseteq Targets
      /\ tarball' \in BOOLEAN /\ lastRun' \in Runs
  <2>1. CASE Bump
    BY <2>1 DEF TypeOK, Bump, Maybe
  <2>2. CASE Tag
    BY <2>2 DEF TypeOK, Tag, Maybe
  <2>3. CASE Publish
    BY <2>3 DEF TypeOK, Publish, Maybe, Releases, Runs
  <2>4. CASE FailRelease
    BY <2>4 DEF TypeOK, FailRelease, Runs
  <2>5. CASE FailBuild
    BY <2>5 DEF TypeOK, FailBuild
  <2>6. CASE Remove
    BY <2>6 DEF TypeOK, Remove
  <2> QED BY <2>1, <2>2, <2>3, <2>4, <2>5, <2>6 DEF World
<1> QED BY <1>1, <1>2, <1>3 DEF TypeOK, collect

\* A report keeps every type, if the step leaves the rest well typed.
LEMMA ReportTypes ==
  ASSUME TypeOK, NEW i, NEW cell \in Cell, NEW answer \in Told, Report(i, cell, answer),
         index' \in [loaded : BOOLEAN, http : Http, live : [Targets -> Maybe(Version)],
                     failing : SUBSET Targets],
         UNCHANGED <<world, package, offline, phase, source, rollup, workflow, tagsThen>>
  PROVE  TypeOK'
<1>1. /\ cells' \in Seq(Cell) /\ told' \in Seq(Told)
      /\ Len(cells') = Len(told') /\ Len(cells') <= Len(package)
  BY Reported
<1>2. Targets' = Targets
  BY DEF Targets
<1> QED BY <1>1, <1>2 DEF TypeOK, world

\* The two kinds of cell, field by field.
LEMMA CellFields ==
  ASSUME NEW status \in States, NEW i
  PROVE  /\ Plain(status) \in Cell /\ Manual(i, status) \in Cell
         /\ Plain(status).status = status /\ Manual(i, status).status = status
         /\ Plain(status).manual = FALSE
         /\ Manual(i, status).manual = (package[i].state = "manual")
<1> DEFINE m == package[i].state = "manual"
<1>1. m \in BOOLEAN
  OBVIOUS
<1>2. Manual(i, status) = [status |-> status, manual |-> m, planned |-> FALSE]
  BY DEF Manual
<1>3. Plain(status) = [status |-> status, manual |-> FALSE, planned |-> FALSE]
  BY DEF Plain
<1> HIDE DEF m
<1>4. Manual(i, status) \in Cell /\ Manual(i, status).status = status /\ Manual(i, status).manual = m
  BY <1>1, <1>2 DEF Cell
<1>5. Plain(status) \in Cell /\ Plain(status).status = status /\ Plain(status).manual = FALSE
  BY <1>3 DEF Cell
<1> QED BY <1>4, <1>5 DEF m

\* What a target that is not probed reports.
LEMMA DeclareReports ==
  ASSUME NEW i, Declare(i)
  PROVE  \E cell \in Cell :
           /\ Report(i, cell, Unasked)
           /\ cell.status \in {"excluded", "missing", "unknown"}
           /\ cell.status = "excluded" => package[i].state = "excluded"
           /\ cell.manual => package[i].state = "manual"
<1>1. Planned \in Cell /\ Planned.status = "missing" /\ Planned.manual = FALSE
  BY DEF Planned, Cell, States
<1>2. /\ Plain("excluded") \in Cell /\ Plain("excluded").status = "excluded"
      /\ Plain("excluded").manual = FALSE
  BY CellFields DEF States
<1>3. Plain("unknown") \in Cell /\ Plain("unknown").status = "unknown" /\ Plain("unknown").manual = FALSE
  BY CellFields DEF States
<1>4. /\ Manual(i, "unknown") \in Cell /\ Manual(i, "unknown").status = "unknown"
      /\ Manual(i, "unknown").manual = (package[i].state = "manual")
  BY CellFields DEF States
<1>5. \/ package[i].state = "excluded" /\ Report(i, Plain("excluded"), Unasked)
      \/ Report(i, Planned, Unasked)
      \/ Report(i, Plain("unknown"), Unasked)
      \/ Report(i, Manual(i, "unknown"), Unasked)
  BY DEF Declare
<1> QED BY <1>1, <1>2, <1>3, <1>4, <1>5

-----------------------------------------------------------------------------
(* Each probe reports a cell that is true of the answer it got. *)

\* What a classification says of the versions it compared.
LEMMA ClassifyMeaning ==
  ASSUME NEW expected \in Maybe(Version), NEW published \in Maybe(Version), NEW http \in Http,
         NEW verdict, verdict = classify(expected, published, http)
  PROVE  /\ verdict \in {"unknown", "missing", "stale", "green"}
         /\ verdict = "stale" => published # None /\ expected # None /\ published < expected
         /\ verdict = "green" => published # None /\ (expected # None => published >= expected)
         /\ verdict = "missing" => http = "absent" \/ published = None
<1>1. published \in Int /\ expected \in Int
  BY ReconcileAssumption DEF Maybe, Version, None
<1> QED BY <1>1 DEF classify

LEMMA DeclareTrue ==
  ASSUME NEW i, Declare(i)
  PROVE  \E cell \in Cell, answer \in Told : Report(i, cell, answer) /\ CellTrue(i, cell, answer)
<1>1. PICK cell \in Cell :
        /\ Report(i, cell, Unasked)
        /\ cell.status \in {"excluded", "missing", "unknown"}
        /\ cell.status = "excluded" => package[i].state = "excluded"
        /\ cell.manual => package[i].state = "manual"
  BY DeclareReports
<1>2. Unasked \in Told /\ Unasked.live = None
  BY DEF Unasked, Told, Http, Conclusive, Transient, Maybe
<1>3. cell.manual \in BOOLEAN
  BY DEF Cell
<1>4. CellTrue(i, cell, Unasked)
  BY <1>1, <1>2, <1>3 DEF CellTrue, Counts
<1> QED BY <1>1, <1>2, <1>4

LEMMA ProbeVersionTrue ==
  ASSUME TypeOK, Sound, NEW i \in Targets, ProbeVersion(i)
  PROVE  \E cell \in Cell, answer \in Told : Report(i, cell, answer) /\ CellTrue(i, cell, answer)
<1> DEFINE registry == package[i].registry
           expected == Expected(i)
           pub(http, archived) == IF archived THEN None ELSE Handed(i, http)
           verd(http, archived) == classify(expected, pub(http, archived), http)
           stat(http, archived, shipped) ==
             IF verd(http, archived) = "missing" /\ registry = "cran" /\ shipped
             THEN "pending" ELSE verd(http, archived)
           ans(http, page) ==
             [http |-> http, live |-> live[i], removed |-> (i \in removed), page |-> page]
           rep(status) == IF registry = "github-release" THEN Plain(status) ELSE Manual(i, status)
<1>1. PICK http \in Answers(i), page \in {FALSE, (registry = "cran")}, shipped \in {FALSE, tarball} :
        Report(i, rep(stat(http, Archived(i, page), shipped)), ans(http, page))
  BY DEF ProbeVersion
<1> DEFINE archived == Archived(i, page)
           verdict == verd(http, archived)
           published == pub(http, archived)
           status == stat(http, archived, shipped)
           cell == rep(status)
           answer == ans(http, page)
<1>2. http \in Http /\ (http = "absent" => live[i] = None)
  BY DEF Answers, Http, Conclusive, Transient
<1>3. live[i] \in Maybe(Version) /\ source.expected \in Maybe(Version) /\ source.tag \in Maybe(Version)
  BY DEF TypeOK, Source
<1>4. expected \in Maybe(Version) /\ published \in Maybe(Version)
  BY <1>3 DEF Maybe, Expected, Handed
<1>5. /\ answer \in Told /\ answer.http = http /\ answer.live = live[i]
      /\ answer.removed = (i \in removed) /\ answer.page = page
  <2>1. page \in BOOLEAN /\ (i \in removed) \in BOOLEAN
    <3>1. (registry = "cran") \in BOOLEAN /\ (i \in removed) \in BOOLEAN
      OBVIOUS
    <3> HIDE DEF registry
    <3> QED BY <3>1
  <2>2. answer = [http |-> http, live |-> live[i], removed |-> (i \in removed), page |-> page]
    OBVIOUS
  <2> HIDE DEF answer
  <2> QED BY <1>2, <1>3, <2>1, <2>2 DEF Told
<1>6. /\ verdict \in {"unknown", "missing", "stale", "green"}
      /\ verdict = "stale" => published # None /\ expected # None /\ published < expected
      /\ verdict = "green" => published # None /\ (expected # None => published >= expected)
      /\ verdict = "missing" => http = "absent" \/ published = None
  <2>1. verdict = classify(expected, published, http)
    OBVIOUS
  <2> HIDE DEF expected, published, verdict
  <2> QED BY <1>2, <1>4, <2>1, ClassifyMeaning
<1>7. /\ status \in {"unknown", "missing", "stale", "green", "pending"}
      /\ status \in {"stale", "green"} => verdict = status
      /\ status \in {"missing", "pending"} => verdict = "missing"
  <2> HIDE DEF verd
  <2> QED BY <1>6
<1>8. published # None => published = live[i]
  BY DEF Handed
<1>9. /\ published = None /\ http = "ok" => live[i] = None \/ i \in removed
      /\ published # None => ~(i \in removed /\ page)
  BY DEF Handed, Archived
<1>10. source.tag # None => source.expected = source.tag
  BY DEF Sound
<1>11. /\ cell \in Cell /\ cell.status = status
       /\ cell.manual \in {FALSE, (package[i].state = "manual")}
  <2>1. status \in States
    BY <1>7 DEF States
  <2> HIDE DEF stat
  <2> QED BY <2>1, CellFields
<1> HIDE DEF cell, answer, status, verdict, published
<1>12. status = "stale" /\ source.tag # None => live[i] # None /\ live[i] < source.tag
  BY <1>6, <1>7, <1>8, <1>10 DEF Expected
<1>13. status = "green" /\ Versioned(i) /\ source.tag # None => live[i] >= source.tag
  BY <1>6, <1>7, <1>8, <1>10 DEF Versioned, Expected
<1>14. status \in {"missing", "pending"} /\ http \in Conclusive => live[i] = None \/ i \in removed
  BY <1>2, <1>6, <1>7, <1>9 DEF Conclusive
<1>15. Counts(i) => cell.manual = FALSE /\ status # "excluded"
  BY <1>7, <1>11 DEF Counts
<1>16. status = "green" => ~(i \in removed /\ page)
  BY <1>6, <1>7, <1>9
<1>17. CellTrue(i, cell, answer)
  BY <1>5, <1>11, <1>12, <1>13, <1>14, <1>15, <1>16 DEF CellTrue
<1> QED BY <1>1, <1>5, <1>11, <1>17 DEF cell, answer, status

\* What asking the r-universe listing leaves: a typed listing with an answer.
LEMMA LoadedIndex ==
  ASSUME TypeOK, index.http # "absent", LoadIndex
  PROVE  /\ index' \in [loaded : BOOLEAN, http : Http, live : [Targets -> Maybe(Version)],
                        failing : SUBSET Targets]
         /\ index'.http # "absent"
<1>1. CASE index' = index
  BY <1>1 DEF TypeOK
<1>2. CASE index' # index
  <2>1. PICK http \in Http \ {"absent"} :
          index' = [loaded |-> http # "transport", http |-> http, live |-> live, failing |-> failing]
    BY <1>2 DEF LoadIndex
  <2>2. (http # "transport") \in BOOLEAN
    OBVIOUS
  <2> QED BY <2>1, <2>2 DEF TypeOK
<1> QED BY <1>1, <1>2

LEMMA ProbeIndexTrue ==
  ASSUME TypeOK, Sound, NEW i \in Targets, ProbeIndex(i)
  PROVE  \E cell \in Cell, answer \in Told : Report(i, cell, answer) /\ CellTrue(i, cell, answer)
<1> DEFINE ix == index'
           status == IndexVerdict(i, ix)
           cell == Manual(i, status)
           http == IF ix.http = "ok" /\ ix.live[i] = None THEN "absent" ELSE ix.http
           answer == [http |-> http, live |-> ix.live[i], removed |-> FALSE, page |-> FALSE]
<1>1. Report(i, cell, answer)
  BY DEF ProbeIndex
<1>2. /\ ix \in [loaded : BOOLEAN, http : Http, live : [Targets -> Maybe(Version)],
                 failing : SUBSET Targets]
      /\ ix.http # "absent"
  BY LoadedIndex DEF ProbeIndex, Sound
<1> HIDE DEF ix
<1>3. /\ ix.http \in Http /\ ix.live[i] \in Maybe(Version) /\ http \in Http
      /\ source.expected \in Maybe(Version) /\ source.tag \in Maybe(Version)
  BY <1>2 DEF TypeOK, Source, Http, Conclusive
<1>4. answer \in Told /\ answer.http = http /\ answer.live = ix.live[i] /\ answer.removed = FALSE
  BY <1>3 DEF Told
<1>5. source.tag # None => source.expected = source.tag
  BY DEF Sound
<1>6. /\ status \in {"unknown", "missing", "stale", "green", "broken"}
      /\ status = "stale" /\ source.tag # None => ix.live[i] # None /\ ix.live[i] < source.tag
      /\ status = "green" /\ source.tag # None => ix.live[i] >= source.tag
      /\ status = "missing" /\ http \in Conclusive => ix.live[i] = None
  <2>1. CASE ix.http # "ok"
    <3>1. None \in Maybe(Version) /\ status = classify(source.expected, None, ix.http)
      BY <2>1 DEF IndexVerdict, Maybe
    <3> HIDE DEF status
    <3>2. status \in {"unknown", "missing"}
      BY <1>3, <3>1, ClassifyMeaning
    <3>3. http \notin Conclusive
      BY <1>2, <2>1 DEF Conclusive
    <3> QED BY <3>2, <3>3
  <2>2. CASE ix.http = "ok" /\ i \in ix.failing
    BY <2>2 DEF IndexVerdict
  <2>3. CASE ix.http = "ok" /\ i \notin ix.failing
    <3> DEFINE h == IF ix.live[i] = None THEN "absent" ELSE "ok"
    <3>1. h \in Http /\ status = classify(source.expected, ix.live[i], h)
      BY <2>3 DEF IndexVerdict, Http, Conclusive
    <3>2. h = "absent" => ix.live[i] = None
      OBVIOUS
    <3> HIDE DEF status, h
    <3> QED BY <1>3, <1>5, <3>1, <3>2, ClassifyMeaning
  <2> QED BY <2>1, <2>2, <2>3
<1>7. /\ cell \in Cell /\ cell.status = status
      /\ cell.manual = (package[i].state = "manual")
  <2>1. status \in States
    BY <1>6 DEF States
  <2> HIDE DEF status
  <2> QED BY <2>1, CellFields
<1> HIDE DEF cell, answer, status, http
<1>8. CellTrue(i, cell, answer)
  <2>1. Counts(i) => cell.manual = FALSE
    BY <1>7 DEF Counts
  <2> QED BY <1>4, <1>6, <1>7, <2>1 DEF CellTrue
<1> QED BY <1>1, <1>4, <1>7, <1>8

LEMMA ProbePagesTrue ==
  ASSUME TypeOK, NEW i \in Targets, ProbePages(i)
  PROVE  \E cell \in Cell, answer \in Told : Report(i, cell, answer) /\ CellTrue(i, cell, answer)
<1> DEFINE stat(http) == IF http # "ok" THEN "missing"
                         ELSE IF i \in failing THEN "broken" ELSE "green"
           ans(http) == [http |-> http, live |-> live[i], removed |-> FALSE, page |-> FALSE]
<1>1. PICK http \in Answers(i) : Report(i, Plain(stat(http)), ans(http))
  BY DEF ProbePages
<1> DEFINE status == stat(http)
           cell == Plain(status)
           answer == ans(http)
<1>2. http \in Http /\ (http = "absent" => live[i] = None)
  BY DEF Answers, Http, Conclusive, Transient
<1>3. answer \in Told /\ answer.http = http /\ answer.live = live[i] /\ answer.removed = FALSE
  BY <1>2 DEF Told, TypeOK
<1>4. status \in {"missing", "broken", "green"} /\ (status = "missing" => http # "ok")
  OBVIOUS
<1>5. cell \in Cell /\ cell.status = status /\ cell.manual = FALSE
  <2>1. status \in States
    BY <1>4 DEF States
  <2> HIDE DEF status
  <2> QED BY <2>1, CellFields
<1>6. ~Versioned(i)
  BY DEF ProbePages, Asks, Versioned
<1>7. Report(i, cell, answer)
  BY <1>1
<1> HIDE DEF cell, answer, status
<1>8. CellTrue(i, cell, answer)
  BY <1>2, <1>3, <1>4, <1>5, <1>6 DEF CellTrue, Conclusive
<1> QED BY <1>3, <1>5, <1>7, <1>8

-----------------------------------------------------------------------------
(* The induction. *)

\* A true report keeps the types and what is sound.
LEMMA ReportStep ==
  ASSUME TypeOK, Sound, NEW i, NEW cell \in Cell, NEW answer \in Told,
         Report(i, cell, answer), CellTrue(i, cell, answer),
         index' \in [loaded : BOOLEAN, http : Http, live : [Targets -> Maybe(Version)],
                     failing : SUBSET Targets],
         index'.http # "absent",
         UNCHANGED <<world, package, offline, phase, source, rollup, workflow, tagsThen>>
  PROVE  TypeOK' /\ Sound'
<1>1. TypeOK'
  BY ReportTypes
<1>2. phase = "probing"
  BY DEF Report
<1>3. /\ i = Len(cells) + 1 /\ Len(cells) \in Nat
      /\ DOMAIN cells = 1 .. Len(cells) /\ DOMAIN cells' = 1 .. i
      /\ \A j \in DOMAIN cells : cells'[j] = cells[j] /\ told'[j] = told[j]
      /\ cells'[i] = cell /\ told'[i] = answer
  BY Reported
<1>4. \A j \in DOMAIN cells' : CellTrue(j, cells'[j], told'[j])
  <2> SUFFICES ASSUME NEW j \in DOMAIN cells' PROVE CellTrue(j, cells'[j], told'[j])
    OBVIOUS
  <2>1. CASE j = i
    BY <1>3, <2>1
  <2>2. CASE j # i
    <3>1. j \in DOMAIN cells
      BY <1>3, <2>2
    <3> QED BY <1>3, <3>1 DEF Sound
  <2> QED BY <2>1, <2>2
<1>5. \A j \in DOMAIN cells' : CellTrue(j, cells[j], told[j])'
  BY <1>4 DEF CellTrue, Versioned, Counts
<1> QED BY <1>1, <1>2, <1>5 DEF Sound, world

LEMMA ReadTagsStep == ASSUME TypeOK, Sound, ReadTags PROVE TypeOK' /\ Sound'
<1>1. PICK oldest \in 1 .. MaxVersion + 1 :
        \E tag \in LatestProdTag({v \in tags : v >= oldest}) :
          source' = [source EXCEPT !.tag = tag,
                                   !.expected = derive_expected(source.manifest, tag),
                                   !.ahead = source_ahead(source.manifest, tag)]
  BY DEF ReadTags
<1> DEFINE listed == {v \in tags : v >= oldest}
<1>2. PICK tag \in LatestProdTag(listed) :
        source' = [source EXCEPT !.tag = tag,
                                 !.expected = derive_expected(source.manifest, tag),
                                 !.ahead = source_ahead(source.manifest, tag)]
  BY <1>1
<1>3. listed \in SUBSET Version /\ Version \subseteq Int /\ oldest \in Int /\ tags \subseteq Version
  <2>1. tags \subseteq Version
    BY DEF TypeOK
  <2>2. Version \subseteq Int /\ oldest \in Int
    BY ReconcileAssumption DEF Version
  <2> QED BY <2>1, <2>2
<1>4. /\ tag \in Maybe(Version)
      /\ tag # None => tag \in Releases(listed) /\ \A v \in Releases(listed) : v <= tag
  <2> HIDE DEF listed
  <2> QED BY <1>3, NewestTag
<1>5. derive_expected(source.manifest, tag) \in Maybe(Version)
  BY <1>4 DEF derive_expected, TypeOK, Source
<1>6. source_ahead(source.manifest, tag) \in BOOLEAN
  BY DEF source_ahead
<1> DEFINE e == derive_expected(source.manifest, tag)
           a == source_ahead(source.manifest, tag)
<1>7. source' = [source EXCEPT !.tag = tag, !.expected = e, !.ahead = a]
  BY <1>2
<1>8. tag # None => e = tag
  BY DEF derive_expected
<1> HIDE DEF e, a
<1>9. source' \in Source /\ source'.tag = tag /\ source'.expected = e
  BY <1>4, <1>5, <1>6, <1>7 DEF TypeOK, Source, e, a
<1>10. TypeOK'
  <2>1. Targets' = Targets
    BY DEF ReadTags, Targets
  <2> QED BY <1>9, <2>1 DEF TypeOK, ReadTags, world
<1>11. tag # None => tag \in Releases(tags) /\ \A v \in Releases(tags) : v <= tag
  <2> SUFFICES ASSUME tag # None PROVE tag \in Releases(tags) /\ \A v \in Releases(tags) : v <= tag
    OBVIOUS
  <2>1. tag \in tags /\ ~IsPrerelease(tag) /\ tag >= oldest
    BY <1>4 DEF Releases
  <2>2. ASSUME NEW v \in Releases(tags) PROVE v <= tag
    <3>1. v \in Int /\ tag \in Int
      BY <1>3, <2>1 DEF Releases
    <3>2. CASE v >= oldest
      BY <1>4, <3>2 DEF Releases
    <3>3. CASE ~(v >= oldest)
      BY <1>3, <2>1, <3>1, <3>3
    <3> QED BY <3>2, <3>3
  <2> QED BY <2>1, <2>2 DEF Releases
<1>12. cells' = <<>> /\ phase' = "probing" /\ tags' = tags /\ tagsThen' = tags /\ index' = index
  BY DEF ReadTags, Sound, world
<1> HIDE DEF listed
<1>13. DOMAIN cells' = {}
  BY <1>12
<1> QED BY <1>8, <1>9, <1>10, <1>11, <1>12, <1>13 DEF Sound

LEMMA WorldStep == ASSUME TypeOK, Sound, World PROVE TypeOK' /\ Sound'
<1>1. TypeOK'
  BY WorldTypes
<1>2. tags \subseteq tags'
  BY DEF World, Bump, Tag, Publish, FailRelease, FailBuild, Remove
<1>3. Releases(tags) \subseteq Releases(tags')
  BY <1>2 DEF Releases
<1>4. UNCHANGED <<package, source, index, cells, told, phase, rollup, tagsThen>>
  BY DEF World, collect
<1>5. Releases(tagsThen)' = Releases(tagsThen) /\ Rollup(cells)' = Rollup(cells)
  BY <1>4
<1>6. \A j \in DOMAIN cells' : CellTrue(j, cells[j], told[j])'
  BY <1>4 DEF Sound, CellTrue, Versioned, Counts
<1> QED BY <1>1, <1>3, <1>4, <1>5, <1>6 DEF Sound

LEMMA CollectStep == ASSUME TypeOK, Sound, Collect PROVE TypeOK' /\ Sound'
<1>1. CASE ReadManifest
  <2>1. PICK m \in 0 .. manifest : source' = [source EXCEPT !.manifest = m]
    BY <1>1 DEF ReadManifest
  <2>2. m \in Maybe(Version)
    BY ReconcileAssumption DEF TypeOK, Maybe, Version, None
  <2>3. source' \in Source /\ source'.tag = source.tag
    BY <2>1, <2>2 DEF TypeOK, Source
  <2>4. Targets' = Targets
    BY <1>1 DEF ReadManifest, Targets
  <2>5. TypeOK'
    BY <1>1, <2>3, <2>4 DEF TypeOK, ReadManifest, world
  <2>6. source.tag = None /\ cells = <<>> /\ cells' = <<>> /\ index' = index /\ phase' \in {"tags", "probing"}
    BY <1>1 DEF Sound, ReadManifest
  <2>7. DOMAIN cells' = {}
    BY <2>6
  <2> QED BY <2>3, <2>5, <2>6, <2>7 DEF Sound
<1>2. CASE ReadTags
  BY <1>2, ReadTagsStep
<1>3. CASE Finish
  <2>1. Targets' = Targets
    BY <1>3 DEF Finish, Targets
  <2>2. /\ Len(cells) = Len(package) /\ cells' = cells /\ package' = package
        /\ rollup' \in Rollup(cells) /\ Rollup(cells)' = Rollup(cells)
    BY <1>3, PackageDeclared DEF Finish, Next_i, TypeOK
  <2>3. Rollup(cells) \subseteq States
    <3>1. ASSUME NEW j \in DOMAIN cells PROVE cells[j].status \in States
      <4>1. cells[j] \in Cell
        BY DEF TypeOK
      <4> QED BY <4>1 DEF Cell
    <3> QED BY <3>1 DEF Rollup, States
  <2>4. workflow' \in Runs
    BY <1>3 DEF Finish, TypeOK, Runs
  <2>5. TypeOK'
    BY <1>3, <2>1, <2>2, <2>3, <2>4 DEF TypeOK, Finish, world
  <2>6. \A j \in DOMAIN cells' : CellTrue(j, cells[j], told[j])'
    BY <1>3 DEF Finish, Sound, CellTrue, Versioned, Counts
  <2>7. /\ Releases(tags)' = Releases(tags) /\ Releases(tagsThen)' = Releases(tagsThen)
        /\ source' = source /\ index' = index /\ phase' = "done"
    BY <1>3 DEF Finish, world
  <2> QED BY <2>2, <2>5, <2>6, <2>7 DEF Sound
<1>4. ASSUME NEW i \in Targets, Declare(i) \/ ProbeVersion(i) \/ ProbeIndex(i) \/ ProbePages(i)
      PROVE  TypeOK' /\ Sound'
  <2>1. \E cell \in Cell, answer \in Told : Report(i, cell, answer) /\ CellTrue(i, cell, answer)
    BY <1>4, DeclareTrue, ProbeVersionTrue, ProbeIndexTrue, ProbePagesTrue
  <2>2. UNCHANGED <<world, package, offline, phase, source, rollup, workflow, tagsThen>>
    BY <1>4 DEF Declare, ProbeVersion, ProbeIndex, ProbePages
  <2>3. /\ index' \in [loaded : BOOLEAN, http : Http, live : [Targets -> Maybe(Version)],
                       failing : SUBSET Targets]
        /\ index'.http # "absent"
    <3>1. CASE index' = index
      BY <3>1 DEF TypeOK, Sound
    <3>2. CASE ProbeIndex(i)
      BY <3>2, LoadedIndex DEF ProbeIndex, Sound
    <3> QED BY <1>4, <3>1, <3>2 DEF Declare, ProbeVersion, ProbePages
  <2> QED BY <2>1, <2>2, <2>3, ReportStep
<1> QED BY <1>1, <1>2, <1>3, <1>4 DEF Collect

\* The inductive invariant: types, and what every reported cell owes to the
\* answer it came from.
THEOREM SoundInvariant == Spec => [](TypeOK /\ Sound)
<1>1. Init => TypeOK /\ Sound
  <2>1. ASSUME Init PROVE Sound
    <3>1. DOMAIN cells = {}
      BY <2>1 DEF Init
    <3> QED BY <2>1, <3>1 DEF Init, Sound
  <2> QED BY <2>1, InitTypes
<1>2. TypeOK /\ Sound /\ [Next]_vars => TypeOK' /\ Sound'
  <2> SUFFICES ASSUME TypeOK, Sound, [Next]_vars PROVE TypeOK' /\ Sound'
    OBVIOUS
  <2>1. CASE World
    BY <2>1, WorldStep
  <2>2. CASE Collect
    BY <2>2, CollectStep
  <2>3. CASE UNCHANGED vars
    <3>1. TypeOK'
      BY <2>3 DEF vars, world, collect, TypeOK, Targets
    <3>2. UNCHANGED <<tags, package, source, index, cells, told, phase, rollup, tagsThen>>
      BY <2>3 DEF vars, world, collect
    <3>3. /\ Releases(tags)' = Releases(tags) /\ Releases(tagsThen)' = Releases(tagsThen)
          /\ Rollup(cells)' = Rollup(cells)
      BY <3>2
    <3>4. \A j \in DOMAIN cells' : CellTrue(j, cells[j], told[j])'
      BY <3>2 DEF Sound, CellTrue, Versioned, Counts
    <3>5. Sound'
      BY <3>2, <3>3, <3>4 DEF Sound
    <3> QED BY <3>1, <3>5
  <2> QED BY <2>1, <2>2, <2>3 DEF Next
<1> QED BY <1>1, <1>2, PTL DEF Spec

\* Every variable keeps its type.
THEOREM TypeCorrect == Spec => []TypeOK
<1>1. TypeOK /\ Sound => TypeOK
  OBVIOUS
<1> QED BY <1>1, SoundInvariant, PTL

\* A stale verdict is true whatever the maintainers did meanwhile.
THEOREM StaleVerdictsAreReal == Spec => []StaleIsReal
<1>1. ASSUME TypeOK, Sound PROVE StaleIsReal
  <2> SUFFICES ASSUME NEW i \in DOMAIN cells, cells[i].status = "stale", source.tag # None
               PROVE  told[i].live # None /\ \E v \in Releases(tags) : v > told[i].live
    BY DEF StaleIsReal
  <2>1. told[i].live # None /\ told[i].live < source.tag /\ source.tag \in Releases(tags)
    BY <1>1 DEF Sound, CellTrue
  <2>2. told[i].live \in Int /\ source.tag \in Int
    <3>1. i \in DOMAIN told
      BY <1>1 DEF TypeOK
    <3>2. told[i] \in Told
      BY <1>1, <3>1 DEF TypeOK
    <3> QED BY <1>1, <3>2, ReconcileAssumption DEF TypeOK, Told, Source, Maybe, Version, None
  <2> QED BY <2>1, <2>2
<1> QED BY <1>1, SoundInvariant, PTL

\* A package rolled up green is released on each of its tracked registries.
THEOREM GreenPackagesAreReleased == Spec => []GreenPackageIsReleased
<1>1. ASSUME TypeOK, Sound PROVE GreenPackageIsReleased
  <2> SUFFICES ASSUME phase = "done", rollup = "green", source.tag # None,
                      NEW i \in Targets, Versioned(i), Counts(i)
               PROVE  /\ \A v \in Releases(tagsThen) : told[i].live >= v
                      /\ told[i].removed => ~told[i].page
    BY DEF GreenPackageIsReleased
  <2>1. i \in DOMAIN cells /\ i \in DOMAIN told /\ cells # <<>>
    BY <1>1, PackageDeclared DEF TypeOK, Sound
  <2>2. cells[i].status \in States /\ CellTrue(i, cells[i], told[i])
    <3>1. cells[i] \in Cell
      BY <1>1, <2>1 DEF TypeOK
    <3>2. cells[i].status \in States
      BY <3>1 DEF Cell
    <3>3. CellTrue(i, cells[i], told[i])
      BY <1>1, <2>1 DEF Sound
    <3> QED BY <3>2, <3>3
  <2> DEFINE tracked == {cells[j].status : j \in {k \in DOMAIN cells : ~cells[k].manual}} \ {"excluded"}
             rank    == [broken |-> 1, missing |-> 2, stale |-> 3, pending |-> 4, unknown |-> 5, green |-> 6]
  <2>3. cells[i].status \in tracked
    BY <2>1, <2>2 DEF CellTrue
  <2>4. \A u \in tracked : rank["green"] <= rank[u]
    BY <1>1, <2>1, <2>3 DEF Sound, Rollup
  <2>5. cells[i].status = "green"
    <3>1. rank["green"] <= rank[cells[i].status]
      BY <2>3, <2>4
    <3>2. cells[i].status \in States \ {"excluded"}
      BY <2>2, <2>3
    <3> QED BY <3>1, <3>2 DEF States
  <2>6. told[i].live >= source.tag /\ \A v \in Releases(tagsThen) : v <= source.tag
    BY <1>1, <2>2, <2>5 DEF CellTrue, Sound
  <2>7. told[i].live \in Int /\ source.tag \in Int /\ \A v \in Releases(tagsThen) : v \in Int
    <3>1. told[i] \in Told
      BY <1>1, <2>1 DEF TypeOK
    <3> QED BY <1>1, <3>1, ReconcileAssumption DEF TypeOK, Told, Source, Maybe, Version, None, Releases
  <2>8. told[i].removed => ~told[i].page
    BY <2>2, <2>5 DEF CellTrue
  <2> QED BY <2>6, <2>7, <2>8
<1> QED BY <1>1, SoundInvariant, PTL

\* A target reported absent by a registry that answered was really not served.
THEOREM AbsencesAreReal == Spec => []AbsenceIsReal
<1>1. TypeOK /\ Sound => AbsenceIsReal
  BY DEF Sound, CellTrue, AbsenceIsReal
<1> QED BY <1>1, SoundInvariant, PTL
=============================================================================
