# TLA+ models of nirs4all-cockpit

`nirs4all-cockpit` watches the releases of an ecosystem of packages. Every day
it asks package registries and GitHub what is published, reconciles the answers
with what the repositories have tagged, writes one JSON snapshot, commits it,
and a static dashboard shows it. Next to that flow stand a gated command that
dispatches release workflows and two programs that project release records into
public JSON files.

This directory models those flows in TLA+, checks the models with TLC on small
instances and proves the central theorems with TLAPS. `PROJECT.json` lists every
run, theorem, hazard and finding, and for each definition the lines it models.

## 1. Inventory

| part | source | state it keeps | operations | modelled in |
|---|---|---|---|---|
| collect command and carry-forward | `cockpit/cli.py`, `cockpit/snapshot.py` | `data/current.json` | read the prior file, build, carry forward, rewrite | `Collect` over `DatedFacts`, `PackageFacts`, `SourceFacts` |
| reconcile and version engine | `cockpit/reconcile.py`, `cockpit/version.py` | the snapshot being built | read manifest and tags, probe each target, classify, roll up | `Reconcile` |
| registry probes | `cockpit/collect/{pypi,npm,crates,cran,runiverse,readthedocs}.py` | the r-universe index of the process | ask, hand back a fact | `Reconcile` |
| GitHub probe | `cockpit/collect/github*.py` | none | token, anonymous and `gh` ladder; paged listings | `GitHub` |
| HTTP client | `cockpit/http.py` | the response cache on disk | get, post, retry, cache | `HttpClient` |
| Sentry signal | `cockpit/collect/sentry.py` | none | two listings by cursor, one question | `Sentry` |
| publishing workflows | `.github/workflows/collect.yml`, `pages.yml` | `main`, the live site, GitHub's run queues | collect, rebase, push, build, deploy | `PublishPipeline` |
| admin run | `cockpit/admin.py`, `cockpit/cli.py` | none (GitHub runs) | resolve the gate, confirm, dispatch | `AdminRun` |
| release staging | `cockpit/release_staging.py` | `data/release-staging.json` | build (atomic write), validate | `ReleaseStaging`, `StagingRegister` |
| native candidate | `cockpit/native_candidate.py` | `data/native-candidate-staging.json` | build, validate | `NativeCandidate` |
| manual actions | `cockpit/manual_actions.py`, `web/app.js` | `data/manual-actions.json` | evaluate, publish, show | `Dashboard` |
| visits, search console | `cockpit/collect/{visits,search_console}.py` | none | ask per window, page or property | `Collect` |
| dashboard | `web/app.js` | the documents fetched | fetch, filter, render | `Dashboard` |
| code statistics, private traffic, validation, CI, scripts | see `PROJECT.json` | none or local files | | not modelled |

How the parts meet: `collect.yml` runs the collect command; the command calls
`reconcile.build_snapshot`, which calls every probe through the HTTP client; the
command then completes what the probes missed from the file it is about to
overwrite; the workflow commits that file; the commit starts `pages.yml`, which
deploys it beside the dashboard. The only state shared between two processes is
files (the snapshot, the cache, the two projections), the branch and GitHub's
queues. Inside a process everything is sequential: concurrency comes from the
world, which moves between two requests, from a second process, and from GitHub.

What is hard, and hard to test:

- *the world moves*: tags are read first and registries later; pages shift under
  a listing; the stream of issues reorders under its cursor;
- *partial failure*: each probe fails on its own, in its own way (status 0, 403,
  garbled 200, missing header), and a failure must not look like an absence;
- *memory*: facts are carried from run to run by rules that test different
  conditions; dates must survive any number of carries; derived facts must follow;
- *crashes*: four files are rewritten, one atomically;
- *queues*: collects wait for one another, deployments cancel one another, and
  GitHub keeps one waiting run;
- *gates*: whether a dispatch publishes depends on flags, inputs with opposite
  polarity, a prompt and the workflow's own defaults.

`PROJECT.json` lists each hazard at its line with the properties that watch it.

## 2. What makes each part correct

- collect: a published counter is dated at the run that read it; a refresh does
  not lose what it promises to keep; a torn file does not block the next run.
- source facts: what is shown together belongs together (the tag with the
  manifest, the commit with the count of commits), and a tag goes back only when
  GitHub's listing was cut short.
- reconcile: a red or green verdict is true of the registry when it answered.
- GitHub, Sentry: a listing is whole up to what changed while it was read; it
  ends; a number derived from two answers is off by what happened between them.
- HTTP client: `error` is to be trusted, headers belong to the body, what is
  returned is recent.
- pipeline: the history of snapshots is a chain; the site never goes back and
  catches up.
- dashboard: no action is hidden before its release has happened, and no
  checklist is shown that is older than the snapshot beside it.
- admin: nothing is published without confirmation; the printed advice works.
- staging: readers see whole projections of one release, whatever crashes; what is
  accepted stood while it was validated; abandoned files have causes.
- native candidate: what the validator accepts tells one story.

## 3. The modules

Every module keeps the names of the code. Data is reduced to what the properties
tell apart: versions are numbers (odd: production, the even number below: one of
its prereleases), a counter is the run that read it, a document is the time it was
served and whether it is more than the JSON `null`. Fields called *observers* in a module's comments record history for the
properties and have no counterpart in the program. Definitions headed "Slip:"
are not part of any specification: each is a plausible mistake in the definition
that follows, and shows that a property would catch it.

**Collect, DatedFacts.** Several `collect` runs over one file. `Start` reads it (a
torn or absent file is no snapshot), `Build` is the probing, `CarryForward` is
`_carry_forward_public_signals` and `_carry_forward_target_downloads`. Writing is
two steps, `OpenOutput` and `FinishWrite`, because `write_text` truncates first;
`Crash` may stop a run anywhere. A signal (visits, Search Console, Sentry) and the
downloads of a target are sets of numbers, one per window, page or property, each
of which is asked by itself and may fail; one answer is enough for the signal to
be available. The code tells a failed signal from one that was not asked by an
error text, and `SilentSignals` are those whose failure leaves none. The page
dates a counter by `observed_at` or, where there is none, by the snapshot.
`DatedFacts` is what a reader is promised: numbers read by one collect, under its
date. `Refines` maps the file to it, and the interior of a write to a loss.

**Reconcile.** One package's `_reconcile_package` (`ReadManifest`, `ReadTags`,
one probe per target, `Finish`) interleaved with a world that bumps, tags,
publishes, fails builds and is removed from CRAN. `derive_expected`, `classify`
and `Rollup` are the functions of the same names. `told` records what the
registry knew when it was asked, which is what a verdict is judged against.
`Handed` is what the probe of PyPI, npm or crates.io hands back, `Archived` what
CRAN's does, whose canonical page is asked after the record and may stay unread,
and `Expected` the version a target is held to.

**PackageFacts.** The carry-forward of GitHub facts over many collects: the blocks
of a package (counters, issues, Actions, workflows, coverage), each with its own
rule, and the totals. Packages that share a repository are in `MCPackageFacts`.

**SourceFacts.** The version facts of one package over many collects. A collect
reads the manifest, the tags, the head commit and the comparison one after the
other (`ReadManifest`, `ReadTags`, `ReadCommit`, `Compare`), each of which may
fail, while people push, tag, set the coordination tag and fetch the clone. The
listing of tags is one request for each page, and a page that fails ends it with
what came before as if that were all: `ReadTags` reads any subset of the tags, and
the observer `cut` tells that one was left out. `Write` carries forward what was not seen, from the snapshot or from a local clone that
may lag.

**HttpClient.** `get_json`, with and without response headers, `post_json` and
`get_text`; responses that are no JSON, `null` or a value (`null` comes back, and
is cached, as no body and no error, which the observer `answered` tells from a
failure); attempts, retries, the cache file with its two-step write and its
time to live, processes that share it, kills. A clock ticks on its own.

**GitHub.** The credentials ladder of `_get` and `_gh_api_json` and the page
loops, while items come and go, the token dies and the anonymous quota runs out.
The issues are listed with the pull requests among them; `repo_stats` counts both
later, and `open_prs` is the difference.

**Sentry.** The two listings and the users question, while events arrive (an
event moves an issue to the head of the stream and reopens it) and the service
fails, drops its Link header, sends one without cursor or repeats a cursor. The
service's ordering by activity is external: the code relies on the issue stream's
default order and never passes one.

**PublishPipeline.** `main` with, for each commit, its snapshot, the snapshot it
was collected upon and its dashboard; the collect job with its queue of one, its
rebase and its push; the pages group, which cancels the run in progress.

**Dashboard.** Extends the pipeline with what a commit carries to a visitor: the
snapshot (here the verdict of the target the actions wait for) and the checklist
of manual actions, computed by `admin actions` from the snapshot the same job just
wrote. A maintainer may release at any time, and push a snapshot with or without
its checklist. The page is `LoadSnapshot` followed by `LoadManualActions`, between
which the site may move. `Resolved` and `Pending` are the command's decisions,
`PagePending` the page's. `MCDashboard` has an action of each kind: checked for
publication, for green, by an unknown rule, not at all and open, not at all and
done.

**AdminRun.** One `admin run` command over every kind of workflow the inventory
holds (what distinguishes two workflows to the command and to GitHub), its flags, the terminal, the prompt, the resolution of the publish gate,
and what GitHub does with the dispatch.

**ReleaseStaging, StagingRegister.** `build` and `validate` by several processes
over inputs edited one at a time, with failing system calls, kills and power cuts
around mkstemp, fsync and os.replace. The exception handler removes the temporary
file; `os.unlink` may raise as well (`FailUnlink`), and then the file stays. The
observers `stood` (the pairs of inputs there have been) and `since` (how many, when a
command started) let `AcceptedWasCurrent` say that what is accepted is of inputs that
stood together during the validation, though they are read one after the other.
`StagingRegister` is what a reader is promised; `Refines` is the refinement
(`doc <- out`, `proposed` being what `stood` and could be projected). The file is
synced before it is renamed and the directory never is, so a rename is durable
when the file system says so (`Settle`): a power cut undoes every rename since,
however many, and leaves nothing torn.

**NativeCandidate.** The ledger edited one fact at a time, `build` with its write
in place, `validate` on files rebuilt, merged or torn.

## 4. The runs

Eleven passing runs, one per component, and one that shows a divergence (bounds
are the constants of the cfg files). Every module states a type invariant
(`TypeOK`; `FactsTypeOK` in `PackageFacts`, `SentryTypeOK` in `Sentry`,
`CommandTypeOK` in `AdminRun`, `DocumentsTypeOK` in `Dashboard`), and every one is
proved (section 6). No run lists it: the runs are kept for what could be wrong.
`PackageFacts`, `Sentry` and `AdminRun` name their specifications `SpecFacts`,
`SpecSentry` (with fairness `FairSentry`) and `SpecCommand`, because they share a
module of proofs with another component.

| run | bounds | shows |
|---|---|---|
| `collect` | 3 collects, 1 crash, 2 signals of 1 or 2 numbers (one silent), 1 target with a dated and an undated counter | `HonestDating`, `RefreshKeepsSignals`, `RefreshKeepsDownloads`, `TornFileIsReplaced`, `Refines` |
| `package_facts` | 2 packages of one repository, 2 workflows, 3 collects, 3 unanswered probes in each | `IssuesMatchCounters`, `TotalsMatchRows`, `WorkflowsAreRemembered`, `CoverageIsKept` |
| `source_facts` | 3 versions, 3 commits, 3 collects | `TagBelongsToManifest`, `CountReachesTheCommit`, `TagGoesBackOnlyWhenCut` |
| `reconcile` | 6 inventories, 3 versions | `StaleIsReal`, `GreenPackageIsReleased`, `AbsenceIsReal` |
| `http_client` | 2 processes (who uses which call: `MCHttpClient`), 2 attempts, 2 ticks | `ErrorTellsTheTruth`, `HeadersMatchBody`, `ResultIsRecent`, `CallsReturn` |
| `github` | 4 items (one a pull request), pages of 2, quota 2 | `LossIsBoundedByRemovals`, `PullRequestsAreOffByChanges`, `CallEnds` |
| `sentry` | 4 issues, pages of 1, 3 pages, 2 events | `CountIsWhole`, `TalliesOverlapByChanges`, `CollectEnds` |
| `pipeline` | 1 push, 3 collects, 5 kinds of actions | `SnapshotsAreChained`, `SiteNeverGoesBack`, `SiteCatchesUp`, `HiddenIsReleased`, `ListIsNotOlder`, `CountsMatchRows` |
| `pipeline_skip` | 2 pushes, 3 collects | that `SkipIsNoOp` is violated |
| `admin` | every kind of workflow and command | `NoUnconfirmedPublish`, `AdviceWorks`, `GateFollowsTheFlags` |
| `staging` | 2 processes, 2 components, 2 edits, 2 faults | `OutIsOneRelease`, `TempsAreAccountedFor`, `AcceptedWasCurrent`, `Refines` |
| `candidate` | 6 commits to the ledger | `OneReleaseState`, `GoNeedsTheReceipts` |

Why the bounds are enough to be interesting: three collects are a reading, a
carry and a carry of a carry; a signal with two windows may have one read and the
other not; three versions are a release, a prerelease and the release after it,
and three commits a place for each; three unanswered probes break each
carry-forward rule alone and with two others; four items in pages of two fill two
pages and need the empty third; four issues with three pages exceed the page
limit; two attempts are the last one and the one before; two faults are a system
call that fails and the removal that fails after it, and two processes two
renames that one power cut undoes; three collects fill the queue of GitHub (one
runs, one waits, one is replaced) and a push moves `main` under any of them;
four commits record a whole release and two more undo parts of it. No symmetry
set is declared. In `Sentry` the initial order of the issues is fixed instead:
they differ in nothing but their activity, so every order is a renaming of that
one.

`CHECK_DEADLOCK FALSE` stands where the system really stops: no command is
running and a bound has been reached, or the only command has ended.

### Where the program departs from what it says of itself

One run, `pipeline_skip`, checks a comment of `pages.yml` against the workflow
and TLC finds it violated: the pages run of a failed collect, which the comment
calls "a no-op at best" (`.github/workflows/pages.yml:37-38`), first cancels the
deployment under way, and nothing redeploys it. `PROJECT.json` has the finding.

The models were written from the code and contain the following behaviours too,
each of which contradicts a comment or document. They are described here, and no
property of the runs denies or needs them.

| code | behaviour | what is said |
|---|---|---|
| `cockpit/cli.py:407` | an offline refresh of the default file drops every download counter, since offline no target is green, stale or pending | "A local refresh should not erase the last successful public counters" (`cli.py:193`) |
| `cockpit/cli.py:263` | offline, repository counters are dropped while issues are kept | "Keep prior GitHub facts when a local collect loses them transiently." (`cli.py:233`) |
| `cockpit/cli.py:251` | a restored tag leaves the expected version as derived without it | "derived (prod tag, else manifest)" (`model.py:105`) |
| `cockpit/cli.py:346` | the tag taken from a local clone may be a prerelease | "newest non-prerelease tag" (`model.py:103`) |
| `cockpit/collect/github.py:149` | a page of tags that fails ends the listing as if it were whole, and the highest version of what came before (`reconcile.py:398`) may take the production tag back beside an unchanged manifest | as `model.py:103` |
| `cockpit/cli.py:282` | a failed tag listing beside a readable branch drops the tag | as `cli.py:233` |
| `cockpit/reconcile.py:610` | a Pages probe that times out is `missing` | `unknown` is the "Inconclusive probe" and "Never a red verdict" (`README.md:236`) |
| `cockpit/reconcile.py:632` | a 200 that does not parse, or a 403, is `missing` | `missing` is "Not found (404)" (`README.md:234`) |
| `cockpit/version.py:116` | with the tag listing failed, an unreleased bump makes a current registry `stale` | "It never reddens a target." (`README.md:242`) |
| `cockpit/reconcile.py:460` | a `manual` GitHub release or Pages target decides the roll-up | "`excluded` and `manual` cells are ignored" (`reconcile.py:636`) |
| `cockpit/reconcile.py:513` | a failed release run with nothing published is `missing` | `broken`: "a failed release run with no published version" (`README.md:235`) |
| `cockpit/collect/cran.py:48` | a package CRAN removed is `green` when its canonical page cannot be read | the record is "intentionally not enough to identify a removal" (`cran.py:8`) |
| `cockpit/http.py:211` | after the last attempt a 429 or 5xx is returned with its own status | "exhausted retries: (0, None, reason)" (`http.py:109-110`) |
| `cockpit/http.py:234` | a negative Retry-After raises out of the client | "they never raise on an HTTP error status" (`http.py:4-6`) |
| `cockpit/collect/github.py:463` | a page that fails leaves a partial listing that looks whole | failures are "``None``/empty results" (`github.py:5-6`) |
| `cockpit/reconcile.py:284` | an issue listing cut short turns the issues it did not reach into pull requests | it "subtracts real issues to derive ``open_prs``" (`github.py:289`) |
| `cockpit/collect/github.py:69` | a stale token with a spent quota makes a release `missing` | "must not turn public GitHub endpoints into false missing releases/tags" (`github.py:59-60`) |
| `cockpit/native_candidate.py:748` | a final release has `downloads_enabled`, registry links and components that are `published`, and the train is `go` (so has `data/native-candidate-staging.json`) | "Its schema cannot carry download or registry links: every component is `unavailable`, the train is `no_go`" (`docs/release-staging.md:42-44`) |
| `cockpit/admin.py:262` | a `trigger: tag` workflow that publishes on dispatch is dispatched | "never dispatches" (`admin.py:206-207`) |
| `cockpit/admin.py:271` | a dry run leaves a gate given with `--input` on | "forced off" (`admin.py:222-223`) |

## 5. Fairness

Weak fairness only, and only of steps the program or GitHub takes by itself; no
person, service or crash is ever obliged to act.

- `Collect`: each step of a run in progress, and the start of the next (the
  workflow has a daily schedule). Crashes are bounded: a file torn for ever would
  need every run to be killed.
- `HttpClient`, `GitHub`, `Sentry`: the steps of a call in progress. A request
  has a timeout and a bounded number of attempts, so it comes back; what it comes
  back with is left open.
- `PublishPipeline`, `Dashboard`: the steps of the running collect and of the
  running pages workflow. GitHub runs what is queued, and jobs have a timeout.
  `SiteCatchesUp` assumes the newest pages run is neither skipped nor failed,
  which is exactly what the code does not ensure (`pipeline_skip`). Pushes,
  releases, triggers and page loads are never obliged.

## 6. What is proved

TLAPS checks these for every value of the constants.

**`CollectProofs`**, from `CollectAssumption` (the bounds are naturals,
`SilentSignals \subseteq Signals`, signals and targets are apart, verdicts are
states). `TypeCorrect`; `HonestRunInvariant`: `HonestDating` alone is not
inductive, because what will be published is already in `snap` and what it
carries comes from `prior`, so the invariant dates all three, and orders their
stamps against the clock; `DatingIsHonest` follows. `SignalsAreKept` and
`DownloadsAreKept` are action properties of the last step of a run:
`KeptRunInvariant` says, for each phase after `CarryForward`, that `snap` already
has what the property will ask of the file. `Implementation` is the refinement of
`DatedFacts`: `RefiningRun` says that what `snap` shows of each fact is, once
carried, what the file showed when it was read, blank, or a reading of this run.

**`ReconcileProofs`**, from `ReconcileAssumption` (inventories are sequences of
declared targets, `MaxVersion` is positive). `SoundInvariant` proves `Sound`: each
cell stands in its relation (`CellTrue`) to the answer it came from and to the
tag that was listed, tags only grow, and the listed tag bounds every production
tag there was. It follows from one lemma per kind of probe (`ProbeVersionTrue`
over the answers of every registry, `ProbeIndexTrue`, `ProbePagesTrue`,
`DeclareTrue`). `StaleVerdictsAreReal`,
`GreenPackagesAreReleased` and `AbsencesAreReal` are corollaries, for any
inventory and in any interleaving with the world.

**`HttpClientProofs`**, from `HttpAssumption`. Two facts about the shared state
make every call's result sound: a whole cache entry was read when it is dated
(`SoundFile`), and a call that sleeps, writes or has returned already keeps its
promises (`SoundCall`). An entry is dated when the write ends, so the proof needs
that time does not pass during a write, which is how `Tick` is guarded and the
only place the model's clock is coarser than a machine's. `ErrorIsTruthful`,
`HeadersBelong` and `ResultsAreRecent` follow. `CallsAreBounded` counts the steps a
call has left: each step of the call leaves fewer, and nobody else's step more.

The second half of the module is `Sentry`, from `SentryAssumption` (the issues are
finitely many and each can have a time stamp of its own). `CountIsWhole` says
nothing of a listing in progress, so `SentryInv` says where it is (`Listing`):
everything collected was last active at the cursor or after, and every issue that
is still steady is collected or before the cursor. The lemma `BodyIs` gives what
a page is worth: unless it is full and there are more, it has all there was to
come, and the next cursor divides what it has from what it has not. A page
without metadata is safe only by its length, which is where the proof needs the
test of `sentry.py:118`. Issues move only to the front, past the cursor, and lose their
steadiness when they do (`DisturbStep`). `Tallied` says that what was counted
under a query and has not changed still matches it, so an issue in both tallies
has changed: `TalliesOverlap`. `RequestsAreBounded` counts the requests left.

**`GitHubProofs`**, from `GitHubAssumption` and `PackageFactsAssumption`. For the
listings, `GitHubInv` relates three views of the repository: what was there when
the listing began, what has come and gone since, and what was listed. Neither
property is inductive. The invariant says of a listing in progress that it lost at
most one item per removal among those it has gone past (`Lost`): those whose
place is before the next page, or that are newer than one listed. A removal before
the next page moves one item across that boundary and takes one into `removed`
(`DeleteStep`); a creation moves items the other way, which may repeat and never
lose (`CreateStep`); a page moves the boundary over exactly what it lists
(`PageStep`). The upper bound on pull requests is proved from below: `Ahead`, the
positions that would hold an issue if the listing went on undisturbed, never
exceed the issues there were and what was added, so a listing never counts more.
`LossIsBounded` and `PullRequestsAreClose` follow; the type of `page` bounds the
page loop by the number of items, and `RequestsAreBounded` the requests of a call.

For the package facts, `FactsInv` adds to the two invariants of the run that what
a collect built is of its own date or blank (`SeenAt`) and that nothing published
is of a later one (`SeenBefore`). `IssuesBelong`, `TotalsAgree`, `WorkflowsStay`
and `CoverageStays` follow. The totals are those of the first package of a
repository, so their proof needs that `Packages` lists packages, and a least index
(`FirstExists`).

**`SourceFactsProofs`**, from `SourceFactsAssumption`. `WorldInv` (every tag,
and everything the clone fetched, is on the branch), `ProgressInv` (which facts
the running collect may have), `MilestoneInv` (what is shown when the
coordination tag is the reference), `TagInv` (unless the listing was cut short, the tag
read is not older than a production tag published), and `Facts`, said of the running collect and of the
published snapshot alike: the tag is of the manifest beside it, the commit is
within the count. `TagsBelong`, `CountsReach` and `TagsGoBackOnlyWhenCut` are then
cases of the writing step.

**`DashboardProofs`**, from `PipelineAssumption` and `DashboardAssumption`. For
the pipeline, `Inv` says that `main` is a sequence of commits, that a collect
works upon a commit of `main`, that once it has rebased the commit it will be
pushed onto still holds the snapshot it was collected upon, that the running
pages workflow's commit is not older than the site's, and that snapshots are
chained. `ChainedSnapshots` and `SiteOnlyAdvances` follow. `TypeCorrect` needs
the length of `main` counted against pushes and collects (`RoomInv`).
`DeployedShowsMain` is the safety half of `SiteCatchesUp`: a site whose newest
pages run deployed shows what `main` holds, unless a collect has pushed and not yet
completed. Its invariant `CurrentInv` says the same of the commit a running pages
workflow will deploy, which is why a run may be cancelled and nothing is lost: the
one that cancels it starts on the head, or deploys nothing and is then the newest.
`PipelineInside` says that the pipeline with documents is still the pipeline, so
that `Inv` holds of it; over it, `DocumentsInv` says that a green or stale
verdict comes after the release (`VerdictInv`), that from a commit whose
snapshot came with its checklist on, no checklist was computed from a snapshot
older than that commit (`ListsInv`), and that an open page shows a commit the
site has reached (`PageInv`). `DocumentsTypeCorrect`, `HiddenOnlyWhenReleased`,
`ListsOnlyAdvance` and `CountsAreTheRows` follow.

**`ReleaseProofs`** has two components. `ReleaseStaging`, from `StagingAssumption`. `Sound`: whatever is on the
disk, in a temporary file or loaded by a running command is the projection of a
manifest and a lock that stood together, for a command at some moment since it
started, and every temporary file belongs to the process that is writing it. The
two reads of a command are tied by `Covered`: while it has only the manifest, no
other manifest has its number, and the lock, if it fits that manifest, has stood
with it since the command started, because a new lock digests the manifest of the
moment. `PublishedIsOneRelease` and `AcceptanceIsCurrent` follow. The abandoned
files are counted against the faults by an invariant of their own (`Charged`), which
gives `TempsHaveCauses`. `Implementation` maps each system call, failure, kill and
power cut to a step of `StagingRegister`.

`AdminRun`, from no assumption: the inventory's kinds of workflow are a definition.
The invariant `Decided` keeps, for a command past its prompt, that
the prompt was answered, and for an outcome, that it is the one `Decision` gives.
The heart is the lemma `PublishNeedsConfirm`: whatever spelling of a gate GitHub
reads as publishing, the program asked a confirmation for, since a workflow whose
gate is `dry_run` (the convention with two spellings of false) is always marked as
publishing. `NoPublishUnconfirmed`, `AdviceIsSound` and `GateIsTheIntent` follow.

**`NativeCandidateProofs`**, from `CandidateAssumption`. The invariant `Judged`
says that the verdict `valid` is about the file as it is now, which every rebuild,
merge or kill must undo; `OneStory` follows from what `Valid` compares.
`DownloadsNeedReceipts` is an action property of `Build`: the checks of the ledger
leave promotion and milestone apart, and the final validation relates them.

Every safety and action property of the passing runs is the statement of a theorem.
Beyond the prover and left to TLC: liveness under fairness (`TornFileIsReplaced`,
`CallsReturn`, `CallEnds`, `CollectEnds`, `SiteCatchesUp`), since fairness is about
ENABLED. Of three of them the theorems have the part that is not about fairness:
`CallsAreBounded` and the two `RequestsAreBounded` give a natural number that every
step of the call decreases and no other step increases, so that a call that keeps
taking steps ends; that it can always take one is what TLC checks. `DeployedShowsMain` is the same for
`SiteCatchesUp`: where the site stands once the pages have come to rest.

## 7. What is left out

- text: version grammars, manifest parsing, HTML, formatting of commands;
- figures: sums of lines, downloads and events are their readings, not numbers;
- several packages in one reconcile: they share nothing but the r-universe index,
  which is in the model of one package with several targets, and the HTTP cache;
- `append_history`, which no command calls;
- two collects over one file at once: the workflow's concurrency group forbids
  it, and a person's local file is a checkout of its own;
- see "components" in `PROJECT.json` for the parts with no state to model.

## 8. How it is built, and what comes next

In this order: `Collect` over `DatedFacts` (what is published and what survives),
`Reconcile` (whether it is true), `HttpClient` and `GitHub` (what the answers are
worth), `PackageFacts` and `SourceFacts` (the rest of the memory),
`PublishPipeline` and `Dashboard` upon it, `AdminRun`, `ReleaseStaging` over
`StagingRegister`, `NativeCandidate`, `Sentry`. Each component has one run; what
is added extends the modules and the runs there are, so that the number of
questions asked stays readable.

What could be added to the model:

1. In `GitHub`: annotated tags, the listing of workflow runs and the Actions
   statistics.
2. In `Dashboard`: freshness by the reader's clock, and `worstState` against the
   roll-up of `Reconcile`.
3. `admin collect` and the code statistics, whose results are observed values in
   `PackageFacts`.

What could be proved: of `TornFileIsReplaced`, a bound on the steps of a collect, as
for the calls.
