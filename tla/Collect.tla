------------------------------ MODULE Collect ------------------------------
(***************************************************************************)
(* The `collect` command over many runs: each run reads the snapshot left  *)
(* by an earlier one, probes the public signals and the download counters  *)
(* again, carries forward what it could not see, and rewrites the file in  *)
(* place.  A run may be killed at any point.                               *)
(*                                                                         *)
(* A reading is the set of numbers it has (the windows, pages and queries  *)
(* of a signal, the counters of a target); what they are is abstracted to  *)
(* the run that read them: `read` is the stamp of the collect whose answer *)
(* the numbers are.  It is an observer of the model; the program itself    *)
(* only has observed_at and carried_forward.                               *)
(***************************************************************************)
EXTENDS Integers

CONSTANTS
  Signals,        \* aggregates of the snapshot: visits, search_console, sentry
  SilentSignals,  \* those whose failed probe leaves `error` at None (visits)
  Targets,        \* (package, registry, name) of the targets with downloads
  Numbers,        \* the numbers there are
  NumbersOf,      \* those of each signal and each target
  UndatedNumbers, \* downloads that leave observed_at alone (a 90-day window)
  Verdicts,       \* bound: the verdicts of a target told apart
  MaxCollects,    \* bound: collects in a behaviour
  MaxCrashes      \* bound: runs killed in a behaviour

Facts == Signals \cup Targets

States == {"green", "stale", "pending", "missing", "broken", "unknown", "excluded"}

ASSUME CollectAssumption ==
  /\ MaxCollects \in Nat /\ MaxCrashes \in Nat
  /\ SilentSignals \subseteq Signals
  /\ Signals \cap Targets = {}
  /\ \A f \in Facts : NumbersOf[f] \subseteq Numbers
  /\ Verdicts \subseteq States /\ "unknown" \in Verdicts

VARIABLES
  clock,     \* stamp of the newest run (_utc_now, strictly increasing)
  crashes,   \* runs killed so far
  file,      \* data/current.json, NoSnapshot when absent or torn
  torn,      \* the file exists and holds a truncated document
  phase,     \* where the running collect is
  offline,   \* its --offline option
  prior,     \* the snapshot it read at its start
  snap,      \* the snapshot it is building
  answer,    \* how each signal's probe of this run ended
  status     \* the verdict of each target in this run

vars == <<clock, crashes, file, torn, phase, offline, prior, snap, answer, status>>

-----------------------------------------------------------------------------
NoStamp == -1
Stamp   == 0 .. MaxCollects          \* 0 stamps the snapshot found at the start
Phases  == {"idle", "probing", "built", "carried", "writing"}
Published == {"green", "stale", "pending"}   \* verdicts of a target still published

\* The probe of a signal: not asked offline or without credentials; asked, the
\* numbers it got, none when every request failed.
Answers == [asked : BOOLEAN, numbers : SUBSET Numbers]
NotAsked == [asked |-> FALSE, numbers |-> {}]

Reading == [numbers : SUBSET Numbers, read : Stamp \cup {NoStamp},
            observed_at : Stamp \cup {NoStamp}, carried_forward : BOOLEAN]

Unread == [numbers |-> {}, read |-> NoStamp, observed_at |-> NoStamp, carried_forward |-> FALSE]

\* One number is enough for a reading to be available; the others are null.
Available(r) == r.numbers # {}

\* A reading dated by the run that made it, or not dated at all.
Fresh(at, ns)   == [numbers |-> ns, read |-> at, observed_at |-> at, carried_forward |-> FALSE]
Undated(at, ns) == [numbers |-> ns, read |-> at, observed_at |-> NoStamp, carried_forward |-> FALSE]

\* What a run reads of a signal.
Signal(at, ns) == IF ns = {} THEN Unread ELSE Fresh(at, ns)

\* What it reads of a target's downloads: dated by last_day, last_week,
\* last_month or total.
Downloads(at, ns) ==
  IF ns = {} THEN Unread ELSE IF ns \subseteq UndatedNumbers THEN Undated(at, ns) ELSE Fresh(at, ns)

Snapshot == [generated_at : Stamp \cup {NoStamp},
             signals : [Signals -> Reading], downloads : [Targets -> Reading]]

NoSnapshot == [generated_at |-> NoStamp,
               signals |-> [s \in Signals |-> Unread],
               downloads |-> [t \in Targets |-> Unread]]

-----------------------------------------------------------------------------
\* What dies with the process.
Forget ==
  /\ offline' = FALSE
  /\ prior' = NoSnapshot /\ snap' = NoSnapshot
  /\ answer' = [s \in Signals |-> NotAsked]
  /\ status' = [t \in Targets |-> "unknown"]

\* A snapshot of this version, or of one that did not date its readings yet.
Init ==
  /\ clock = 0 /\ crashes = 0
  /\ \/ file = NoSnapshot
     \/ \E S \in SUBSET Signals, T \in SUBSET Targets, dated \in BOOLEAN :
          LET r(f) == IF dated THEN Fresh(0, NumbersOf[f]) ELSE Undated(0, NumbersOf[f])
          IN  file = [generated_at |-> 0,
                      signals |-> [s \in Signals |-> IF s \in S THEN r(s) ELSE Unread],
                      downloads |-> [t \in Targets |-> IF t \in T THEN r(t) ELSE Unread]]
  /\ torn = FALSE
  /\ phase = "idle"
  /\ offline = FALSE
  /\ prior = NoSnapshot /\ snap = NoSnapshot
  /\ answer = [s \in Signals |-> NotAsked]
  /\ status = [t \in Targets |-> "unknown"]

\* Slip: a document that does not parse is an error.
StartParsed(off) ==
  /\ phase = "idle" /\ ~torn
  /\ clock < MaxCollects
  /\ clock' = clock + 1
  /\ phase' = "probing"
  /\ offline' = off
  /\ prior' = file
  /\ UNCHANGED <<crashes, file, torn, snap, answer, status>>

\* A run starts: it reads whatever the file holds, and an unreadable file is
\* the same to it as no file.
Start(off) ==
  /\ phase = "idle"
  /\ clock < MaxCollects
  /\ clock' = clock + 1
  /\ phase' = "probing"
  /\ offline' = off
  /\ prior' = file
  /\ UNCHANGED <<crashes, file, torn, snap, answer, status>>

\* The snapshot as the probes leave it, before anything is carried forward.
Observed(at, ans, counted) ==
  [generated_at |-> at,
   signals |-> [s \in Signals |-> Signal(at, ans[s].numbers)],
   downloads |-> [t \in Targets |-> Downloads(at, counted[t])]]

\* What the probes of a run may give: each number is a request of its own that
\* may fail alone; offline nothing is asked.
Probed(ans) ==
  \A s \in Signals : /\ ans[s].numbers \subseteq NumbersOf[s]
                     /\ offline => ~ans[s].asked
                     /\ ~ans[s].asked => ans[s].numbers = {}

\* A target's counters come from a statistics service of their own, there or not
\* whatever the verdict is.
Counted(counted) ==
  \A t \in Targets : counted[t] \subseteq IF offline THEN {} ELSE NumbersOf[t]

\* build_snapshot
Build ==
  /\ phase = "probing"
  /\ \E ans \in [Signals -> Answers], counted \in [Targets -> SUBSET Numbers] :
       /\ Probed(ans) /\ Counted(counted)
       /\ answer' = ans
       /\ snap' = Observed(clock, ans, counted)
  /\ \E st \in [Targets -> Verdicts] :
       /\ offline => \A t \in Targets : st[t] \in {"unknown", "missing", "excluded"}
       /\ status' = st
  /\ phase' = "built"
  /\ UNCHANGED <<clock, crashes, file, torn, offline, prior>>

\* _missing_public_signal_token: error is None, or names a missing credential.
MissingToken(s, ans) == ~ans.asked \/ (ans.numbers = {} /\ s \in SilentSignals)

\* Slip: the carried counters take the date of the snapshot they come from.
CarriedRelabelled(r) ==
  [r EXCEPT !.observed_at = prior.generated_at, !.carried_forward = TRUE]

\* Slip: a reading without a date is carried without one.
CarriedUndated(r) == [r EXCEPT !.carried_forward = TRUE]

\* _mark_carried_forward
Carried(r) ==
  [r EXCEPT !.observed_at = IF r.observed_at = NoStamp THEN prior.generated_at ELSE r.observed_at,
            !.carried_forward = TRUE]

\* Slip: only a signal without any error message is carried.
KeepSilentSignal(s) ==
  ~Available(snap.signals[s]) /\ Available(prior.signals[s]) /\ offline

KeepSignal(s) ==
  ~Available(snap.signals[s]) /\ Available(prior.signals[s]) /\ MissingToken(s, answer[s])

\* Slip: a stale target counts as no longer published.
KeepGreenDownloads(t) ==
  ~Available(snap.downloads[t]) /\ Available(prior.downloads[t]) /\ status[t] = "green"

KeepDownloads(t) ==
  ~Available(snap.downloads[t]) /\ Available(prior.downloads[t]) /\ status[t] \in Published

\* _carry_forward_public_signals: signals first, then the download counters,
\* each as a whole.
CarryForward ==
  /\ phase = "built"
  /\ snap' = [snap EXCEPT
       !.signals = [s \in Signals |-> IF KeepSignal(s) THEN Carried(prior.signals[s]) ELSE @[s]],
       !.downloads = [t \in Targets |->
                        IF KeepDownloads(t) THEN Carried(prior.downloads[t]) ELSE @[t]]]
  /\ phase' = "carried"
  /\ UNCHANGED <<clock, crashes, file, torn, offline, prior, answer, status>>

\* write_snapshot is a plain write_text: opening truncates the file, the
\* document is complete only when the write ends.
OpenOutput ==
  /\ phase = "carried"
  /\ file' = NoSnapshot
  /\ torn' = TRUE
  /\ phase' = "writing"
  /\ UNCHANGED <<clock, crashes, offline, prior, snap, answer, status>>

FinishWrite ==
  /\ phase = "writing"
  /\ file' = snap
  /\ torn' = FALSE
  /\ phase' = "idle"
  /\ Forget
  /\ UNCHANGED <<clock, crashes>>

\* The process dies (kill, job timeout, full disk).  The bound leaves the last
\* collect of a behaviour alone.
Crash ==
  /\ phase # "idle"
  /\ crashes < MaxCrashes /\ clock < MaxCollects
  /\ crashes' = crashes + 1
  /\ phase' = "idle"
  /\ Forget
  /\ UNCHANGED <<clock, file, torn>>

Next ==
  \/ \E off \in BOOLEAN : Start(off)
  \/ Build
  \/ CarryForward
  \/ OpenOutput
  \/ FinishWrite
  \/ Crash

Spec == Init /\ [][Next]_vars

\* The schedule runs a collect every day, and a started run goes on by itself.
Fairness ==
  /\ WF_vars(\E off \in BOOLEAN : Start(off))
  /\ WF_vars(Build) /\ WF_vars(CarryForward)
  /\ WF_vars(OpenOutput) /\ WF_vars(FinishWrite)

FairSpec == Spec /\ Fairness

-----------------------------------------------------------------------------
\* Types of every variable of the command.
TypeOK ==
  /\ clock \in Stamp
  /\ crashes \in 0 .. MaxCrashes
  /\ file \in Snapshot /\ prior \in Snapshot /\ snap \in Snapshot
  /\ torn \in BOOLEAN /\ offline \in BOOLEAN
  /\ phase \in Phases
  /\ answer \in [Signals -> Answers]
  /\ status \in [Targets -> Verdicts]

\* observationNote: the date the page shows beside the numbers of a reading in a
\* snapshot generated at `gen`.
ShownDate(r, gen) ==
  IF r.observed_at # NoStamp THEN r.observed_at
  ELSE IF r.carried_forward THEN NoStamp ELSE gen

\* A reading is honest in a snapshot generated at `gen` when the page dates it
\* at the collect that read it and carried_forward says whether that is an
\* older one.
Honest(r, gen) ==
  Available(r) =>
    /\ r.read \in 0 .. gen
    /\ ShownDate(r, gen) = r.read
    /\ r.carried_forward <=> r.read # gen

HonestSnapshot(sn) ==
  /\ \A s \in Signals : Honest(sn.signals[s], sn.generated_at)
  /\ \A t \in Targets : Honest(sn.downloads[t], sn.generated_at)

\* However many runs carried a counter forward, the page dates it at the
\* collect that read it and marks it as carried iff that is an earlier one
\* ("Retain the observation date instead of relabelling old counters as
\* fresh", _mark_carried_forward).
HonestDating == HonestSnapshot(file)

\* The whole run in between: what it read, what it built.  This is the
\* inductive strengthening of HonestDating.
HonestRun ==
  /\ HonestSnapshot(file) /\ HonestSnapshot(prior) /\ HonestSnapshot(snap)
  /\ file.generated_at <= clock
  /\ phase # "idle" => prior.generated_at < clock
  /\ phase \in {"built", "carried", "writing"} => snap.generated_at = clock

Completes == phase = "writing" /\ phase' = "idle" /\ ~torn'

\* A number that is gone was replaced by others of the same fact, read by this
\* very run; nothing goes back to an older collect.
Kept(old, new) ==
  /\ Available(new) /\ new.read >= old.read
  /\ old.numbers \subseteq new.numbers \/ new.read = clock

\* A refresh that could not see a signal because it lacked the credentials (or
\* ran offline, or got no answer from a silent one) keeps every number it found;
\* one that read a part of them publishes that part and no older number.
RefreshKeepsSignals ==
  [][Completes => \A s \in Signals :
       (/\ Available(prior.signals[s])
        /\ MissingToken(s, answer[s]) \/ answer[s].numbers # {})
           => Kept(prior.signals[s], file'.signals[s])]_vars

\* The download counters of a target that is still published survive a run in
\* which its statistics service gave none.
RefreshKeepsDownloads ==
  [][Completes => \A t \in Targets :
       (Available(prior.downloads[t]) /\ status[t] \in Published) =>
         Kept(prior.downloads[t], file'.downloads[t])]_vars

\* A file torn by a killed run is replaced by a whole one: the next run must
\* not choke on it.
TornFileIsReplaced == torn ~> ~torn

-----------------------------------------------------------------------------
\* The refinement: until a write ends, the snapshot it replaces is the one
\* shown; a run killed in the middle of it loses that one.
Committed == IF phase = "writing" THEN prior ELSE file

\* What the page shows of a reading.
View(r, gen) ==
  IF Available(r) THEN [at |-> ShownDate(r, gen), numbers |-> r.numbers]
  ELSE [at |-> NoStamp, numbers |-> {}]

ViewOf(sn) ==
  [f \in Facts |-> IF f \in Signals THEN View(sn.signals[f], sn.generated_at)
                   ELSE View(sn.downloads[f], sn.generated_at)]

DF == INSTANCE DatedFacts
        WITH Stamps <- Stamp, NoDate <- NoStamp, shown <- ViewOf(Committed)

\* The command keeps the promise of DatedFacts.
Refines == DF!Spec

=============================================================================
