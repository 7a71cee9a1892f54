--------------------------- MODULE CollectProofs ---------------------------
(***************************************************************************)
(* Proofs about Collect for every number of signals, targets, collects and *)
(* crashes: the types, the honest dating of everything that is published,  *)
(* that a refresh keeps what it could not see, and that the command        *)
(* implements DatedFacts.                                                  *)
(***************************************************************************)
EXTENDS Collect, TLAPS

\* A reading a run makes itself, or does not make, is a Reading.
LEMMA ReadingTypes ==
  /\ Unread \in Reading
  /\ \A at \in Stamp, ns \in SUBSET Numbers : Fresh(at, ns) \in Reading /\ Undated(at, ns) \in Reading
  /\ NoSnapshot \in Snapshot
<1>1. Unread \in Reading
  BY DEF Unread, Reading, NoStamp
<1>2. ASSUME NEW at \in Stamp, NEW ns \in SUBSET Numbers
      PROVE  Fresh(at, ns) \in Reading /\ Undated(at, ns) \in Reading
  BY DEF Fresh, Undated, Reading, NoStamp
<1>3. NoSnapshot \in Snapshot
  BY <1>1 DEF NoSnapshot, Snapshot, NoStamp
<1> QED BY <1>1, <1>2, <1>3

\* What a run reads itself: its numbers, dated by the run or not at all.
Own(r, at, ns) ==
  /\ r \in Reading
  /\ r.numbers = ns
  /\ ns # {} => r.read = at /\ r.carried_forward = FALSE /\ r.observed_at \in {at, NoStamp}

LEMMA OwnReading ==
  ASSUME NEW at \in Stamp, NEW ns \in SUBSET Numbers
  PROVE  Own(Signal(at, ns), at, ns) /\ Own(Downloads(at, ns), at, ns)
<1>1. ns = {} => Own(Unread, at, ns)
  BY ReadingTypes DEF Own, Unread
<1>2. Own(Fresh(at, ns), at, ns) /\ Own(Undated(at, ns), at, ns)
  BY ReadingTypes DEF Own, Fresh, Undated
<1>3. Signal(at, ns) = IF ns = {} THEN Unread ELSE Fresh(at, ns)
  BY DEF Signal
<1>4. \/ ns = {} /\ Downloads(at, ns) = Unread
      \/ Downloads(at, ns) = Fresh(at, ns)
      \/ Downloads(at, ns) = Undated(at, ns)
  BY DEF Downloads
<1> QED BY <1>1, <1>2, <1>3, <1>4

\* Carrying a reading forward yields a Reading with the same counters, read at
\* the same collect.
LEMMA CarriedReading ==
  ASSUME NEW r \in Reading, prior \in Snapshot
  PROVE  /\ Carried(r) \in Reading
         /\ Carried(r).numbers = r.numbers
         /\ Carried(r).read = r.read
         /\ Carried(r).carried_forward = TRUE
         /\ Carried(r).observed_at =
              IF r.observed_at = NoStamp THEN prior.generated_at ELSE r.observed_at
BY DEF Carried, Reading, Snapshot, NoStamp

\* What the probes leave is a snapshot stamped by the run, each of its readings
\* the run's own.
LEMMA ObservedSnapshot ==
  ASSUME NEW at \in Stamp, NEW ans \in [Signals -> Answers], NEW counted \in [Targets -> SUBSET Numbers]
  PROVE  /\ Observed(at, ans, counted) \in Snapshot
         /\ Observed(at, ans, counted).generated_at = at
         /\ \A s \in Signals : Observed(at, ans, counted).signals[s] = Signal(at, ans[s].numbers)
         /\ \A t \in Targets : Observed(at, ans, counted).downloads[t] = Downloads(at, counted[t])
<1>1. \A s \in Signals : Signal(at, ans[s].numbers) \in Reading
  <2> TAKE s \in Signals
  <2>1. ans[s].numbers \in SUBSET Numbers
    BY DEF Answers
  <2> QED BY <2>1, OwnReading DEF Own
<1>2. \A t \in Targets : Downloads(at, counted[t]) \in Reading
  <2> TAKE t \in Targets
  <2>1. counted[t] \in SUBSET Numbers
    OBVIOUS
  <2> QED BY <2>1, OwnReading DEF Own
<1> QED BY <1>1, <1>2 DEF Observed, Snapshot

\* The effect of CarryForward on the snapshot being built.
LEMMA CarriedSnapshot ==
  ASSUME TypeOK, CarryForward
  PROVE  /\ snap' \in Snapshot
         /\ snap'.generated_at = snap.generated_at
         /\ \A s \in Signals : snap'.signals[s] =
              IF KeepSignal(s) THEN Carried(prior.signals[s]) ELSE snap.signals[s]
         /\ \A t \in Targets : snap'.downloads[t] =
              IF KeepDownloads(t) THEN Carried(prior.downloads[t]) ELSE snap.downloads[t]
<1> DEFINE sig == [s \in Signals |-> IF KeepSignal(s) THEN Carried(prior.signals[s]) ELSE snap.signals[s]]
           dl  == [t \in Targets |->
                     IF KeepDownloads(t) THEN Carried(prior.downloads[t]) ELSE snap.downloads[t]]
<1>1. prior \in Snapshot /\ snap \in Snapshot
  BY DEF TypeOK
<1>2. sig \in [Signals -> Reading]
  <2>1. \A s \in Signals : prior.signals[s] \in Reading /\ snap.signals[s] \in Reading
    BY <1>1 DEF Snapshot
  <2> QED BY <1>1, <2>1, CarriedReading
<1>3. dl \in [Targets -> Reading]
  <2>1. \A t \in Targets : prior.downloads[t] \in Reading /\ snap.downloads[t] \in Reading
    BY <1>1 DEF Snapshot
  <2> QED BY <1>1, <2>1, CarriedReading
<1>4. snap' = [snap EXCEPT !.signals = sig, !.downloads = dl]
  BY DEF CarryForward
<1> HIDE DEF sig, dl
<1>5. /\ snap' \in Snapshot /\ snap'.generated_at = snap.generated_at
      /\ snap'.signals = sig /\ snap'.downloads = dl
  BY <1>1, <1>2, <1>3, <1>4 DEF Snapshot
<1> QED BY <1>5 DEF sig, dl

\* What a dead process leaves in memory is well typed.
LEMMA Forgotten ==
  ASSUME Forget
  PROVE  /\ offline' \in BOOLEAN /\ prior' \in Snapshot /\ snap' \in Snapshot
         /\ answer' \in [Signals -> Answers] /\ status' \in [Targets -> Verdicts]
BY ReadingTypes, CollectAssumption DEF Forget, Answers, NotAsked

\* A snapshot found at the start, when there is one.
LEMMA FoundSnapshot ==
  ASSUME Init, file # NoSnapshot
  PROVE  /\ file \in Snapshot /\ file.generated_at = 0
         /\ \A s \in Signals : Honest(file.signals[s], 0)
         /\ \A t \in Targets : Honest(file.downloads[t], 0)
<1> DEFINE own(d, f) == IF d THEN Fresh(0, NumbersOf[f]) ELSE Undated(0, NumbersOf[f])
<1>1. PICK S \in SUBSET Signals, T \in SUBSET Targets, dated \in BOOLEAN :
        file = [generated_at |-> 0,
                signals |-> [s \in Signals |-> IF s \in S THEN own(dated, s) ELSE Unread],
                downloads |-> [t \in Targets |-> IF t \in T THEN own(dated, t) ELSE Unread]]
  BY DEF Init
<1>2. 0 \in Stamp
  BY CollectAssumption DEF Stamp
<1>3. ASSUME NEW f \in Facts PROVE own(dated, f) \in Reading /\ Honest(own(dated, f), 0)
  <2>1. NumbersOf[f] \in SUBSET Numbers
    BY CollectAssumption
  <2>2. Fresh(0, NumbersOf[f]) \in Reading /\ Undated(0, NumbersOf[f]) \in Reading
    BY <1>2, <2>1, ReadingTypes
  <2>3. Honest(Fresh(0, NumbersOf[f]), 0) /\ Honest(Undated(0, NumbersOf[f]), 0)
    BY DEF Honest, ShownDate, Fresh, Undated, NoStamp
  <2> QED BY <2>2, <2>3
<1>4. Unread \in Reading /\ Honest(Unread, 0)
  BY ReadingTypes DEF Honest, Available, Unread
<1>5. \A s \in Signals : s \in Facts
  BY DEF Facts
<1>6. \A t \in Targets : t \in Facts
  BY DEF Facts
<1> HIDE DEF own
<1>7. \A s \in Signals : file.signals[s] \in Reading /\ Honest(file.signals[s], 0)
  BY <1>1, <1>3, <1>4, <1>5
<1>8. \A t \in Targets : file.downloads[t] \in Reading /\ Honest(file.downloads[t], 0)
  BY <1>1, <1>3, <1>4, <1>6
<1>9. file \in Snapshot
  BY <1>1, <1>2, <1>3, <1>4, <1>5, <1>6 DEF Snapshot
<1> QED BY <1>1, <1>7, <1>8, <1>9

-----------------------------------------------------------------------------
\* Every variable of the collect command keeps its type.
THEOREM TypeCorrect == Spec => []TypeOK
<1>1. Init => TypeOK
  <2> SUFFICES ASSUME Init PROVE TypeOK
    OBVIOUS
  <2>1. file \in Snapshot
    <3>1. CASE file = NoSnapshot
      BY <3>1, ReadingTypes
    <3>2. CASE file # NoSnapshot
      BY <3>2, FoundSnapshot
    <3> QED BY <3>1, <3>2
  <2>2. clock \in Stamp /\ crashes \in 0 .. MaxCrashes
    BY CollectAssumption DEF Init, Stamp
  <2>3. answer \in [Signals -> Answers] /\ status \in [Targets -> Verdicts]
    BY CollectAssumption DEF Init, Answers, NotAsked
  <2>4. prior \in Snapshot /\ snap \in Snapshot
    BY ReadingTypes DEF Init
  <2> QED BY <2>1, <2>2, <2>3, <2>4 DEF Init, TypeOK, Phases
<1>2. TypeOK /\ [Next]_vars => TypeOK'
  <2> SUFFICES ASSUME TypeOK, [Next]_vars PROVE TypeOK'
    OBVIOUS
  <2>1. ASSUME NEW off \in BOOLEAN, Start(off) PROVE TypeOK'
    BY <2>1, CollectAssumption DEF TypeOK, Start, Stamp, Phases
  <2>2. CASE Build
    <3>1. PICK ans \in [Signals -> Answers], counted \in [Targets -> SUBSET Numbers] :
            answer' = ans /\ snap' = Observed(clock, ans, counted)
      BY <2>2 DEF Build
    <3>2. PICK st \in [Targets -> Verdicts] : status' = st
      BY <2>2 DEF Build
    <3>3. snap' \in Snapshot
      BY <3>1, ObservedSnapshot DEF TypeOK
    <3> QED BY <2>2, <3>1, <3>2, <3>3 DEF TypeOK, Build, Phases
  <2>3. CASE CarryForward
    BY <2>3, CarriedSnapshot DEF TypeOK, CarryForward, Phases
  <2>4. CASE OpenOutput
    BY <2>4, ReadingTypes DEF TypeOK, OpenOutput, Phases
  <2>5. CASE FinishWrite
    BY <2>5, Forgotten DEF TypeOK, FinishWrite, Phases
  <2>6. CASE Crash
    BY <2>6, Forgotten, CollectAssumption DEF TypeOK, Crash, Phases
  <2>7. CASE UNCHANGED vars
    BY <2>7 DEF TypeOK, vars
  <2> QED BY <2>1, <2>2, <2>3, <2>4, <2>5, <2>6, <2>7 DEF Next
<1> QED BY <1>1, <1>2, PTL DEF Spec

-----------------------------------------------------------------------------
\* A reading a run makes itself is honest, and so is one it does not make.
LEMMA OwnReadingHonest ==
  ASSUME NEW at \in Stamp, NEW ns \in SUBSET Numbers, NEW r, Own(r, at, ns)
  PROVE  Honest(r, at)
BY CollectAssumption DEF Own, Honest, ShownDate, Available, Stamp, NoStamp

\* A reading carried from an older honest snapshot is honest in the newer one,
\* and shown with the same date.
LEMMA CarryIsHonest ==
  ASSUME prior \in Snapshot, NEW r \in Reading, Available(r), NEW at \in Stamp,
         Honest(r, prior.generated_at), prior.generated_at < at
  PROVE  Honest(Carried(r), at) /\ ShownDate(Carried(r), at) = ShownDate(r, prior.generated_at)
<1> DEFINE gen == prior.generated_at
           c   == Carried(r)
<1>1. r.read \in 0 .. gen /\ ShownDate(r, gen) = r.read /\ (r.carried_forward <=> r.read # gen)
  BY DEF Honest
<1>2. gen \in Int /\ at \in Int /\ gen < at /\ r.read \in Int
  BY <1>1, CollectAssumption DEF Snapshot, Stamp, NoStamp
<1>3. /\ c.read = r.read /\ c.carried_forward = TRUE
      /\ c.observed_at = IF r.observed_at = NoStamp THEN gen ELSE r.observed_at
  BY CarriedReading
<1>4. r.observed_at \in Stamp \cup {NoStamp}
  BY DEF Reading
<1> HIDE DEF gen, c
<1>5. c.read \in 0 .. at /\ c.read # at
  BY <1>1, <1>2, <1>3
<1>6. c.observed_at = r.read
  BY <1>1, <1>2, <1>3 DEF ShownDate, NoStamp
<1>7. r.read # NoStamp
  BY <1>1, <1>2 DEF NoStamp
<1>8. ShownDate(c, at) = r.read
  BY <1>6, <1>7 DEF ShownDate
<1>9. Honest(c, at)
  BY <1>3, <1>5, <1>8 DEF Honest
<1> QED BY <1>1, <1>8, <1>9 DEF c, gen

LEMMA NoSnapshotHonest == HonestSnapshot(NoSnapshot)
BY DEF HonestSnapshot, NoSnapshot, Honest, Available, Unread

\* HonestRun is inductive: a snapshot is honest from the moment it is built.
THEOREM HonestRunInvariant == Spec => []HonestRun
<1>1. Init => HonestRun
  <2> SUFFICES ASSUME Init PROVE HonestRun
    OBVIOUS
  <2>1. HonestSnapshot(file) /\ file.generated_at <= clock
    <3>1. CASE file = NoSnapshot
      BY <3>1, NoSnapshotHonest DEF NoSnapshot, Init, NoStamp
    <3>2. CASE file # NoSnapshot
      <4>1. clock = 0 /\ file.generated_at = 0
        BY <3>2, FoundSnapshot DEF Init
      <4> QED BY <3>2, <4>1, FoundSnapshot DEF HonestSnapshot
    <3> QED BY <3>1, <3>2
  <2> QED BY <2>1, NoSnapshotHonest DEF Init, HonestRun
<1>2. TypeOK /\ HonestRun /\ [Next]_vars => HonestRun'
  <2> SUFFICES ASSUME TypeOK, HonestRun, [Next]_vars PROVE HonestRun'
    OBVIOUS
  <2>1. ASSUME NEW off \in BOOLEAN, Start(off) PROVE HonestRun'
    BY <2>1 DEF TypeOK, HonestRun, Start, HonestSnapshot, Snapshot, Stamp, NoStamp
  <2>2. CASE Build
    <3>1. PICK ans \in [Signals -> Answers], counted \in [Targets -> SUBSET Numbers] :
            snap' = Observed(clock, ans, counted)
      BY <2>2 DEF Build
    <3>2. clock \in Stamp
      BY DEF TypeOK
    <3>3. snap'.generated_at = clock
      BY <3>1, <3>2, ObservedSnapshot
    <3>4. ASSUME NEW s \in Signals PROVE Honest(snap'.signals[s], clock)
      <4>1. ans[s].numbers \in SUBSET Numbers /\ snap'.signals[s] = Signal(clock, ans[s].numbers)
        BY <3>1, <3>2, ObservedSnapshot DEF Answers
      <4> QED BY <3>2, <4>1, OwnReading, OwnReadingHonest
    <3>5. ASSUME NEW t \in Targets PROVE Honest(snap'.downloads[t], clock)
      <4>1. counted[t] \in SUBSET Numbers /\ snap'.downloads[t] = Downloads(clock, counted[t])
        BY <3>1, <3>2, ObservedSnapshot
      <4> QED BY <3>2, <4>1, OwnReading, OwnReadingHonest
    <3>6. HonestSnapshot(snap')
      BY <3>3, <3>4, <3>5 DEF HonestSnapshot
    <3> QED BY <2>2, <3>3, <3>6 DEF HonestRun, Build, HonestSnapshot
  <2>3. CASE CarryForward
    <3>1. /\ clock \in Stamp /\ prior \in Snapshot /\ snap.generated_at = clock
          /\ prior.generated_at < clock /\ HonestSnapshot(prior) /\ HonestSnapshot(snap)
      BY <2>3 DEF TypeOK, HonestRun, CarryForward
    <3>2. \A s \in Signals : prior.signals[s] \in Reading
      BY <3>1 DEF Snapshot
    <3>3. \A t \in Targets : prior.downloads[t] \in Reading
      BY <3>1 DEF Snapshot
    <3>4. \A s \in Signals : Honest(snap'.signals[s], clock)
      BY <2>3, <3>1, <3>2, CarriedSnapshot, CarryIsHonest DEF KeepSignal, HonestSnapshot
    <3>5. \A t \in Targets : Honest(snap'.downloads[t], clock)
      BY <2>3, <3>1, <3>3, CarriedSnapshot, CarryIsHonest DEF KeepDownloads, HonestSnapshot
    <3>6. snap'.generated_at = clock
      BY <2>3, <3>1, CarriedSnapshot
    <3> QED BY <2>3, <3>4, <3>5, <3>6 DEF HonestRun, CarryForward, HonestSnapshot
  <2>4. CASE OpenOutput
    <3>1. NoSnapshot.generated_at <= clock
      BY DEF NoSnapshot, NoStamp, TypeOK, Stamp
    <3> QED BY <2>4, <3>1, NoSnapshotHonest DEF HonestRun, OpenOutput, HonestSnapshot
  <2>5. CASE FinishWrite
    BY <2>5, NoSnapshotHonest DEF HonestRun, FinishWrite, Forget, HonestSnapshot, TypeOK, Stamp
  <2>6. CASE Crash
    BY <2>6, NoSnapshotHonest DEF HonestRun, Crash, Forget, HonestSnapshot
  <2>7. CASE UNCHANGED vars
    BY <2>7 DEF HonestRun, vars, HonestSnapshot
  <2> QED BY <2>1, <2>2, <2>3, <2>4, <2>5, <2>6, <2>7 DEF Next
<1> QED BY <1>1, <1>2, TypeCorrect, PTL DEF Spec

\* The published snapshot never relabels an old counter as fresh.
THEOREM DatingIsHonest == Spec => []HonestDating
<1>1. HonestRun => HonestDating
  BY DEF HonestRun, HonestDating
<1> QED BY <1>1, HonestRunInvariant, PTL

-----------------------------------------------------------------------------
\* Which readings a run must not lose, and what it has kept of them once the
\* carry-forward is done.
MustKeepSignal(s) ==
  Available(prior.signals[s]) /\ (MissingToken(s, answer[s]) \/ answer[s].numbers # {})

MustKeepDownloads(t) == Available(prior.downloads[t]) /\ status[t] \in Published

KeptRun ==
  /\ phase = "writing" => torn
  /\ phase = "built" =>
       /\ \A s \in Signals : snap.signals[s] = Signal(clock, answer[s].numbers)
       /\ \A s \in Signals : ~answer[s].asked => answer[s].numbers = {}
       /\ \A t \in Targets : \E ns \in SUBSET Numbers : snap.downloads[t] = Downloads(clock, ns)
  /\ phase \in {"carried", "writing"} =>
       /\ \A s \in Signals : MustKeepSignal(s) => Kept(prior.signals[s], snap.signals[s])
       /\ \A t \in Targets : MustKeepDownloads(t) => Kept(prior.downloads[t], snap.downloads[t])

\* The readings of the snapshot a run started from are older than the run.
LEMMA PriorIsOlder ==
  ASSUME TypeOK, HonestRun, phase # "idle", NEW r \in Reading, Available(r),
         Honest(r, prior.generated_at)
  PROVE  r.read \in Int /\ r.read < clock
<1>1. prior.generated_at \in Int /\ prior.generated_at < clock /\ clock \in Int
  BY CollectAssumption DEF TypeOK, HonestRun, Snapshot, Stamp, NoStamp
<1>2. r.read \in 0 .. prior.generated_at
  BY DEF Honest
<1> QED BY <1>1, <1>2

\* A reading is kept by carrying it, and by reading anything newer.
LEMMA KeptReading ==
  ASSUME prior \in Snapshot, NEW r \in Reading, Available(r), r.read \in Int,
         NEW new, \/ new = Carried(r)
                  \/ Available(new) /\ new.read = clock /\ r.read < clock /\ clock \in Int
  PROVE  Kept(r, new)
<1>1. CASE new = Carried(r)
  <2>1. Carried(r).numbers = r.numbers /\ Carried(r).read = r.read
    BY CarriedReading
  <2> QED BY <1>1, <2>1 DEF Kept, Available
<1>2. CASE Available(new) /\ new.read = clock /\ r.read < clock /\ clock \in Int
  BY <1>2 DEF Kept
<1> QED BY <1>1, <1>2

\* What carrying forward keeps: a reading carried is the prior one, a fresh one
\* is newer than it.
LEMMA CarryKeeps ==
  ASSUME TypeOK, HonestRun, KeptRun, CarryForward
  PROVE  /\ \A s \in Signals : MustKeepSignal(s) => Kept(prior.signals[s], snap'.signals[s])
         /\ \A t \in Targets : MustKeepDownloads(t) => Kept(prior.downloads[t], snap'.downloads[t])
<1>1. /\ prior \in Snapshot /\ HonestSnapshot(prior) /\ phase = "built"
      /\ clock \in Int /\ clock \in Stamp /\ answer \in [Signals -> Answers]
  BY CollectAssumption DEF TypeOK, HonestRun, CarryForward, Stamp
<1>2. ASSUME NEW s \in Signals, MustKeepSignal(s)
      PROVE  Kept(prior.signals[s], snap'.signals[s])
  <2>1. /\ prior.signals[s] \in Reading /\ Available(prior.signals[s])
        /\ Honest(prior.signals[s], prior.generated_at)
    BY <1>1, <1>2 DEF Snapshot, HonestSnapshot, MustKeepSignal
  <2>2. prior.signals[s].read \in Int /\ prior.signals[s].read < clock
    BY <1>1, <2>1, PriorIsOlder
  <2>3. snap.signals[s] = Signal(clock, answer[s].numbers) /\ answer[s].numbers \in SUBSET Numbers
    BY <1>1 DEF KeptRun, Answers
  <2>a. Own(snap.signals[s], clock, answer[s].numbers)
    BY <1>1, <2>3, OwnReading
  <2>4. CASE answer[s].numbers # {}
    <3>1. Available(snap.signals[s]) /\ snap.signals[s].read = clock
      BY <2>a, <2>4 DEF Own, Available
    <3>2. ~KeepSignal(s)
      BY <3>1 DEF KeepSignal
    <3>3. snap'.signals[s] = snap.signals[s]
      BY <3>2, CarriedSnapshot
    <3> QED BY <1>1, <2>1, <2>2, <3>1, <3>3, KeptReading
  <2>5. CASE answer[s].numbers = {}
    <3>1. ~Available(snap.signals[s])
      BY <2>a, <2>5 DEF Own, Available
    <3>2. KeepSignal(s)
      BY <1>2, <2>5, <3>1 DEF KeepSignal, MustKeepSignal
    <3>3. snap'.signals[s] = Carried(prior.signals[s])
      BY <3>2, CarriedSnapshot
    <3> QED BY <1>1, <2>1, <2>2, <3>3, KeptReading
  <2> QED BY <2>4, <2>5
<1>3. ASSUME NEW t \in Targets, MustKeepDownloads(t)
      PROVE  Kept(prior.downloads[t], snap'.downloads[t])
  <2>1. /\ prior.downloads[t] \in Reading /\ Available(prior.downloads[t])
        /\ Honest(prior.downloads[t], prior.generated_at)
    BY <1>1, <1>3 DEF Snapshot, HonestSnapshot, MustKeepDownloads
  <2>2. prior.downloads[t].read \in Int /\ prior.downloads[t].read < clock
    BY <1>1, <2>1, PriorIsOlder
  <2>3. PICK ns \in SUBSET Numbers : snap.downloads[t] = Downloads(clock, ns)
    BY <1>1 DEF KeptRun
  <2>a. Own(snap.downloads[t], clock, ns)
    BY <1>1, <2>3, OwnReading
  <2>4. CASE ns # {}
    <3>1. Available(snap.downloads[t]) /\ snap.downloads[t].read = clock
      BY <2>a, <2>4 DEF Own, Available
    <3>2. ~KeepDownloads(t)
      BY <3>1 DEF KeepDownloads
    <3>3. snap'.downloads[t] = snap.downloads[t]
      BY <3>2, CarriedSnapshot
    <3> QED BY <1>1, <2>1, <2>2, <3>1, <3>3, KeptReading
  <2>5. CASE ns = {}
    <3>1. ~Available(snap.downloads[t])
      BY <2>a, <2>5 DEF Own, Available
    <3>2. KeepDownloads(t)
      BY <1>3, <3>1 DEF KeepDownloads, MustKeepDownloads
    <3>3. snap'.downloads[t] = Carried(prior.downloads[t])
      BY <3>2, CarriedSnapshot
    <3> QED BY <1>1, <2>1, <2>2, <3>3, KeptReading
  <2> QED BY <2>4, <2>5
<1> QED BY <1>2, <1>3

THEOREM KeptRunInvariant == Spec => []KeptRun
<1>1. Init => KeptRun
  BY DEF Init, KeptRun
<1>2. TypeOK /\ HonestRun /\ KeptRun /\ [Next]_vars => KeptRun'
  <2> SUFFICES ASSUME TypeOK, HonestRun, KeptRun, [Next]_vars PROVE KeptRun'
    OBVIOUS
  <2>1. ASSUME NEW off \in BOOLEAN, Start(off) PROVE KeptRun'
    BY <2>1 DEF KeptRun, Start
  <2>2. CASE Build
    <3>1. PICK ans \in [Signals -> Answers], counted \in [Targets -> SUBSET Numbers] :
            Probed(ans) /\ answer' = ans /\ snap' = Observed(clock, ans, counted)
      BY <2>2 DEF Build
    <3>2. clock \in Stamp /\ phase' = "built" /\ clock' = clock
      BY <2>2 DEF TypeOK, Build
    <3>3. \A s \in Signals : snap'.signals[s] = Signal(clock, answer'[s].numbers)
      BY <3>1, <3>2, ObservedSnapshot
    <3>4. \A s \in Signals : ~answer'[s].asked => answer'[s].numbers = {}
      BY <3>1 DEF Probed
    <3>5. \A t \in Targets : \E ns \in SUBSET Numbers : snap'.downloads[t] = Downloads(clock, ns)
      BY <3>1, <3>2, ObservedSnapshot
    <3> HIDE DEF Signal, Downloads
    <3> QED BY <3>2, <3>3, <3>4, <3>5 DEF KeptRun, Signal, Downloads, Fresh, Undated, Unread
  <2>3. CASE CarryForward
    BY <2>3, CarryKeeps DEF KeptRun, CarryForward, MustKeepSignal, MustKeepDownloads, MissingToken, Kept
  <2>4. CASE OpenOutput
    BY <2>4 DEF KeptRun, OpenOutput, MustKeepSignal, MustKeepDownloads, MissingToken, Kept
  <2>5. CASE FinishWrite
    BY <2>5 DEF KeptRun, FinishWrite
  <2>6. CASE Crash
    BY <2>6 DEF KeptRun, Crash
  <2>7. CASE UNCHANGED vars
    BY <2>7 DEF KeptRun, vars, MustKeepSignal, MustKeepDownloads, MissingToken, Kept,
                Signal, Downloads, Fresh, Undated
  <2> QED BY <2>1, <2>2, <2>3, <2>4, <2>5, <2>6, <2>7 DEF Next
<1> QED BY <1>1, <1>2, TypeCorrect, HonestRunInvariant, PTL DEF Spec

\* Only FinishWrite completes a run: a killed one leaves the file torn.
LEMMA CompletesByWriting ==
  ASSUME KeptRun, [Next]_vars, Completes
  PROVE  file' = snap /\ phase = "writing"
BY DEF Completes, KeptRun, Next, Start, Build, CarryForward, OpenOutput, FinishWrite, Crash, vars

\* A refresh that could not ask for a signal keeps every number of it, and one
\* that read a part of them publishes no older number.
THEOREM SignalsAreKept == Spec => RefreshKeepsSignals
<1>1. KeptRun /\ [Next]_vars =>
        (Completes => \A s \in Signals :
           (/\ Available(prior.signals[s])
            /\ MissingToken(s, answer[s]) \/ answer[s].numbers # {})
           => Kept(prior.signals[s], file'.signals[s]))
  BY CompletesByWriting DEF KeptRun, MustKeepSignal
<1> QED BY <1>1, KeptRunInvariant, PTL DEF Spec, RefreshKeepsSignals

\* The download counters of a target still published survive a run that got
\* none for it.
THEOREM DownloadsAreKept == Spec => RefreshKeepsDownloads
<1>1. KeptRun /\ [Next]_vars =>
        (Completes => \A t \in Targets :
           (Available(prior.downloads[t]) /\ status[t] \in Published) =>
             Kept(prior.downloads[t], file'.downloads[t]))
  BY CompletesByWriting DEF KeptRun, MustKeepDownloads
<1> QED BY <1>1, KeptRunInvariant, PTL DEF Spec, RefreshKeepsDownloads

-----------------------------------------------------------------------------
\* The refinement.  What the page shows of a whole honest snapshot is dated no
\* later than the snapshot.
LEMMA ViewTypes ==
  ASSUME NEW sn \in Snapshot, HonestSnapshot(sn), NEW f \in Facts
  PROVE  /\ ViewOf(sn)[f] \in DF!Dated \cup {DF!Blank}
         /\ ViewOf(sn)[f] # DF!Blank => ViewOf(sn)[f].at <= sn.generated_at
<1>1. ASSUME NEW r \in Reading, Honest(r, sn.generated_at)
      PROVE  /\ View(r, sn.generated_at) \in DF!Dated \cup {DF!Blank}
             /\ View(r, sn.generated_at) # DF!Blank => View(r, sn.generated_at).at <= sn.generated_at
  <2>1. CASE ~Available(r)
    BY <2>1 DEF View, DF!Blank
  <2>2. CASE Available(r)
    <3>1. ShownDate(r, sn.generated_at) \in 0 .. sn.generated_at
      BY <1>1, <2>2 DEF Honest
    <3>2. sn.generated_at \in Stamp \cup {NoStamp}
      BY DEF Snapshot
    <3>3. ShownDate(r, sn.generated_at) \in Stamp /\ ShownDate(r, sn.generated_at) <= sn.generated_at
      BY <3>1, <3>2, CollectAssumption DEF Stamp, NoStamp
    <3>4. r.numbers \in (SUBSET Numbers) \ {{}}
      BY <2>2 DEF Available, Reading
    <3> QED BY <2>2, <3>3, <3>4 DEF View, DF!Dated
  <2> QED BY <2>1, <2>2
<1>2. CASE f \in Signals
  <2>1. sn.signals[f] \in Reading /\ Honest(sn.signals[f], sn.generated_at)
    BY <1>2 DEF Snapshot, HonestSnapshot
  <2>2. ViewOf(sn)[f] = View(sn.signals[f], sn.generated_at)
    BY <1>2 DEF ViewOf
  <2> QED BY <1>1, <2>1, <2>2
<1>3. CASE f \notin Signals
  <2>1. sn.downloads[f] \in Reading /\ Honest(sn.downloads[f], sn.generated_at)
    BY <1>3 DEF Snapshot, HonestSnapshot, Facts
  <2>2. ViewOf(sn)[f] = View(sn.downloads[f], sn.generated_at)
    BY <1>3 DEF ViewOf
  <2> QED BY <1>1, <2>1, <2>2
<1> QED BY <1>2, <1>3

\* No snapshot shows nothing.
LEMMA NoSnapshotView == \A f \in Facts : ViewOf(NoSnapshot)[f] = DF!Blank
BY DEF ViewOf, View, Available, NoSnapshot, Unread, DF!Blank, Facts

\* A reading carried forward is shown as it was.
LEMMA CarriedView ==
  ASSUME prior \in Snapshot, NEW r \in Reading, Available(r), NEW at \in Stamp,
         Honest(r, prior.generated_at), prior.generated_at < at
  PROVE  View(Carried(r), at) = View(r, prior.generated_at)
<1>1. Carried(r).numbers = r.numbers
  BY CarriedReading
<1>2. ShownDate(Carried(r), at) = ShownDate(r, prior.generated_at)
  BY CarryIsHonest
<1> QED BY <1>1, <1>2 DEF View, Available

\* A run shows its own readings with its own date.
LEMMA OwnView ==
  ASSUME NEW at \in Stamp, NEW ns \in SUBSET Numbers, NEW r, Own(r, at, ns)
  PROVE  View(r, at) = DF!Blank \/ View(r, at).at = at
<1>1. CASE ns = {}
  BY <1>1 DEF Own, View, Available, DF!Blank
<1>2. CASE ns # {}
  <2>1. Available(r) /\ r.read = at
    BY <1>2 DEF Own, Available
  <2>2. ShownDate(r, at) = at
    BY <2>1, OwnReadingHonest DEF Honest
  <2> QED BY <2>1, <2>2 DEF View
<1> QED BY <1>1, <1>2

\* Until a run writes, the file is the one it read; what it is about to write
\* shows each fact as before, or anew, or not at all.
Shows(f) ==
  \/ ViewOf(snap)[f] \in {DF!Blank, ViewOf(prior)[f]}
  \/ ViewOf(snap)[f].at = clock

RefiningRun ==
  /\ phase \in {"probing", "built", "carried"} => prior = file
  /\ phase = "writing" => file = NoSnapshot
  /\ phase \in {"carried", "writing"} => \A f \in Facts : Shows(f)

LEMMA CarryShows ==
  ASSUME TypeOK, HonestRun, KeptRun, CarryForward, NEW f \in Facts
  PROVE  \/ ViewOf(snap')[f] \in {DF!Blank, ViewOf(prior)[f]}
         \/ ViewOf(snap')[f].at = clock
<1>1. /\ prior \in Snapshot /\ HonestSnapshot(prior) /\ phase = "built" /\ clock \in Stamp
      /\ prior.generated_at < clock /\ snap.generated_at = clock /\ answer \in [Signals -> Answers]
  BY DEF TypeOK, HonestRun, CarryForward
<1>2. snap'.generated_at = clock
  BY <1>1, CarriedSnapshot
<1>3. CASE f \in Signals
  <2>1. ViewOf(snap')[f] = View(snap'.signals[f], clock)
    BY <1>2, <1>3 DEF ViewOf
  <2>2. ViewOf(prior)[f] = View(prior.signals[f], prior.generated_at)
    BY <1>3 DEF ViewOf
  <2>3. prior.signals[f] \in Reading /\ Honest(prior.signals[f], prior.generated_at)
    BY <1>1, <1>3 DEF Snapshot, HonestSnapshot
  <2>4. CASE KeepSignal(f)
    <3>1. snap'.signals[f] = Carried(prior.signals[f])
      BY <1>3, <2>4, CarriedSnapshot
    <3>2. Available(prior.signals[f])
      BY <2>4 DEF KeepSignal
    <3> QED BY <1>1, <2>1, <2>2, <2>3, <3>1, <3>2, CarriedView
  <2>5. CASE ~KeepSignal(f)
    <3>1. snap'.signals[f] = snap.signals[f]
      BY <1>3, <2>5, CarriedSnapshot
    <3>2. snap.signals[f] = Signal(clock, answer[f].numbers) /\ answer[f].numbers \in SUBSET Numbers
      BY <1>1, <1>3 DEF KeptRun, Answers
    <3>3. Own(snap.signals[f], clock, answer[f].numbers)
      BY <1>1, <3>2, OwnReading
    <3> QED BY <1>1, <2>1, <3>1, <3>2, <3>3, OwnView
  <2> QED BY <2>4, <2>5
<1>4. CASE f \notin Signals
  <2>0. f \in Targets
    BY <1>4 DEF Facts
  <2>1. ViewOf(snap')[f] = View(snap'.downloads[f], clock)
    BY <1>2, <1>4 DEF ViewOf
  <2>2. ViewOf(prior)[f] = View(prior.downloads[f], prior.generated_at)
    BY <1>4 DEF ViewOf
  <2>3. prior.downloads[f] \in Reading /\ Honest(prior.downloads[f], prior.generated_at)
    BY <1>1, <2>0 DEF Snapshot, HonestSnapshot
  <2>4. CASE KeepDownloads(f)
    <3>1. snap'.downloads[f] = Carried(prior.downloads[f])
      BY <2>0, <2>4, CarriedSnapshot
    <3>2. Available(prior.downloads[f])
      BY <2>4 DEF KeepDownloads
    <3> QED BY <1>1, <2>1, <2>2, <2>3, <3>1, <3>2, CarriedView
  <2>5. CASE ~KeepDownloads(f)
    <3>1. snap'.downloads[f] = snap.downloads[f]
      BY <2>0, <2>5, CarriedSnapshot
    <3>2. PICK ns \in SUBSET Numbers : snap.downloads[f] = Downloads(clock, ns)
      BY <1>1, <2>0 DEF KeptRun
    <3>3. Own(snap.downloads[f], clock, ns)
      BY <1>1, <3>2, OwnReading
    <3> QED BY <1>1, <2>1, <3>1, <3>2, <3>3, OwnView
  <2> QED BY <2>4, <2>5
<1> QED BY <1>3, <1>4

THEOREM RefiningRunInvariant == Spec => []RefiningRun
<1>1. Init => RefiningRun
  BY DEF Init, RefiningRun
<1>2. TypeOK /\ HonestRun /\ KeptRun /\ RefiningRun /\ [Next]_vars => RefiningRun'
  <2> SUFFICES ASSUME TypeOK, HonestRun, KeptRun, RefiningRun, [Next]_vars PROVE RefiningRun'
    OBVIOUS
  <2>1. ASSUME NEW off \in BOOLEAN, Start(off) PROVE RefiningRun'
    BY <2>1 DEF RefiningRun, Start
  <2>2. CASE Build
    BY <2>2 DEF RefiningRun, Build
  <2>3. CASE CarryForward
    <3>1. /\ phase = "built" /\ phase' = "carried" /\ prior' = prior /\ file' = file /\ clock' = clock
      BY <2>3 DEF CarryForward
    <3>2. \A f \in Facts : Shows(f)'
      BY <2>3, <3>1, CarryShows DEF Shows, ViewOf
    <3> QED BY <3>1, <3>2 DEF RefiningRun
  <2>4. CASE OpenOutput
    <3>1. /\ phase = "carried" /\ phase' = "writing" /\ file' = NoSnapshot
          /\ prior' = prior /\ snap' = snap /\ clock' = clock
      BY <2>4 DEF OpenOutput
    <3>2. \A f \in Facts : Shows(f)'
      BY <3>1 DEF RefiningRun, Shows, ViewOf
    <3> QED BY <3>1, <3>2 DEF RefiningRun
  <2>5. CASE FinishWrite
    BY <2>5 DEF RefiningRun, FinishWrite
  <2>6. CASE Crash
    BY <2>6 DEF RefiningRun, Crash
  <2>7. CASE UNCHANGED vars
    BY <2>7 DEF RefiningRun, Shows, ViewOf, vars
  <2> QED BY <2>1, <2>2, <2>3, <2>4, <2>5, <2>6, <2>7 DEF Next
<1> QED BY <1>1, <1>2, TypeCorrect, HonestRunInvariant, KeptRunInvariant, PTL DEF Spec

\* A step that leaves what is committed as it was stutters.
LEMMA Stutters ==
  ASSUME UNCHANGED Committed
  PROVE  UNCHANGED ViewOf(Committed)
BY DEF ViewOf

\* A finished write is a refresh dated by the run.
LEMMA WriteRefreshes ==
  ASSUME TypeOK, HonestRun, RefiningRun, FinishWrite
  PROVE  DF!Next
<1>1. /\ prior \in Snapshot /\ snap \in Snapshot /\ HonestSnapshot(prior) /\ HonestSnapshot(snap)
      /\ clock \in Stamp /\ clock \in Int /\ prior.generated_at < clock /\ prior.generated_at \in Int
      /\ Committed = prior /\ Committed' = snap
  BY CollectAssumption DEF TypeOK, HonestRun, FinishWrite, Committed, Snapshot, Stamp, NoStamp
<1>2. \A f \in Facts : Shows(f)
  BY DEF RefiningRun, FinishWrite
<1>3. ASSUME NEW f \in Facts, ViewOf(Committed)[f] # DF!Blank
      PROVE  ViewOf(Committed)[f].at < clock
  <2>1. ViewOf(prior)[f].at <= prior.generated_at /\ ViewOf(prior)[f] \in DF!Dated
    BY <1>1, <1>3, ViewTypes
  <2>2. ViewOf(prior)[f].at \in Int
    BY <2>1 DEF DF!Dated, Stamp
  <2> QED BY <1>1, <2>1, <2>2
<1>4. ASSUME NEW f \in Facts
      PROVE  \/ ViewOf(Committed)'[f] = ViewOf(Committed)[f]
             \/ ViewOf(Committed)'[f] = DF!Blank
             \/ ViewOf(Committed)'[f] \in DF!Dated /\ ViewOf(Committed)'[f].at = clock
  <2>1. ViewOf(Committed)' = ViewOf(snap)
    BY <1>1 DEF ViewOf
  <2>2. Shows(f) /\ ViewOf(snap)[f] \in DF!Dated \cup {DF!Blank}
    BY <1>1, <1>2, ViewTypes
  <2> QED BY <1>1, <2>1, <2>2 DEF Shows
<1>5. DF!Refresh(clock)
  BY <1>3, <1>4 DEF DF!Refresh
<1> QED BY <1>1, <1>5 DEF DF!Next

\* The command implements DatedFacts: every write keeps each fact whole with its
\* date or replaces it by newer numbers, and only a killed write loses them.
THEOREM Implementation == Spec => Refines
<1>1. TypeOK /\ HonestRun /\ Init => DF!Init
  <2> SUFFICES ASSUME TypeOK, HonestRun, Init, NEW f \in Facts
               PROVE  ViewOf(Committed)[f] \in DF!Dated \cup {DF!Blank}
    BY DEF DF!Init
  <2>1. Committed = file /\ file \in Snapshot /\ HonestSnapshot(file)
    BY DEF Init, Committed, TypeOK, HonestRun
  <2> QED BY <2>1, ViewTypes
<1>2. TypeOK /\ HonestRun /\ RefiningRun /\ [Next]_vars => [DF!Next]_(ViewOf(Committed))
  <2> SUFFICES ASSUME TypeOK, HonestRun, RefiningRun, [Next]_vars
               PROVE  DF!Next \/ UNCHANGED ViewOf(Committed)
    OBVIOUS
  <2>1. ASSUME NEW off \in BOOLEAN, Start(off) PROVE UNCHANGED Committed
    BY <2>1 DEF Start, Committed
  <2>2. CASE Build
    BY <2>2, Stutters DEF Build, Committed
  <2>3. CASE CarryForward
    BY <2>3, Stutters DEF CarryForward, Committed
  <2>4. CASE OpenOutput
    BY <2>4, Stutters DEF OpenOutput, Committed, RefiningRun
  <2>5. CASE FinishWrite
    BY <2>5, WriteRefreshes
  <2>6. CASE Crash /\ phase = "writing"
    <3>1. Committed' = NoSnapshot
      BY <2>6 DEF Crash, Committed, RefiningRun
    <3>2. \A f \in Facts : ViewOf(Committed)'[f] = DF!Blank
      BY <3>1, NoSnapshotView DEF ViewOf
    <3> QED BY <3>2 DEF DF!Next, DF!Lose
  <2>7. CASE Crash /\ phase # "writing"
    BY <2>7, Stutters DEF Crash, Committed
  <2>8. CASE UNCHANGED vars
    BY <2>8, Stutters DEF vars, Committed
  <2> QED BY <2>1, <2>2, <2>3, <2>4, <2>5, <2>6, <2>7, <2>8, Stutters DEF Next
<1> QED BY <1>1, <1>2, TypeCorrect, HonestRunInvariant, RefiningRunInvariant, PTL DEF Spec, Refines, DF!Spec

=============================================================================
