---------------------------- MODULE ReleaseProofs ----------------------------
(***************************************************************************)
(* Proofs about the programs that release: the staging projection          *)
(* (ReleaseStaging) and the command that dispatches a release workflow     *)
(* (AdminRun).  They share no state, and each has a part of this module.   *)
(***************************************************************************)
EXTENDS ReleaseStaging, AdminRun, FiniteSetTheorems, SequenceTheorems, TLAPS

-----------------------------------------------------------------------------
(* The staging projection, for any number of processes, components, edits and
   faults: what is published is one release that was proposed, what is accepted stood
   while it was validated, abandoned temporary files have causes, and the writer
   implements the register of StagingRegister. *)

\* The inputs x stood together after the first `since` edits or later.
StoodSince(since, x) == \E e \in since .. edits : stood[e + 1] = x

\* A manifest m that has been current since then is the only one of its number, and
\* has stood with the lock if the lock fits it.
Covered(m, since) ==
  /\ since <= edits
  /\ m.n <= manifest.n
  /\ m.n = manifest.n => m = manifest
  /\ Projectable(m, lock) => StoodSince(since, Projected(m, lock))

Loading == {"build lock", "validate lock"}
Loaded  == {"build temp", "write", "sync", "replace", "load", "read again"}
Owning  == {"write", "sync", "replace", "unlink"}

\* What a command under way owes to the inputs it read.
ProcSound(p) ==
  /\ proc[p].pc \in Loading => Covered(proc[p].manifest, proc[p].since)
  /\ proc[p].pc \in Loaded =>
       /\ Projectable(proc[p].manifest, proc[p].lock)
       /\ StoodSince(proc[p].since, Projected(proc[p].manifest, proc[p].lock))
  /\ proc[p].pc \in {"sync", "replace"} => temp[p] = Projected(proc[p].manifest, proc[p].lock)
  /\ proc[p].pc = "replace" => p \in synced
  /\ temp[p] # Absent => proc[p].pc \in Owning

\* The inductive invariant: whatever is on the disk, or about to be, was proposed.
Sound ==
  /\ out \in proposed \cup {Absent} /\ durable \in proposed \cup {Absent}
  /\ "output" \in synced
  /\ lock.of <= manifest.n /\ manifest.n <= edits
  /\ stood[edits + 1] = Projected(manifest, lock)
  /\ \A p \in Processes : ProcSound(p)

-----------------------------------------------------------------------------
(* Types. *)

\* A projection of typed inputs, and the three kinds of file content.
LEMMA ProjectionTypes ==
  ASSUME NEW m \in Manifest, NEW l \in Lock
  PROVE  /\ Projected(m, l) \in Projection /\ Projected(m, l) \in File
         /\ Projected(m, l).manifest = m /\ Projected(m, l).lock = l
BY DEF Projected, Projection, File

LEMMA FileKinds ==
  /\ Absent \in File /\ Torn \in File /\ Absent # Torn
  /\ Absent \notin Projection /\ Torn \notin Projection
<1>1. Absent \in File /\ Torn \in File
  BY DEF File
<1>2. Absent # Torn
  BY DEF Absent, Torn
<1>3. ASSUME NEW x \in Projection PROVE x # Absent /\ x # Torn
  <2>1. DOMAIN x = {"manifest", "lock"}
    BY DEF Projection
  <2>2. DOMAIN Absent = {"kind"} /\ DOMAIN Torn = {"kind"}
    BY DEF Absent, Torn
  <2> QED BY <2>1, <2>2
<1> QED BY <1>1, <1>2, <1>3

\* The command that runs nothing.
LEMMA IdleTypes ==
  ASSUME Components # {}
  PROVE  /\ NoProc \in Proc /\ Accepted \in Proc
         /\ NoProc.pc = "idle" /\ Accepted.pc = "accepted"
<1>1. [c \in Components |-> "clean"] \in UNION {[S -> Attestation] : S \in SUBSET Components}
  <2>1. [c \in Components |-> "clean"] \in [Components -> Attestation]
    BY DEF Attestation
  <2> QED BY <2>1
<1>2. 0 \in Number
  BY StagingAssumption DEF Number
<1> DEFINE m == [n |-> 0, components |-> Components]
           l == [of |-> 0, n |-> 0, members |-> [c \in Components |-> "clean"]]
<1>3. m \in Manifest /\ l \in Lock
  BY <1>1, <1>2 DEF Manifest, Lock
<1>4. NoProc = [pc |-> "idle", since |-> 0, manifest |-> m, lock |-> l]
  BY DEF NoProc
<1> HIDE DEF m, l
<1> QED BY <1>2, <1>3, <1>4 DEF Proc, Pc, Accepted

\* A command that goes on keeps what it read.
LEMMA ProcMoves ==
  ASSUME TypeOK, NEW p \in Processes, NEW at \in Pc, proc' = [proc EXCEPT ![p].pc = at]
  PROVE  /\ proc' \in [Processes -> Proc]
         /\ proc'[p].pc = at
         /\ proc'[p].manifest = proc[p].manifest /\ proc'[p].lock = proc[p].lock
         /\ proc'[p].since = proc[p].since
         /\ \A q \in Processes : q # p => proc'[q] = proc[q]
BY DEF TypeOK, Proc

\* One that ends forgets it.
LEMMA ProcExits ==
  ASSUME TypeOK, NEW p \in Processes, Exit(p)
  PROVE  /\ proc' \in [Processes -> Proc]
         /\ proc'[p].pc = "idle"
         /\ \A q \in Processes : q # p => proc'[q] = proc[q]
<1>1. Components # {}
  BY DEF TypeOK, Manifest
<1> QED BY <1>1, IdleTypes DEF TypeOK, Exit

\* An edit adds one pair to those that have stood.
LEMMA StoodGrows ==
  ASSUME TypeOK, NEW x \in Projection, stood' = Append(stood, x), edits' = edits + 1
  PROVE  /\ stood' \in Seq(Projection) /\ Len(stood') = edits' + 1
         /\ \A e \in 0 .. edits : stood'[e + 1] = stood[e + 1]
         /\ stood'[edits' + 1] = x
         /\ proposed \subseteq proposed' /\ proposed' \subseteq Projection
<1>1. stood \in Seq(Projection) /\ Len(stood) = edits + 1 /\ edits \in Nat
  BY StagingAssumption DEF TypeOK, Number
<1>2. /\ stood' \in Seq(Projection) /\ Len(stood') = Len(stood) + 1
      /\ \A i \in 1 .. Len(stood) : stood'[i] = stood[i]
      /\ stood'[Len(stood) + 1] = x
  BY <1>1, AppendProperties
<1>3. DOMAIN stood = 1 .. edits + 1 /\ DOMAIN stood' = 1 .. edits + 2
  BY <1>1, <1>2
<1>4. proposed \subseteq proposed'
  BY <1>1, <1>2, <1>3 DEF proposed
<1>5. \A i \in DOMAIN stood' : stood'[i] \in Projection
  BY <1>2
<1>6. proposed' \subseteq Projection
  BY <1>5 DEF proposed
<1>7. \A e \in 0 .. edits : e + 1 \in 1 .. Len(stood)
  BY <1>1
<1> QED BY <1>1, <1>2, <1>4, <1>6, <1>7

\* What has stood was proposed, if it could be.
LEMMA StoodIsProposed ==
  ASSUME TypeOK, NEW e \in 0 .. edits
  PROVE  /\ stood[e + 1] \in Projection
         /\ Projectable(stood[e + 1].manifest, stood[e + 1].lock) => stood[e + 1] \in proposed
<1>1. stood \in Seq(Projection) /\ Len(stood) = edits + 1 /\ edits \in Nat
  BY StagingAssumption DEF TypeOK, Number
<1>2. DOMAIN stood = 1 .. edits + 1 /\ e + 1 \in 1 .. edits + 1
  BY <1>1
<1> QED BY <1>1, <1>2 DEF proposed

LEMMA ProposedTypes ==
  ASSUME TypeOK
  PROVE  \A x \in proposed : x \in Projection /\ Projectable(x.manifest, x.lock)
<1>1. \A i \in DOMAIN stood : stood[i] \in Projection
  BY DEF TypeOK
<1> QED BY <1>1 DEF proposed

LEMMA InitTypes == Init => TypeOK
<1> SUFFICES ASSUME Init PROVE TypeOK
  OBVIOUS
<1>1. PICK c \in Components, a \in Attestation : lock = [NoProc.lock EXCEPT !.members[c] = a]
  BY DEF Init
<1>2. NoProc \in Proc
  BY <1>1, IdleTypes
<1>3. manifest \in Manifest /\ NoProc.lock \in Lock
  BY <1>2 DEF Init, Proc
<1>4. lock \in Lock
  <2>1. NoProc.lock = [of |-> 0, n |-> 0, members |-> [x \in Components |-> "clean"]]
    BY DEF NoProc
  <2>2. lock = [of |-> 0, n |-> 0, members |-> [[x \in Components |-> "clean"] EXCEPT ![c] = a]]
    BY <1>1, <2>1
  <2>3. [[x \in Components |-> "clean"] EXCEPT ![c] = a] \in [Components -> Attestation]
    BY DEF Attestation
  <2>4. 0 \in Number
    BY StagingAssumption DEF Number
  <2>5. [[x \in Components |-> "clean"] EXCEPT ![c] = a]
          \in UNION {[S -> Attestation] : S \in SUBSET Components}
    BY <2>3
  <2> QED BY <2>2, <2>4, <2>5 DEF Lock
<1>5. stood = <<Projected(manifest, lock)>> /\ Projected(manifest, lock) \in Projection /\ edits = 0
  BY <1>3, <1>4, ProjectionTypes DEF Init
<1>6. out \in File /\ durable \in File
  <2>1. \A i \in DOMAIN stood : stood[i] \in Projection
    BY <1>5
  <2> QED BY <2>1, FileKinds DEF Init, File, proposed
<1>7. /\ edits \in Number /\ litter \in Nat
      /\ faults \in [Fault -> Nat] /\ Suffered <= MaxFaults
      /\ stood \in Seq(Projection) /\ Len(stood) = edits + 1
      /\ temp \in [Processes -> File] /\ synced \subseteq Processes \cup {"output"}
      /\ proc \in [Processes -> Proc]
  BY <1>2, <1>5, FileKinds, StagingAssumption DEF Init, Number, Fault, Suffered
<1> QED BY <1>3, <1>4, <1>6, <1>7 DEF TypeOK

\* The steps of a command that no fault strikes.
Work(p) ==
  \/ Start(p) \/ LoadLock(p) \/ MakeTemp(p) \/ Write(p) \/ Sync(p) \/ Replace(p)
  \/ Unlink(p) \/ Load(p) \/ ReadAgain(p)

\* All of its steps.
Advance(p) == Work(p) \/ Fail(p) \/ FailUnlink(p) \/ Kill(p)

\* A fault is counted with its kind.
LEMMA FaultTypes ==
  ASSUME TypeOK, NEW kind \in Fault, Suffer(kind)
  PROVE  /\ faults' \in [Fault -> Nat] /\ Suffered' <= MaxFaults
         /\ faults'[kind] = faults[kind] + 1
         /\ \A f \in Fault \ {kind} : faults'[f] = faults[f]
<1>1. faults \in [Fault -> Nat] /\ MaxFaults \in Nat
  BY StagingAssumption DEF TypeOK
<1>2. faults' = [faults EXCEPT ![kind] = @ + 1]
  BY DEF Suffer
<1>3. faults' \in [Fault -> Nat]
  BY <1>1, <1>2
<1>4. faults'[kind] = faults[kind] + 1 /\ \A f \in Fault \ {kind} : faults'[f] = faults[f]
  BY <1>1, <1>2
<1>5. Suffered < MaxFaults /\ Suffered' = Suffered + 1
  BY <1>1, <1>4 DEF Suffer, Suffered, Fault
<1>6. Suffered \in Nat
  BY <1>1 DEF Suffered, Fault
<1> QED BY <1>1, <1>3, <1>4, <1>5, <1>6

\* Moving on, ending, or starting: what a step of p does to proc.
LEMMA CommandProc ==
  ASSUME TypeOK, NEW p \in Processes, Advance(p)
  PROVE  /\ proc' \in [Processes -> Proc]
         /\ \A q \in Processes : q # p => proc'[q] = proc[q]
<1>1. Components # {}
  BY DEF TypeOK, Manifest
<1>2. CASE Start(p)
  <2>1. PICK at \in {"build lock", "validate lock"} :
          proc' = [proc EXCEPT ![p] = [NoProc EXCEPT !.pc = at, !.since = edits, !.manifest = manifest]]
    BY <1>2 DEF Start
  <2>2. [NoProc EXCEPT !.pc = at, !.since = edits, !.manifest = manifest] \in Proc
    BY <1>1, IdleTypes DEF TypeOK, Proc, Pc
  <2> QED BY <2>1, <2>2 DEF TypeOK
<1>3. CASE LoadLock(p) /\ ~Exit(p)
  <2>1. PICK at \in {"build temp", "load"} :
          proc' = [proc EXCEPT ![p] = [@ EXCEPT !.lock = lock, !.pc = at]]
    BY <1>3 DEF LoadLock
  <2>2. [proc[p] EXCEPT !.lock = lock, !.pc = at] \in Proc
    <3>1. proc[p] \in Proc /\ lock \in Lock /\ at \in Pc
      BY DEF TypeOK, Pc
    <3> QED BY <3>1 DEF Proc
  <2> QED BY <2>1, <2>2 DEF TypeOK
<1>4. CASE Exit(p)
  BY <1>4, ProcExits
<1>5. CASE \E at \in Pc : proc' = [proc EXCEPT ![p].pc = at]
  BY <1>5, ProcMoves
<1>6. CASE MakeTemp(p) \/ Write(p) \/ Sync(p) \/ Fail(p) \/ (Load(p) /\ ~Exit(p))
  BY <1>5, <1>6 DEF MakeTemp, Write, Sync, Fail, Load, Goto, Pc
<1>7. CASE ReadAgain(p) /\ ~Exit(p)
  <2>1. proc' = [proc EXCEPT ![p] = Accepted] /\ Accepted \in Proc
    BY <1>1, <1>7, IdleTypes DEF ReadAgain
  <2> QED BY <2>1 DEF TypeOK
<1> QED BY <1>2, <1>3, <1>4, <1>6, <1>7
        DEF Advance, Work, Replace, Unlink, FailUnlink, Kill, Abandon

\* The files of p change; the others' do not.
LEMMA CommandFiles ==
  ASSUME TypeOK, NEW p \in Processes, Advance(p)
  PROVE  /\ temp' \in [Processes -> File] /\ synced' \subseteq Processes \cup {"output"}
         /\ out' \in File /\ litter' \in Nat
         /\ faults' \in [Fault -> Nat] /\ Suffered' <= MaxFaults
         /\ UNCHANGED <<inputs, durable>>
         /\ \A q \in Processes : q # p => temp'[q] = temp[q] /\ (q \in synced => q \in synced')
<1>1. Projected(proc[p].manifest, proc[p].lock) \in File /\ Absent \in File /\ Torn \in File
  BY ProjectionTypes, FileKinds DEF TypeOK, Proc
<1>2. CASE Start(p) \/ LoadLock(p) \/ Load(p) \/ ReadAgain(p)
  BY <1>2 DEF TypeOK, Suffered, Start, LoadLock, Load, ReadAgain
<1>3. CASE MakeTemp(p) \/ Write(p)
  BY <1>1, <1>3 DEF TypeOK, Suffered, MakeTemp, Write
<1>4. CASE Sync(p)
  BY <1>4 DEF TypeOK, Suffered, Sync
<1>5. CASE Replace(p) \/ Unlink(p)
  <2>1. temp' = [temp EXCEPT ![p] = Absent] /\ out' \in {out, temp[p]}
        /\ UNCHANGED <<inputs, durable, faults, litter>>
    BY <1>5 DEF Replace, Unlink
  <2>2. synced' \subseteq synced \cup {"output"} /\ synced \ {p, "output"} \subseteq synced'
    BY <1>5 DEF Replace, Unlink
  <2>3. "output" \notin Processes
    BY StagingAssumption
  <2> QED BY <1>1, <2>1, <2>2, <2>3 DEF TypeOK, Suffered
<1>6. CASE FailUnlink(p) \/ Kill(p)
  <2>1. faults' \in [Fault -> Nat] /\ Suffered' <= MaxFaults
    BY <1>6, FaultTypes DEF FailUnlink, Kill, Fault
  <2>2. Abandon(p)
    BY <1>6 DEF FailUnlink, Kill
  <2>3. litter' \in Nat
    BY <2>2 DEF TypeOK, Abandon
  <2> QED BY <1>1, <2>1, <2>2, <2>3 DEF TypeOK, Abandon
<1>7. CASE Fail(p)
  <2>1. faults' \in [Fault -> Nat] /\ Suffered' <= MaxFaults
    BY <1>7, FaultTypes DEF Fail, Fault
  <2> QED BY <1>7, <2>1 DEF TypeOK, Fail
<1> QED BY <1>2, <1>3, <1>4, <1>5, <1>6, <1>7 DEF Advance, Work

LEMMA EditManifestTypes ==
  ASSUME TypeOK, EditManifest
  PROVE  TypeOK'
<1>1. PICK S \in (SUBSET Components) \ {{}} : manifest' = [n |-> edits + 1, components |-> S]
  BY DEF EditManifest
<1>2. edits' = edits + 1 /\ edits + 1 \in Number
  BY StagingAssumption DEF TypeOK, EditManifest, Number
<1>3. manifest' \in Manifest
  BY <1>1, <1>2 DEF Manifest
<1>4. stood' \in Seq(Projection) /\ Len(stood') = edits' + 1
  <2>1. Projected(manifest', lock) \in Projection
    BY <1>3, ProjectionTypes DEF TypeOK
  <2> QED BY <1>2, <2>1, StoodGrows DEF EditManifest
<1> QED BY <1>2, <1>3, <1>4 DEF TypeOK, Suffered, EditManifest

LEMMA EditLockTypes ==
  ASSUME TypeOK, EditLock
  PROVE  TypeOK'
<1>1. PICK S \in {manifest.components, Components}, c \in Components, a \in Attestation :
        lock' = [of |-> manifest.n, n |-> edits + 1,
                 members |-> [x \in S |-> IF x = c THEN a ELSE "clean"]]
  BY DEF EditLock
<1>2. edits' = edits + 1 /\ edits + 1 \in Number
  BY StagingAssumption DEF TypeOK, EditLock, Number
<1>3. S \subseteq Components /\ manifest.n \in Number
  BY DEF TypeOK, Manifest
<1>4. [x \in S |-> IF x = c THEN a ELSE "clean"] \in [S -> Attestation]
  BY DEF Attestation
<1>5. lock' \in Lock
  BY <1>1, <1>2, <1>3, <1>4 DEF Lock
<1>6. stood' \in Seq(Projection) /\ Len(stood') = edits' + 1
  <2>1. Projected(manifest, lock') \in Projection
    BY <1>5, ProjectionTypes DEF TypeOK
  <2> QED BY <1>2, <2>1, StoodGrows DEF EditLock
<1> QED BY <1>2, <1>5, <1>6 DEF TypeOK, Suffered, EditLock

LEMMA PowerCutTypes ==
  ASSUME TypeOK, PowerCut
  PROVE  TypeOK'
<1>1. Components # {}
  BY DEF TypeOK, Manifest
<1>2. proc' \in [Processes -> Proc] /\ temp' \in [Processes -> File]
  BY <1>1, IdleTypes, FileKinds DEF PowerCut
<1>3. Cardinality({p \in Processes : temp[p] # Absent}) \in Nat
  <2>1. IsFiniteSet({p \in Processes : temp[p] # Absent})
    BY StagingAssumption, FS_Subset
  <2> QED BY <2>1, FS_CardinalityType
<1>4. litter' \in Nat /\ faults' \in [Fault -> Nat] /\ Suffered' <= MaxFaults
  BY <1>3, FaultTypes DEF TypeOK, PowerCut, Fault
<1> QED BY <1>2, <1>4 DEF TypeOK, PowerCut, inputs

LEMMA NextTypes == ASSUME TypeOK, [Next]_vars PROVE TypeOK'
<1>1. CASE EditManifest
  BY <1>1, EditManifestTypes
<1>2. CASE EditLock
  BY <1>2, EditLockTypes
<1>3. CASE Settle
  BY <1>3, FileKinds DEF TypeOK, Suffered, Settle, inputs
<1>4. CASE PowerCut
  BY <1>4, PowerCutTypes
<1>5. ASSUME NEW p \in Processes, Advance(p) PROVE TypeOK'
  BY <1>5, CommandProc, CommandFiles DEF TypeOK, inputs
<1>6. CASE UNCHANGED vars
  BY <1>6 DEF TypeOK, Suffered, vars
<1> QED BY <1>1, <1>2, <1>3, <1>4, <1>5, <1>6 DEF Next, Advance, Work

\* Every variable keeps its type.
THEOREM TypeCorrect == Spec => []TypeOK
BY InitTypes, NextTypes, PTL DEF Spec

-----------------------------------------------------------------------------
(* What is published was proposed. *)

\* The numbers that order the inputs.
LEMMA Numbers ==
  ASSUME TypeOK
  PROVE  /\ edits \in Nat /\ manifest.n \in Int /\ lock.of \in Int
         /\ \A p \in Processes : proc[p].manifest.n \in Int /\ proc[p].manifest \in Manifest
                                 /\ proc[p].lock \in Lock /\ proc[p].since \in Nat
<1>1. \A p \in Processes : proc[p] \in Proc
  BY DEF TypeOK
<1>2. \A k \in Number : k \in Nat /\ k \in Int
  BY StagingAssumption DEF Number
<1>3. \A m \in Manifest : m.n \in Number
  BY DEF Manifest
<1>4. \A l \in Lock : l.of \in Number
  BY DEF Lock
<1>5. \A x \in Proc : x.manifest \in Manifest /\ x.lock \in Lock /\ x.since \in Number
  BY DEF Proc
<1>6. manifest \in Manifest /\ lock \in Lock /\ edits \in Number
  BY DEF TypeOK
<1>7. edits \in Nat /\ manifest.n \in Int /\ lock.of \in Int
  BY <1>2, <1>3, <1>4, <1>6
<1>8. ASSUME NEW p \in Processes
      PROVE  /\ proc[p].manifest.n \in Int /\ proc[p].manifest \in Manifest
             /\ proc[p].lock \in Lock /\ proc[p].since \in Nat
  BY <1>1, <1>2, <1>3, <1>5
<1> QED BY <1>7, <1>8

\* What a command loaded was proposed.
LEMMA LoadedIsProposed ==
  ASSUME TypeOK, NEW p \in Processes, ProcSound(p), proc[p].pc \in Loaded
  PROVE  Projected(proc[p].manifest, proc[p].lock) \in proposed
<1>1. PICK e \in proc[p].since .. edits : stood[e + 1] = Projected(proc[p].manifest, proc[p].lock)
  BY DEF ProcSound, StoodSince
<1>2. e \in 0 .. edits
  BY <1>1, Numbers
<1>3. stood[e + 1].manifest = proc[p].manifest /\ stood[e + 1].lock = proc[p].lock
  BY <1>1, Numbers, ProjectionTypes
<1> QED BY <1>1, <1>2, <1>3, StoodIsProposed DEF ProcSound

LEMMA InitSound == ASSUME TypeOK, Init PROVE Sound
<1>1. PICK c \in Components, a \in Attestation : lock = [NoProc.lock EXCEPT !.members[c] = a]
  BY DEF Init
<1>2. manifest.n = 0 /\ lock.of = 0 /\ NoProc.pc = "idle" /\ edits = 0
  BY <1>1 DEF Init, NoProc
<1>3. stood[edits + 1] = Projected(manifest, lock)
  BY <1>2 DEF Init
<1>4. \A p \in Processes : ProcSound(p)
  BY <1>2 DEF Init, ProcSound, Loading, Loaded
<1> QED BY <1>2, <1>3, <1>4 DEF Init, Sound

\* One more pair: those that stood before still have.
LEMMA StoodStays ==
  ASSUME TypeOK, NEW x \in Projection, stood' = Append(stood, x), edits' = edits + 1
  PROVE  \A since, y : StoodSince(since, y) /\ since \in Nat => StoodSince(since, y)'
<1> SUFFICES ASSUME NEW since \in Nat, NEW y, StoodSince(since, y) PROVE StoodSince(since, y)'
  OBVIOUS
<1>1. PICK e \in since .. edits : stood[e + 1] = y
  BY DEF StoodSince
<1>2. e \in 0 .. edits /\ e \in since .. edits'
  BY <1>1, Numbers
<1>3. stood'[e + 1] = y
  BY <1>1, <1>2, StoodGrows
<1> QED BY <1>2, <1>3 DEF StoodSince

\* What no edit can take from a command that no step touches.
LEMMA EditsKeep ==
  ASSUME TypeOK, NEW x \in Projection, stood' = Append(stood, x), edits' = edits + 1,
         UNCHANGED <<temp, synced, proc>>,
         NEW q \in Processes, ProcSound(q),
         proc[q].pc \in Loading => Covered(proc[q].manifest, proc[q].since)'
  PROVE  ProcSound(q)'
<1>1. proc[q].since \in Nat
  BY Numbers
<1>2. \A y : StoodSince(proc[q].since, y) => StoodSince(proc[q].since, y)'
  BY <1>1, StoodStays
<1> QED BY <1>2 DEF ProcSound, Projectable, Projected

\* A new manifest has a number no lock digests and no command has read.
LEMMA EditManifestSound == ASSUME TypeOK, Sound, EditManifest PROVE Sound'
<1>1. PICK S : manifest' = [n |-> edits + 1, components |-> S]
  BY DEF EditManifest
<1>2. /\ manifest'.n = edits + 1 /\ edits' = edits + 1 /\ lock' = lock
      /\ stood' = Append(stood, Projected(manifest', lock))
      /\ UNCHANGED <<out, durable, temp, synced, proc>>
  BY <1>1 DEF EditManifest
<1>3. Projected(manifest', lock) \in Projection
  BY <1>2, EditManifestTypes, ProjectionTypes DEF TypeOK
<1>4. proposed \subseteq proposed' /\ stood'[edits' + 1] = Projected(manifest', lock')
  BY <1>2, <1>3, StoodGrows
<1>5. lock'.of <= manifest'.n /\ manifest'.n <= edits'
  BY <1>2, Numbers DEF Sound
<1>6. ASSUME NEW q \in Processes PROVE ProcSound(q)'
  <2> DEFINE m == proc[q].manifest
             since == proc[q].since
  <2>1. ASSUME proc[q].pc \in Loading PROVE Covered(m, since)'
    <3>1. Covered(m, since) /\ manifest.n <= edits
      BY <2>1 DEF Sound, ProcSound
    <3>2. m' = m /\ since' = since /\ since \in Nat /\ m.n \in Int
      BY <1>2, Numbers
    <3>3. Projectable(m, lock) => StoodSince(since, Projected(m, lock))'
      BY <1>2, <1>3, <3>1, <3>2, StoodStays DEF Covered, Projectable, Projected
    <3> HIDE DEF m, since
    <3>4. since <= edits + 1 /\ m.n < edits + 1
      BY <3>1, <3>2, Numbers DEF Covered
    <3> QED BY <1>2, <3>2, <3>3, <3>4 DEF Covered, Projectable, Projected
  <2>2. ProcSound(q)
    BY DEF Sound
  <2> QED BY <1>2, <1>3, <2>1, <2>2, EditsKeep
<1> QED BY <1>2, <1>4, <1>5, <1>6 DEF Sound

\* A new lock digests the current manifest: with any other it projects nothing.
LEMMA EditLockSound == ASSUME TypeOK, Sound, EditLock PROVE Sound'
<1>1. /\ lock'.of = manifest.n /\ edits' = edits + 1 /\ manifest' = manifest
      /\ stood' = Append(stood, Projected(manifest, lock'))
      /\ UNCHANGED <<out, durable, temp, synced, proc>>
  BY DEF EditLock
<1>2. Projected(manifest, lock') \in Projection
  BY <1>1, EditLockTypes, ProjectionTypes DEF TypeOK
<1>3. proposed \subseteq proposed' /\ stood'[edits' + 1] = Projected(manifest, lock')
  BY <1>1, <1>2, StoodGrows
<1>4. ASSUME NEW q \in Processes PROVE ProcSound(q)'
  <2> DEFINE m == proc[q].manifest
             since == proc[q].since
  <2>1. ASSUME proc[q].pc \in Loading PROVE Covered(m, since)'
    <3>1. Covered(m, since)
      BY <2>1 DEF Sound, ProcSound
    <3>2. m' = m /\ since' = since /\ since \in Nat
      BY <1>1, Numbers
    <3> HIDE DEF m, since
    <3>3. Projectable(m, lock') => m = manifest
      BY <1>1, <3>1 DEF Projectable, Covered
    <3>4. since <= edits' /\ edits' \in since .. edits'
      BY <1>1, <3>1, <3>2, Numbers DEF Covered
    <3>5. Projectable(m, lock') => StoodSince(since, Projected(m, lock))'
      BY <1>1, <1>3, <3>2, <3>3, <3>4 DEF StoodSince, Projected
    <3> QED BY <1>1, <3>1, <3>2, <3>4, <3>5 DEF Covered, Projectable, Projected
  <2>2. ProcSound(q)
    BY DEF Sound
  <2> QED BY <1>1, <1>2, <2>1, <2>2, EditsKeep
<1> QED BY <1>1, <1>3, <1>4, Numbers DEF Sound

\* While the inputs stay, so does what they are owed.
LEMMA InputsStay ==
  ASSUME UNCHANGED inputs
  PROVE  /\ proposed' = proposed
         /\ \A since, x : StoodSince(since, x)' <=> StoodSince(since, x)
         /\ \A m, since : Covered(m, since)' <=> Covered(m, since)
BY DEF inputs, proposed, StoodSince, Covered, Projectable, Projected

LEMMA DiskSound == ASSUME TypeOK, Sound, Settle \/ PowerCut PROVE Sound'
<1>1. UNCHANGED inputs
  BY DEF Settle, PowerCut
<1>2. proposed' = proposed
  BY <1>1, InputsStay
<1>3. CASE Settle
  <2>1. durable' = out /\ UNCHANGED <<out, temp, synced, proc>>
    BY <1>3 DEF Settle, Sound
  <2>2. ASSUME NEW q \in Processes PROVE ProcSound(q)'
    <3>1. ProcSound(q)
      BY DEF Sound
    <3> QED BY <1>1, <2>1, <3>1 DEF ProcSound, Covered, StoodSince, Projectable, Projected, inputs
  <2> QED BY <1>1, <1>2, <2>1, <2>2 DEF Sound, inputs, Projected
<1>4. CASE PowerCut
  <2>1. /\ out' = durable /\ durable' = durable /\ synced' = {"output"}
        /\ temp' = [p \in Processes |-> Absent] /\ proc' = [p \in Processes |-> NoProc]
    BY <1>4 DEF PowerCut
  <2>2. NoProc.pc = "idle"
    BY DEF NoProc
  <2>3. ASSUME NEW q \in Processes PROVE ProcSound(q)'
    BY <2>1, <2>2 DEF ProcSound, Loading, Loaded
  <2> QED BY <1>1, <1>2, <2>1, <2>3 DEF Sound, inputs, Projected
<1> QED BY <1>3, <1>4

\* What a step of p leaves to the others, and what it owes of its own.
LEMMA OthersStay ==
  ASSUME TypeOK, Sound, NEW p \in Processes, Advance(p),
         out' \in proposed \cup {Absent}, "output" \in synced', ProcSound(p)'
  PROVE  Sound'
<1>1. /\ UNCHANGED <<inputs, durable>>
      /\ \A q \in Processes : q # p =>
           temp'[q] = temp[q] /\ proc'[q] = proc[q] /\ (q \in synced => q \in synced')
  BY CommandFiles, CommandProc
<1>2. ASSUME NEW q \in Processes PROVE ProcSound(q)'
  <2>1. CASE q = p
    BY <2>1
  <2>2. CASE q # p
    <3>1. ProcSound(q) /\ proc'[q] = proc[q] /\ temp'[q] = temp[q] /\ (q \in synced => q \in synced')
      BY <1>1, <2>2 DEF Sound
    <3> QED BY <1>1, <3>1 DEF ProcSound, Covered, StoodSince, Projectable, Projected, inputs
  <2> QED BY <2>1, <2>2
<1>3. proposed' = proposed
  BY <1>1, InputsStay
<1> QED BY <1>1, <1>2, <1>3 DEF Sound, Projected, inputs

\* A command that ended, its file gone with it, owes nothing.
LEMMA ExitSound ==
  ASSUME TypeOK, NEW p \in Processes, Exit(p), temp'[p] = Absent
  PROVE  ProcSound(p)'
<1>1. proc'[p].pc = "idle"
  BY ProcExits
<1> QED BY <1>1 DEF ProcSound, Loading, Loaded

\* Reading the inputs: the pair that is accepted was proposed.
LEMMA ReadingSound ==
  ASSUME TypeOK, Sound, NEW p \in Processes, Start(p) \/ LoadLock(p)
  PROVE  Sound'
<1>1. ProcSound(p) /\ UNCHANGED <<inputs, out, temp, synced>>
  BY DEF Sound, Start, LoadLock
<1>2. ProcSound(p)'
  <2>1. CASE Start(p)
    <3>1. Components # {}
      BY DEF TypeOK, Manifest
    <3>2. PICK at \in Loading :
            proc' = [proc EXCEPT ![p] = [NoProc EXCEPT !.pc = at, !.since = edits, !.manifest = manifest]]
      BY <2>1 DEF Start, Loading
    <3>3. proc'[p].pc \in Loading /\ proc'[p].manifest = manifest /\ proc'[p].since = edits
      BY <3>1, <3>2, IdleTypes DEF TypeOK, Proc
    <3>4. temp'[p] = Absent
      BY <1>1, <2>1 DEF Start, ProcSound, Owning
    <3>5. Covered(manifest, edits)
      BY Numbers DEF Sound, Covered, StoodSince
    <3>6. Covered(proc[p].manifest, proc[p].since)'
      BY <1>1, <3>3, <3>5 DEF Covered, StoodSince, Projectable, Projected, inputs
    <3> QED BY <3>3, <3>4, <3>6 DEF ProcSound, Loading, Loaded
  <2>2. CASE LoadLock(p) /\ ~Exit(p)
    <3>1. Projectable(proc[p].manifest, lock) /\ proc[p].pc \in Loading
      BY <2>2 DEF LoadLock, Loading
    <3>2. StoodSince(proc[p].since, Projected(proc[p].manifest, lock))
      BY <1>1, <3>1 DEF ProcSound, Covered
    <3>3. PICK at \in {"build temp", "load"} :
            proc' = [proc EXCEPT ![p] = [@ EXCEPT !.lock = lock, !.pc = at]]
      BY <2>2 DEF LoadLock
    <3>4. /\ proc'[p].pc = at /\ proc'[p].since = proc[p].since
          /\ proc'[p].manifest = proc[p].manifest /\ proc'[p].lock = lock
      BY <3>3 DEF TypeOK, Proc
    <3>5. temp'[p] = Absent
      BY <1>1, <3>1 DEF ProcSound, Loading, Owning
    <3> QED BY <1>1, <3>1, <3>2, <3>4, <3>5
            DEF ProcSound, Loading, StoodSince, Projectable, Projected, inputs
  <2>3. CASE LoadLock(p) /\ Exit(p)
    <3>1. temp'[p] = Absent
      BY <1>1, <2>3 DEF LoadLock, ProcSound, Owning
    <3> QED BY <2>3, <3>1, ExitSound
  <2> QED BY <2>1, <2>2, <2>3
<1> QED BY <1>1, <1>2, OthersStay, InputsStay DEF Advance, Work, Sound

\* Writing beside the output: only what was loaded, and only synced is it renamed.
LEMMA WritingSound ==
  ASSUME TypeOK, Sound, NEW p \in Processes,
         MakeTemp(p) \/ Write(p) \/ Sync(p) \/ Fail(p)
  PROVE  Sound'
<1>1. ProcSound(p) /\ UNCHANGED <<inputs, out>> /\ "output" \in synced'
  BY DEF Sound, MakeTemp, Write, Sync, Fail
<1>2. ProcSound(p)'
  <2>1. CASE MakeTemp(p)
    <3>1. proc[p].pc = "build temp"
      BY <2>1 DEF MakeTemp, Goto
    <3>2. /\ proc'[p].pc = "write" /\ proc'[p].since = proc[p].since
          /\ proc'[p].manifest = proc[p].manifest /\ proc'[p].lock = proc[p].lock
      BY <2>1, ProcMoves DEF MakeTemp, Goto, Pc
    <3> QED BY <1>1, <3>1, <3>2
            DEF ProcSound, Loading, Loaded, Owning, StoodSince, Projectable, Projected, inputs
  <2>2. CASE Write(p)
    <3>1. proc[p].pc = "write"
      BY <2>2 DEF Write, Goto
    <3>2. /\ proc'[p].pc = "sync" /\ proc'[p].since = proc[p].since
          /\ proc'[p].manifest = proc[p].manifest /\ proc'[p].lock = proc[p].lock
      BY <2>2, ProcMoves DEF Write, Goto, Pc
    <3>3. temp'[p] = Projected(proc[p].manifest, proc[p].lock)
      BY <2>2 DEF Write, TypeOK
    <3> QED BY <1>1, <3>1, <3>2, <3>3
            DEF ProcSound, Loading, Loaded, Owning, StoodSince, Projectable, Projected, inputs
  <2>3. CASE Sync(p)
    <3>1. proc[p].pc = "sync"
      BY <2>3 DEF Sync, Goto
    <3>2. /\ proc'[p].pc = "replace" /\ proc'[p].since = proc[p].since
          /\ proc'[p].manifest = proc[p].manifest /\ proc'[p].lock = proc[p].lock
      BY <2>3, ProcMoves DEF Sync, Goto, Pc
    <3>3. temp' = temp /\ p \in synced'
      BY <2>3 DEF Sync
    <3> QED BY <1>1, <3>1, <3>2, <3>3
            DEF ProcSound, Loading, Loaded, Owning, StoodSince, Projectable, Projected, inputs
  <2>4. CASE Fail(p)
    <3>1. proc' = [proc EXCEPT ![p].pc = "unlink"] /\ temp' = temp
      BY <2>4 DEF Fail
    <3>2. proc'[p].pc = "unlink"
      BY <3>1, ProcMoves DEF Pc
    <3> QED BY <3>2 DEF ProcSound, Loading, Loaded, Owning
  <2> QED BY <2>1, <2>2, <2>3, <2>4
<1> QED BY <1>1, <1>2, OthersStay, InputsStay DEF Advance, Work, Sound

\* The rename, the removal, its failure and the kill end the command and its file.
LEMMA EndingSound ==
  ASSUME TypeOK, Sound, NEW p \in Processes,
         Replace(p) \/ Unlink(p) \/ FailUnlink(p) \/ Kill(p)
  PROVE  Sound'
<1>1. Exit(p) /\ temp'[p] = Absent
  BY DEF Replace, Unlink, FailUnlink, Kill, Abandon, TypeOK
<1>2. ProcSound(p)'
  BY <1>1, ExitSound
<1>3. "output" \in synced'
  BY StagingAssumption DEF Sound, ProcSound, Replace, Unlink, FailUnlink, Kill, Abandon
<1>4. out' \in proposed \cup {Absent}
  <2>1. CASE Replace(p)
    <3>1. ProcSound(p) /\ proc[p].pc = "replace" /\ out' = temp[p]
      BY <2>1 DEF Replace, Sound
    <3> QED BY <3>1, LoadedIsProposed DEF ProcSound, Loaded
  <2>2. CASE Unlink(p) \/ FailUnlink(p) \/ Kill(p)
    BY <2>2 DEF Unlink, FailUnlink, Kill, Abandon, Sound
  <2> QED BY <2>1, <2>2
<1> QED BY <1>2, <1>3, <1>4, OthersStay DEF Advance, Work

\* `validate` only reads.
LEMMA ValidatingSound ==
  ASSUME TypeOK, Sound, NEW p \in Processes, Load(p) \/ ReadAgain(p)
  PROVE  Sound'
<1>1. ProcSound(p) /\ UNCHANGED <<inputs, out, temp, synced>> /\ temp[p] = Absent
  BY DEF Sound, Load, ReadAgain, ProcSound, Owning
<1>2. CASE Exit(p)
  BY <1>1, <1>2, ExitSound, OthersStay, InputsStay DEF Advance, Work, Sound
<1>3. CASE Load(p) /\ ~Exit(p)
  <2>1. proc[p].pc = "load"
    BY <1>3 DEF Load
  <2>2. /\ proc'[p].pc = "read again" /\ proc'[p].since = proc[p].since
        /\ proc'[p].manifest = proc[p].manifest /\ proc'[p].lock = proc[p].lock
    BY <1>3, ProcMoves DEF Load, Pc
  <2>3. ProcSound(p)'
    BY <1>1, <2>1, <2>2 DEF ProcSound, Loading, Loaded, StoodSince, Projectable, Projected, inputs
  <2> QED BY <1>1, <1>3, <2>3, OthersStay, InputsStay DEF Advance, Work, Sound
<1>4. CASE ReadAgain(p) /\ ~Exit(p)
  <2>1. proc' = [proc EXCEPT ![p] = Accepted]
    BY <1>4 DEF ReadAgain
  <2>2. proc'[p].pc = "accepted"
    BY <2>1, IdleTypes DEF TypeOK, Manifest
  <2>3. ProcSound(p)'
    BY <1>1, <2>2 DEF ProcSound, Loading, Loaded
  <2> QED BY <1>1, <1>4, <2>3, OthersStay, InputsStay DEF Advance, Work, Sound
<1> QED BY <1>2, <1>3, <1>4

LEMMA StepSound == ASSUME TypeOK, Sound, [Next]_vars PROVE Sound'
<1>1. CASE EditManifest \/ EditLock \/ Settle \/ PowerCut
  BY <1>1, EditManifestSound, EditLockSound, DiskSound
<1>2. ASSUME NEW p \in Processes, Advance(p) PROVE Sound'
  BY <1>2, ReadingSound, WritingSound, EndingSound, ValidatingSound DEF Advance, Work
<1>3. CASE UNCHANGED vars
  <2>1. proposed' = proposed
    BY <1>3, InputsStay DEF vars, inputs
  <2> QED BY <1>3, <2>1 DEF Sound, ProcSound, Covered, StoodSince, Projectable, Projected, vars
<1> QED BY <1>1, <1>2, <1>3 DEF Next, Advance, Work

\* The inductive invariant: everything on the disk, or on its way there, is the
\* projection of a pair of inputs that stood together at some moment, and what a
\* command loaded stood together since it started.
THEOREM SoundInvariant == Spec => [](TypeOK /\ Sound)
<1>1. Init => TypeOK /\ Sound
  BY InitTypes, InitSound
<1>2. TypeOK /\ Sound /\ [Next]_vars => TypeOK' /\ Sound'
  BY NextTypes, StepSound
<1> QED BY <1>1, <1>2, PTL DEF Spec

\* A published projection describes one release, however the edits of the two
\* inputs fell between the two loads.
THEOREM PublishedIsOneRelease == Spec => []OutIsOneRelease
<1>1. ASSUME TypeOK, Sound PROVE OutIsOneRelease
  <2> SUFFICES ASSUME out # Absent
               PROVE  /\ out # Torn
                      /\ Projectable(out.manifest, out.lock)
    BY DEF OutIsOneRelease, Projectable
  <2>1. out \in proposed
    BY <1>1 DEF Sound
  <2>2. out \in Projection /\ Projectable(out.manifest, out.lock)
    BY <1>1, <2>1, ProposedTypes
  <2> QED BY <2>2, FileKinds
<1> QED BY <1>1, SoundInvariant, PTL

-----------------------------------------------------------------------------
(* The temporary files nobody owns. *)

\* What there are of them is charged to the faults.
Charged ==
  litter <= faults["cleanup"] + faults["kill"] + Cardinality(Processes) * faults["power"]

\* A power cut abandons at most one for each command.
LEMMA AbandonedAtOnce ==
  ASSUME TypeOK
  PROVE  /\ Cardinality(Processes) \in Nat
         /\ Cardinality({p \in Processes : temp[p] # Absent}) \in Nat
         /\ Cardinality({p \in Processes : temp[p] # Absent}) <= Cardinality(Processes)
<1>1. /\ IsFiniteSet({p \in Processes : temp[p] # Absent})
      /\ Cardinality({p \in Processes : temp[p] # Absent}) <= Cardinality(Processes)
  BY StagingAssumption, FS_Subset
<1> QED BY <1>1, StagingAssumption, FS_CardinalityType

\* A fault of any kind only adds to what may be charged.
LEMMA ChargeGrows ==
  ASSUME TypeOK, NEW kind \in Fault, Suffer(kind), NEW extra \in Nat,
         litter' = litter + extra, Charged,
         extra <= CASE kind = "call" -> 0
                    [] kind \in {"cleanup", "kill"} -> 1
                    [] kind = "power" -> Cardinality(Processes)
  PROVE  Charged'
<1> DEFINE N == Cardinality(Processes)
<1>1. N \in Nat /\ litter \in Nat /\ faults \in [Fault -> Nat]
  BY AbandonedAtOnce DEF TypeOK
<1>2. /\ faults'[kind] = faults[kind] + 1
      /\ \A f \in Fault \ {kind} : faults'[f] = faults[f]
  BY FaultTypes
<1>3. CASE kind = "call"
  BY <1>1, <1>2, <1>3 DEF Charged, Fault
<1>4. CASE kind \in {"cleanup", "kill"}
  <2>1. extra <= 1 /\ faults'["power"] = faults["power"]
    BY <1>2, <1>4 DEF Fault
  <2>2. faults'["cleanup"] + faults'["kill"] = faults["cleanup"] + faults["kill"] + 1
    BY <1>1, <1>2, <1>4 DEF Fault
  <2>3. N * faults["power"] \in Nat
    BY <1>1 DEF Fault
  <2> QED BY <1>1, <2>1, <2>2, <2>3 DEF Charged, Fault
<1>5. CASE kind = "power"
  <2>1. /\ extra <= N /\ faults'["power"] = faults["power"] + 1
        /\ faults'["cleanup"] = faults["cleanup"] /\ faults'["kill"] = faults["kill"]
    BY <1>2, <1>5 DEF Fault
  <2>2. \A k \in Nat : N * (k + 1) = N * k + N /\ N * k \in Nat
    BY <1>1
  <2>3. N * faults'["power"] = N * faults["power"] + N /\ N * faults["power"] \in Nat
    BY <1>1, <2>1, <2>2 DEF Fault
  <2> QED BY <1>1, <2>1, <2>3 DEF Charged, Fault
<1> QED BY <1>3, <1>4, <1>5 DEF Fault

LEMMA StepCharged == ASSUME TypeOK, Charged, [Next]_vars PROVE Charged'
<1>1. CASE UNCHANGED <<litter, faults>>
  BY <1>1 DEF Charged
<1>2. CASE PowerCut
  BY <1>2, AbandonedAtOnce, ChargeGrows DEF PowerCut, Fault
<1>3. ASSUME NEW p \in Processes, Fail(p) PROVE Charged'
  <2>1. litter' = litter + 0
    BY <1>3 DEF Fail, TypeOK
  <2> QED BY <1>3, <2>1, ChargeGrows DEF Fail, Fault
<1>4. ASSUME NEW p \in Processes, FailUnlink(p) \/ Kill(p) PROVE Charged'
  <2>1. PICK extra \in 0 .. 1 : litter' = litter + extra
    BY <1>4 DEF FailUnlink, Kill, Abandon
  <2>2. PICK kind \in {"cleanup", "kill"} : Suffer(kind)
    BY <1>4 DEF FailUnlink, Kill
  <2> QED BY <2>1, <2>2, ChargeGrows DEF Fault
<1>5. CASE EditManifest \/ EditLock \/ Settle \/ UNCHANGED vars
  BY <1>1, <1>5 DEF EditManifest, EditLock, Settle, vars
<1>6. ASSUME NEW p \in Processes, Work(p) PROVE Charged'
  BY <1>1, <1>6 DEF Work, Start, LoadLock, MakeTemp, Write, Sync, Replace, Unlink, Load, ReadAgain
<1> QED BY <1>2, <1>3, <1>4, <1>5, <1>6 DEF Next, Work

\* An exception leaves no temporary file unless its removal fails as well: whatever
\* nobody owns is charged to a failed removal, a kill or a power cut.
THEOREM TempsHaveCauses == Spec => []TempsAreAccountedFor
<1>1. Init => TypeOK /\ Charged
  <2>1. Init => litter = 0 /\ faults = [f \in Fault |-> 0] /\ TypeOK
    BY InitTypes DEF Init
  <2> QED BY <2>1, AbandonedAtOnce DEF Charged, Fault
<1>2. TypeOK /\ Charged /\ [Next]_vars => TypeOK' /\ Charged'
  BY NextTypes, StepCharged
<1>3. Sound /\ Charged => TempsAreAccountedFor
  BY DEF Sound, ProcSound, Owning, Charged, TempsAreAccountedFor
<1> QED BY <1>1, <1>2, <1>3, SoundInvariant, PTL DEF Spec

-----------------------------------------------------------------------------
\* `validate` says yes only of a pair of inputs that stood together while it ran: the
\* pair it loaded, since the lock digests the manifest and is refused with any other.
THEOREM AcceptanceIsCurrent == Spec => AcceptedWasCurrent
<1> DEFINE Current == \A p \in Processes :
                        (proc'[p].pc = "accepted" /\ proc[p].pc # "accepted") =>
                          \E e \in proc[p].since .. edits : out = stood[e + 1]
<1>1. TypeOK /\ Sound /\ [Next]_vars => [Current]_vars
  <2> SUFFICES ASSUME TypeOK, Sound, [Next]_vars, NEW p \in Processes,
                      proc'[p].pc = "accepted", proc[p].pc # "accepted"
               PROVE  \E e \in proc[p].since .. edits : out = stood[e + 1]
    OBVIOUS
  <2>1. CASE EditManifest \/ EditLock \/ Settle \/ UNCHANGED vars
    BY <2>1 DEF EditManifest, EditLock, Settle, vars
  <2>2. CASE PowerCut
    BY <2>2 DEF PowerCut, NoProc
  <2>3. ASSUME NEW q \in Processes, q # p, Advance(q) PROVE FALSE
    BY <2>3, CommandProc
  <2>4. CASE Exit(p)
    BY <2>4, ProcExits
  <2>5. CASE \E at \in Pc \ {"accepted"} : proc' = [proc EXCEPT ![p].pc = at]
    BY <2>5, ProcMoves
  <2>6. CASE MakeTemp(p) \/ Write(p) \/ Sync(p) \/ Fail(p) \/ (Load(p) /\ ~Exit(p))
    BY <2>5, <2>6 DEF MakeTemp, Write, Sync, Fail, Load, Goto, Pc
  <2>7. CASE Start(p)
    <3>1. PICK at \in Loading :
            proc' = [proc EXCEPT ![p] = [NoProc EXCEPT !.pc = at, !.since = edits, !.manifest = manifest]]
      BY <2>7 DEF Start, Loading
    <3>2. proc'[p].pc = at
      BY <3>1, IdleTypes DEF TypeOK, Proc, Manifest
    <3> QED BY <3>2 DEF Loading
  <2>8. CASE LoadLock(p) /\ ~Exit(p)
    <3>1. PICK at \in {"build temp", "load"} :
            proc' = [proc EXCEPT ![p] = [@ EXCEPT !.lock = lock, !.pc = at]]
      BY <2>8 DEF LoadLock
    <3>2. proc'[p].pc = at
      BY <3>1 DEF TypeOK, Proc
    <3> QED BY <3>2
  <2>9. CASE ReadAgain(p) /\ ~Exit(p)
    <3>1. proc[p].pc = "read again" /\ out = Projected(proc[p].manifest, proc[p].lock)
      BY <2>9 DEF ReadAgain
    <3>2. StoodSince(proc[p].since, Projected(proc[p].manifest, proc[p].lock))
      BY <3>1 DEF Sound, ProcSound, Loaded
    <3> QED BY <3>1, <3>2 DEF StoodSince
  <2> QED BY <2>1, <2>2, <2>3, <2>4, <2>6, <2>7, <2>8, <2>9
          DEF Next, Advance, Work, Replace, Unlink, FailUnlink, Kill, Abandon
<1> QED BY <1>1, SoundInvariant, PTL DEF Spec, AcceptedWasCurrent

-----------------------------------------------------------------------------
\* The commands implement the register of StagingRegister: each rename publishes, in
\* one step, a projection that was proposed, and a power cut takes the file back to
\* the content that last reached the disk, undoing every rename since.
THEOREM Implementation == Spec => Refines
<1>1. TypeOK /\ Init => Register!Init
  <2> SUFFICES ASSUME TypeOK, Init PROVE Register!Init
    OBVIOUS
  <2>1. proposed \in SUBSET Projection
    BY ProposedTypes
  <2> QED BY <2>1 DEF Init, Register!Init
<1>2. TypeOK /\ Sound /\ [Next]_vars => [Register!Next]_<<out, durable, proposed>>
  <2> SUFFICES ASSUME TypeOK, Sound, [Next]_vars
               PROVE  Register!Next \/ UNCHANGED <<out, durable, proposed>>
    OBVIOUS
  <2>1. ASSUME UNCHANGED inputs PROVE UNCHANGED proposed
    BY <2>1, InputsStay
  <2>2. CASE EditManifest
    <3>1. Projected(manifest', lock) \in Projection /\ edits' = edits + 1 /\ lock' = lock
          /\ stood' = Append(stood, Projected(manifest', lock))
      BY <2>2, EditManifestTypes, ProjectionTypes DEF EditManifest, TypeOK
    <3>2. proposed \subseteq proposed' /\ proposed' \subseteq Projection
      BY <2>2, <3>1, StoodGrows
    <3> QED BY <2>2, <3>2 DEF EditManifest, Register!Next, Register!Propose
  <2>3. CASE EditLock
    <3>1. Projected(manifest, lock') \in Projection /\ edits' = edits + 1
          /\ stood' = Append(stood, Projected(manifest, lock'))
      BY <2>3, EditLockTypes, ProjectionTypes DEF EditLock, TypeOK
    <3>2. proposed \subseteq proposed' /\ proposed' \subseteq Projection
      BY <2>3, <3>1, StoodGrows
    <3> QED BY <2>3, <3>2 DEF EditLock, Register!Next, Register!Propose
  <2>4. CASE Settle
    BY <2>1, <2>4 DEF Settle, Sound, Register!Next, Register!Settle
  <2>5. CASE PowerCut
    BY <2>1, <2>5 DEF PowerCut, Register!Next, Register!PowerCut
  <2>6. ASSUME NEW p \in Processes, Replace(p)
        PROVE  Register!Next
    <3>1. ProcSound(p) /\ proc[p].pc = "replace" /\ out' = temp[p]
      BY <2>6 DEF Replace, Sound
    <3>2. out' \in proposed
      BY <3>1, LoadedIsProposed DEF ProcSound, Loaded
    <3>3. UNCHANGED <<durable, proposed>>
      BY <2>1, <2>6 DEF Replace
    <3> QED BY <3>2, <3>3 DEF Register!Next, Register!Publish
  <2>7. ASSUME NEW p \in Processes, Advance(p), ~Replace(p)
        PROVE  UNCHANGED <<out, durable, proposed>>
    BY <2>1, <2>7 DEF Advance, Work, Start, LoadLock, MakeTemp, Write, Sync, Unlink, Load,
                      ReadAgain, Fail, FailUnlink, Kill, Abandon
  <2>8. CASE UNCHANGED vars
    BY <2>1, <2>8 DEF vars, inputs
  <2> QED BY <2>2, <2>3, <2>4, <2>5, <2>6, <2>7, <2>8 DEF Next, Advance, Work
<1> QED BY <1>1, <1>2, SoundInvariant, InitTypes, PTL DEF Spec, Refines, Register!Spec

-----------------------------------------------------------------------------
(* The command: no run publishes without a confirmation, the printed advice works
   and the gate follows the flags, for every kind of workflow of the inventory and
   every command line. *)

\* Where a command is, what it has passed: the prompt before the rest, the
\* decision before the dispatch; and an outcome is that of the decision.
Decided ==
  /\ pc # "idle" => ~published /\ outcome = "none"
  /\ pc \in {"auth", "resolve", "dispatch"} => (Confirm(cmd) /\ cmd.tty => answer = "yes")
  /\ pc = "dispatch" => Decision(cmd) = "dispatch"
  /\ outcome \in {"preview", "unconfirmed"} => Decision(cmd) = outcome
  /\ outcome = "executed" => Decision(cmd) = "dispatch"

CommandInv == CommandTypeOK /\ Decided /\ NoUnconfirmedPublish

-----------------------------------------------------------------------------
\* What the proofs need of the inventory: a workflow gated by dry_run is marked as
\* publishing, and one with a gate publishes on dispatch unless a tag starts it.
LEMMA InventoryFacts ==
  ASSUME NEW w \in Inventory, w # NoWorkflow
  PROVE  /\ w.gate \in {"none", "publish", "dry_run"}
         /\ w.gate = "dry_run" => w.danger = "publish"
         /\ w.gate # "none" => w.publishes_on_dispatch \/ w.trigger = "tag"
<1>1. CASE w \in {Kind("tag", "safe", FALSE, "none", FALSE, FALSE),
                  Kind("tag", "publish", FALSE, "none", FALSE, FALSE),
                  Kind("workflow_dispatch", "safe", FALSE, "none", FALSE, FALSE),
                  Kind("workflow_dispatch", "dangerous", TRUE, "none", TRUE, TRUE),
                  Kind("release_published", "dangerous", TRUE, "none", FALSE, FALSE)}
  <2>1. w.gate = "none"
    BY <1>1 DEF Kind
  <2> QED BY <2>1
<1>2. CASE w = Kind("tag", "publish", FALSE, "dry_run", FALSE, FALSE)
  <2>1. w.gate = "dry_run" /\ w.danger = "publish" /\ w.trigger = "tag"
    BY <1>2 DEF Kind
  <2> QED BY <2>1
<1>3. CASE w = Kind("tag", "publish", TRUE, "dry_run", FALSE, FALSE)
  <2>1. w.gate = "dry_run" /\ w.danger = "publish" /\ w.trigger = "tag"
    BY <1>3 DEF Kind
  <2> QED BY <2>1
<1>4. CASE w \in {Kind("tag", "publish", TRUE, "publish", FALSE, FALSE),
                  Kind("tag", "publish", TRUE, "publish", TRUE, FALSE)}
  <2>1. w.gate = "publish" /\ w.trigger = "tag"
    BY <1>4 DEF Kind
  <2> QED BY <2>1
<1>5. CASE w = Kind("workflow_dispatch", "publish", TRUE, "publish", FALSE, FALSE)
  <2>1. w.gate = "publish" /\ w.publishes_on_dispatch = TRUE
    BY <1>5 DEF Kind
  <2> QED BY <2>1
<1>6. CASE w = Kind("release_published", "publish", TRUE, "dry_run", FALSE, FALSE)
  <2>1. w.gate = "dry_run" /\ w.danger = "publish" /\ w.publishes_on_dispatch = TRUE
    BY <1>6 DEF Kind
  <2> QED BY <2>1
<1> QED BY <1>1, <1>2, <1>3, <1>4, <1>5, <1>6 DEF Inventory

\* run_workflow ends in one of six ways.
LEMMA DecisionTyped ==
  ASSUME NEW c
  PROVE  Decision(c) \in {"no button", "tag steps", "input refused", "preview", "unconfirmed", "dispatch"}
  BY Zenon DEF Decision

\* The two decisions agree: what GitHub may publish after a dispatch, the
\* program asked a confirmation for.
LEMMA PublishNeedsConfirm ==
  ASSUME NEW c \in Command, Decision(c) = "dispatch", MayPublish(c)
  PROVE  Confirm(c)
<1> DEFINE w == c.workflow
<1>1. w \in Inventory /\ w # NoWorkflow /\ ~c.dry_run
  BY DEF Command, Decision
<1>2. NeedsConfirm(c) => Confirm(c)
  BY <1>1 DEF Decision
<1>3. w.publishes_on_dispatch
  BY DEF MayPublish
<1>4. CASE w.gate = "none"
  BY <1>1, <1>2, <1>3, <1>4 DEF NeedsConfirm, WillPublish
<1>5. CASE w.gate = "publish"
  <2>1. Gate(c) = "true"
    BY <1>5 DEF MayPublish
  <2>2. WillPublish(c)
    BY <2>1, <1>3, <1>5 DEF WillPublish, SafeValue
  <2> QED BY <2>2, <1>2 DEF NeedsConfirm
<1>6. CASE w.gate = "dry_run"
  BY <1>1, <1>2, <1>6, InventoryFacts DEF NeedsConfirm
<1> QED BY <1>1, <1>4, <1>5, <1>6, InventoryFacts

\* A gate nobody gave is sent as a value of its vocabulary.
LEMMA GateTyped ==
  ASSUME NEW c \in Command
  PROVE  Gate(c) \in GateValue
  BY DEF Gate, SafeValue, Command, GateValue

-----------------------------------------------------------------------------
\* Before the first command nothing was decided and nothing published.
LEMMA CommandInit == InitCommand => CommandInv
  BY DEF InitCommand, CommandInv, CommandTypeOK, Decided, NoUnconfirmedPublish, GateValue, Outcomes

\* One step of the operator, of the command or of gh's session.
LEMMA CommandNext == CommandInv /\ [NextCommand]_commandVars => CommandInv'
<1> SUFFICES ASSUME CommandInv, [NextCommand]_commandVars PROVE CommandInv'
  OBVIOUS
<1> USE DEF CommandInv, CommandTypeOK, Outcomes
<1>1. CASE Type
  BY <1>1 DEF Type, Decided, NoUnconfirmedPublish, GateValue
<1>2. CASE Session
  BY <1>2 DEF Session, Decided, NoUnconfirmedPublish
<1>3. CASE Prompt
  <2>1. ~published /\ outcome = "none" /\ pc = "prompt"
    BY <1>3 DEF Prompt, Decided
  <2>2. CASE Confirm(cmd) /\ cmd.tty
    BY <1>3, <2>1, <2>2 DEF Prompt, End, Decided, NoUnconfirmedPublish
  <2>3. CASE ~(Confirm(cmd) /\ cmd.tty)
    BY <1>3, <2>1, <2>3 DEF Prompt, Decided, NoUnconfirmedPublish
  <2> QED BY <2>2, <2>3
<1>4. CASE RequireAuth
  BY <1>4 DEF RequireAuth, End, Decided, NoUnconfirmedPublish
<1>5. CASE Resolve
  <2>1. pc = "resolve" /\ ~published /\ UNCHANGED <<cmd, answer, auth, published>>
    BY <1>5 DEF Resolve, Decided
  <2>2. gate' \in GateValue
    BY <1>5, GateTyped DEF Resolve, GateValue
  <2>3. CASE Decision(cmd) = "dispatch"
    BY <1>5, <2>1, <2>2, <2>3 DEF Resolve, Decided, NoUnconfirmedPublish
  <2>4. CASE Decision(cmd) # "dispatch"
    <3>1. pc' = "idle" /\ outcome' = Decision(cmd)
      BY <1>5, <2>4 DEF Resolve, End
    <3>2. Decision(cmd) \in Outcomes /\ Decision(cmd) # "executed"
      BY <2>4, DecisionTyped
    <3>3. CommandTypeOK' /\ NoUnconfirmedPublish'
      BY <2>1, <2>2, <3>1, <3>2 DEF NoUnconfirmedPublish
    <3>4. Decision(cmd)' = Decision(cmd)
      BY <2>1 DEF Decision, Valid, NeedsConfirm, WillPublish, Confirm, Gate, SafeValue
    <3>5. Decided'
      BY <2>1, <3>1, <3>2, <3>4 DEF Decided
    <3> QED BY <3>3, <3>5
  <2> QED BY <2>3, <2>4
<1>6. CASE Dispatch
  <2>1. /\ pc = "dispatch" /\ Decision(cmd) = "dispatch"
        /\ UNCHANGED <<cmd, answer, auth, gate>>
        /\ pc' = "idle" /\ outcome' \in {"executed", "failed"}
        /\ published' => MayPublish(cmd)
        /\ published' \in BOOLEAN
    BY <1>6 DEF Dispatch, End, Decided, MayPublish
  <2>2. published' => Confirm(cmd)
    BY <2>1, PublishNeedsConfirm
  <2>3. NoUnconfirmedPublish'
    BY <2>1, <2>2 DEF NoUnconfirmedPublish, Decided, Confirm
  <2> QED BY <2>1, <2>3 DEF Decided
<1>7. CASE UNCHANGED commandVars
  BY <1>7 DEF commandVars, Decided, NoUnconfirmedPublish
<1> QED BY <1>1, <1>2, <1>3, <1>4, <1>5, <1>6, <1>7 DEF NextCommand

\* Every command keeps to its steps and its decision.
THEOREM DecidedInvariant == SpecCommand => []CommandInv
  BY CommandInit, CommandNext, PTL DEF SpecCommand

\* Every variable of the admin run keeps its type (admin.run_workflow).
THEOREM CommandTypeCorrect == SpecCommand => []CommandTypeOK
  BY DecidedInvariant, PTL DEF CommandInv

\* A run that published was confirmed by both flags and, on a terminal, by hand:
\* run_workflow's confirmation covers every spelling GitHub reads as publishing.
THEOREM NoPublishUnconfirmed == SpecCommand => []NoUnconfirmedPublish
  BY DecidedInvariant, PTL DEF CommandInv

\* The command refused for want of confirmation goes through once the two flags
\* of the printed advice are added.
THEOREM AdviceIsSound == SpecCommand => []AdviceWorks
<1>1. CommandInv => AdviceWorks
  <2> SUFFICES ASSUME CommandInv, outcome = "unconfirmed"
               PROVE  Decision([cmd EXCEPT !.publish = TRUE, !.dry_run = FALSE]) = "dispatch"
    BY DEF AdviceWorks
  <2> DEFINE c == [cmd EXCEPT !.publish = TRUE, !.dry_run = FALSE]
  <2>1. cmd \in Command /\ Decision(cmd) = "unconfirmed"
    BY DEF CommandInv, CommandTypeOK, Decided
  <2>2. /\ c.workflow = cmd.workflow /\ c.gate = cmd.gate /\ c.required = cmd.required
        /\ c.other = cmd.other /\ c.undeclared = cmd.undeclared
        /\ c.publish /\ ~c.dry_run
    BY <2>1 DEF Command
  <2>3. Valid(cmd) /\ cmd.workflow # NoWorkflow
        /\ ~(cmd.workflow.trigger = "tag" /\ ~cmd.workflow.publishes_on_dispatch)
    BY <2>1 DEF Decision
  <2>4. Valid(c) /\ Confirm(c)
    BY <2>2, <2>3 DEF Valid, Confirm
  <2> HIDE DEF c
  <2>5. Decision(c) = "dispatch"
    BY <2>2, <2>3, <2>4 DEF Decision
  <2> QED BY <2>5 DEF c
<1> QED BY <1>1, DecidedInvariant, PTL

\* Without a gate of the operator's own, what a dispatch or its preview sends
\* publishes exactly when the flags say so.
THEOREM GateIsTheIntent == SpecCommand => []GateFollowsTheFlags
<1>1. CommandInv => GateFollowsTheFlags
  <2> SUFFICES ASSUME CommandInv, outcome \in {"preview", "executed"},
                      cmd.workflow.gate # "none", cmd.gate = "absent"
               PROVE  MayPublish(cmd) <=> Confirm(cmd)
    BY DEF GateFollowsTheFlags
  <2> DEFINE w == cmd.workflow
  <2>1. cmd \in Command /\ cmd.dry_run \in BOOLEAN /\ cmd.publish \in BOOLEAN /\ w \in Inventory
    BY DEF CommandInv, CommandTypeOK, Command
  <2>2. Decision(cmd) \in {"preview", "dispatch"}
    BY DEF CommandInv, Decided
  <2>3. w # NoWorkflow /\ (w.trigger = "tag" => w.publishes_on_dispatch)
    BY <2>2 DEF Decision
  <2>4. w.gate \in {"publish", "dry_run"} /\ w.publishes_on_dispatch
    BY <2>1, <2>3, InventoryFacts
  <2>5. CASE cmd.dry_run
    <3>1. Gate(cmd) = SafeValue(w.gate, FALSE)
      BY <2>4, <2>5 DEF Gate
    <3>2. ~MayPublish(cmd)
      BY <3>1, <2>4 DEF MayPublish, SafeValue
    <3> QED BY <3>2, <2>5 DEF Confirm
  <2>6. CASE ~cmd.dry_run /\ cmd.publish
    <3>1. Gate(cmd) = SafeValue(w.gate, TRUE)
      BY <2>4, <2>6 DEF Gate
    <3>2. MayPublish(cmd)
      BY <3>1, <2>4 DEF MayPublish, SafeValue
    <3> QED BY <3>2, <2>6 DEF Confirm
  <2>7. CASE ~cmd.dry_run /\ ~cmd.publish
    <3>1. Gate(cmd) = "absent"
      BY <2>4, <2>7 DEF Gate
    <3>2. ~MayPublish(cmd)
      BY <3>1, <2>4 DEF MayPublish
    <3> QED BY <3>2, <2>7 DEF Confirm
  <2> QED BY <2>1, <2>5, <2>6, <2>7
<1> QED BY <1>1, DecidedInvariant, PTL

=============================================================================
