--------------------------- MODULE ReleaseStaging ---------------------------
(***************************************************************************)
(* scripts/release_staging.py: `build` projects the aggregation manifest   *)
(* and lock into data/release-staging.json, `validate` compares the three. *)
(* Several processes run them while maintainers edit the two inputs one at *)
(* a time; any of them may fail, be killed, or lose power.                 *)
(*                                                                         *)
(* A manifest is its number and the components it names, a lock the number *)
(* of the manifest it digests and what it attests of each member.          *)
(***************************************************************************)
EXTENDS Integers, Sequences, FiniteSets

CONSTANTS
  Processes,    \* release_staging.py commands
  Components,   \* component keys
  MaxEdits,     \* bound: edits of the inputs
  MaxFaults     \* bound: failed system calls, kills and power cuts

ASSUME StagingAssumption ==
  /\ MaxEdits \in Nat /\ MaxFaults \in Nat
  /\ IsFiniteSet(Processes) /\ "output" \notin Processes

VARIABLES
  manifest, lock,   \* the two input files
  edits, faults,    \* counters of the bounds; the faults that happened, by kind
  out,              \* data/release-staging.json as a reader finds it
  durable,          \* the same after a power cut
  temp,             \* the temporary file of each process
  synced,           \* files whose content is on the disk: a process's, or the output
  litter,           \* temporary files nobody owns any more
  proc,             \* the command each process runs
  stood             \* observer: the pairs of inputs there have been, one more each edit

vars == <<manifest, lock, edits, faults, out, durable, temp, synced, litter, proc, stood>>
inputs == <<manifest, lock, edits, stood>>

-----------------------------------------------------------------------------
Number   == 0 .. MaxEdits
Manifest == [n : Number, components : (SUBSET Components) \ {{}}]

\* What the lock attests of one member: clean, public and of one version, or not.
Attestation == {"clean", "refused"}
Lock == [of : Number, n : Number, members : UNION {[S -> Attestation] : S \in SUBSET Components}]

Projection == [manifest : Manifest, lock : Lock]
Absent == [kind |-> "absent"]
Torn   == [kind |-> "torn"]
File == Projection \cup {Absent, Torn}

Fault == {"call", "cleanup", "kill", "power"}

\* Slip: the lock's digest of the manifest is not compared.
ProjectableUndigested(m, l) ==
  /\ DOMAIN l.members = m.components
  /\ \A c \in DOMAIN l.members : l.members[c] = "clean"

\* build_projection accepts: the lock digests this manifest, locks exactly its
\* components, and attests each of them public, clean and of one version.
Projectable(m, l) ==
  /\ l.of = m.n
  /\ DOMAIN l.members = m.components
  /\ \A c \in DOMAIN l.members : l.members[c] = "clean"

Projected(m, l) == [manifest |-> m, lock |-> l]

\* The projections of the releases proposed so far.
proposed == {x \in {stood[i] : i \in DOMAIN stood} : Projectable(x.manifest, x.lock)}

\* `since`, an observer, is the number of edits made before the command started.
NoProc == [pc |-> "idle", since |-> 0, manifest |-> [n |-> 0, components |-> Components],
           lock |-> [of |-> 0, n |-> 0, members |-> [c \in Components |-> "clean"]]]

Accepted == [NoProc EXCEPT !.pc = "accepted"]

Pc == {"idle", "build lock", "build temp", "write", "sync", "replace", "unlink",
       "validate lock", "load", "read again", "accepted"}
Proc == [pc : Pc, since : Number, manifest : Manifest, lock : Lock]

Init ==
  /\ manifest = NoProc.manifest
  /\ lock \in {[NoProc.lock EXCEPT !.members[c] = a] : c \in Components, a \in Attestation}
  /\ stood = <<Projected(manifest, lock)>>
  /\ out \in proposed \cup {Absent} /\ durable = out
  /\ edits = 0 /\ faults = [f \in Fault |-> 0] /\ litter = 0
  /\ temp = [p \in Processes |-> Absent]
  /\ synced = {"output"}
  /\ proc = [p \in Processes |-> NoProc]

-----------------------------------------------------------------------------
\* The maintainers edit one input at a time; the lock tool may attest anything.
EditManifest ==
  /\ edits < MaxEdits /\ edits' = edits + 1
  /\ \E S \in (SUBSET Components) \ {{}} : manifest' = [n |-> edits + 1, components |-> S]
  /\ stood' = Append(stood, Projected(manifest', lock))
  /\ UNCHANGED <<lock, faults, out, durable, temp, synced, litter, proc>>

EditLock ==
  /\ edits < MaxEdits /\ edits' = edits + 1
  /\ \E S \in {manifest.components, Components}, c \in Components, a \in Attestation :
       lock' = [of |-> manifest.n, n |-> edits + 1,
                members |-> [x \in S |-> IF x = c THEN a ELSE "clean"]]
  /\ stood' = Append(stood, Projected(manifest, lock'))
  /\ UNCHANGED <<manifest, faults, out, durable, temp, synced, litter, proc>>

-----------------------------------------------------------------------------
Goto(p, from, to) ==
  /\ proc[p].pc = from
  /\ proc' = [proc EXCEPT ![p].pc = to]

Exit(p) == proc' = [proc EXCEPT ![p] = NoProc]

\* load_json(manifest), then load_json(lock): the pair is not read at once, and
\* the command is refused when the two do not fit.
Start(p) ==
  /\ proc[p].pc \in {"idle", "accepted"}
  /\ \E pc \in {"build lock", "validate lock"} :
       proc' = [proc EXCEPT ![p] = [NoProc EXCEPT !.pc = pc, !.since = edits, !.manifest = manifest]]
  /\ UNCHANGED <<inputs, faults, out, durable, temp, synced, litter>>

LoadLock(p) ==
  /\ proc[p].pc \in {"build lock", "validate lock"}
  /\ LET pc == IF proc[p].pc = "build lock" THEN "build temp" ELSE "load"
     IN  IF Projectable(proc[p].manifest, lock)
           THEN proc' = [proc EXCEPT ![p] = [@ EXCEPT !.lock = lock, !.pc = pc]]
           ELSE Exit(p)
  /\ UNCHANGED <<inputs, faults, out, durable, temp, synced, litter>>

\* mkstemp in the directory of the output.
MakeTemp(p) ==
  /\ Goto(p, "build temp", "write")
  /\ temp' = [temp EXCEPT ![p] = Torn]
  /\ UNCHANGED <<inputs, faults, out, durable, synced, litter>>

Write(p) ==
  /\ Goto(p, "write", "sync")
  /\ temp' = [temp EXCEPT ![p] = Projected(proc[p].manifest, proc[p].lock)]
  /\ UNCHANGED <<inputs, faults, out, durable, synced, litter>>

\* Slip: the content is left to the operating system.
SyncNothing(p) ==
  /\ Goto(p, "sync", "replace")
  /\ UNCHANGED <<inputs, faults, out, durable, temp, synced, litter>>

\* flush and fsync: the content is on the disk before the name is.
Sync(p) ==
  /\ Goto(p, "sync", "replace")
  /\ synced' = synced \cup {p}
  /\ UNCHANGED <<inputs, faults, out, durable, temp, litter>>

\* os.replace: the name moves in one step; until the directory is written back
\* a power cut finds the old one.
Replace(p) ==
  /\ proc[p].pc = "replace" /\ Exit(p)
  /\ out' = temp[p]
  /\ temp' = [temp EXCEPT ![p] = Absent]
  /\ synced' = (synced \ {p, "output"}) \cup IF p \in synced THEN {"output"} ELSE {}
  /\ UNCHANGED <<inputs, faults, durable, litter>>

Suffered == faults["call"] + faults["cleanup"] + faults["kill"] + faults["power"]

Suffer(kind) ==
  /\ Suffered < MaxFaults
  /\ faults' = [faults EXCEPT ![kind] = @ + 1]

\* A system call raises: the disk is full, chmod or the rename is refused, or the
\* operator interrupts.  What is left to do is to remove the file.
Fail(p) ==
  /\ Suffer("call")
  /\ proc[p].pc \in {"write", "sync", "replace"}
  /\ proc' = [proc EXCEPT ![p].pc = "unlink"]
  /\ UNCHANGED <<inputs, out, durable, temp, synced, litter>>

\* Slip: the exception leaves at once.
UnlinkNothing(p) ==
  /\ proc[p].pc = "unlink" /\ Exit(p)
  /\ UNCHANGED <<inputs, faults, out, durable, temp, synced, litter>>

Unlink(p) ==
  /\ proc[p].pc = "unlink" /\ Exit(p)
  /\ temp' = [temp EXCEPT ![p] = Absent]
  /\ synced' = synced \ {p}
  /\ UNCHANGED <<inputs, faults, out, durable, litter>>

\* Nobody owns the temporary file of p any more.
Abandon(p) ==
  /\ Exit(p)
  /\ litter' = litter + IF temp[p] # Absent THEN 1 ELSE 0
  /\ temp' = [temp EXCEPT ![p] = Absent]
  /\ synced' = synced \ {p}
  /\ UNCHANGED <<inputs, out, durable>>

\* unlink raises too: only a file that is gone already is passed over.
FailUnlink(p) ==
  /\ proc[p].pc = "unlink"
  /\ Suffer("cleanup") /\ Abandon(p)

-----------------------------------------------------------------------------
\* validate: the file is parsed and compared, then read again and compared as text.
Load(p) ==
  /\ proc[p].pc = "load"
  /\ IF out = Projected(proc[p].manifest, proc[p].lock)
       THEN proc' = [proc EXCEPT ![p].pc = "read again"]
       ELSE Exit(p)
  /\ UNCHANGED <<inputs, faults, out, durable, temp, synced, litter>>

\* Slip: the text is only compared with its own canonical form.
ReadAgainCanonical(p) ==
  /\ proc[p].pc = "read again"
  /\ IF out \in Projection THEN proc' = [proc EXCEPT ![p] = Accepted] ELSE Exit(p)
  /\ UNCHANGED <<inputs, faults, out, durable, temp, synced, litter>>

ReadAgain(p) ==
  /\ proc[p].pc = "read again"
  /\ IF out = Projected(proc[p].manifest, proc[p].lock)
       THEN proc' = [proc EXCEPT ![p] = Accepted]
       ELSE Exit(p)
  /\ UNCHANGED <<inputs, faults, out, durable, temp, synced, litter>>

-----------------------------------------------------------------------------
\* A killed process leaves its temporary file behind.
Kill(p) ==
  /\ proc[p].pc \notin {"idle", "accepted"}
  /\ Suffer("kill") /\ Abandon(p)

\* The directory is written back: the name now leads to what is on the disk.
Settle ==
  /\ durable # out
  /\ durable' = IF "output" \in synced THEN out ELSE Torn
  /\ UNCHANGED <<inputs, faults, out, temp, synced, litter, proc>>

\* Every rename since the directory was last written back is undone.
PowerCut ==
  /\ Suffer("power")
  /\ out' = durable
  /\ litter' = litter + Cardinality({p \in Processes : temp[p] # Absent})
  /\ temp' = [p \in Processes |-> Absent]
  /\ proc' = [p \in Processes |-> NoProc]
  /\ synced' = {"output"}
  /\ UNCHANGED <<inputs, durable>>

Next ==
  \/ EditManifest \/ EditLock \/ Settle \/ PowerCut
  \/ \E p \in Processes :
       \/ Start(p) \/ LoadLock(p)
       \/ MakeTemp(p) \/ Write(p) \/ Sync(p) \/ Replace(p) \/ Fail(p) \/ Unlink(p) \/ FailUnlink(p)
       \/ Load(p) \/ ReadAgain(p)
       \/ Kill(p)

Spec == Init /\ [][Next]_vars

-----------------------------------------------------------------------------
\* Types of every variable.
TypeOK ==
  /\ manifest \in Manifest /\ lock \in Lock
  /\ edits \in Number /\ faults \in [Fault -> Nat] /\ Suffered <= MaxFaults
  /\ out \in File /\ durable \in File
  /\ temp \in [Processes -> File] /\ synced \subseteq Processes \cup {"output"}
  /\ litter \in Nat
  /\ proc \in [Processes -> Proc]
  /\ stood \in Seq(Projection) /\ Len(stood) = edits + 1

\* However the edits of the two inputs fall between the two loads, a published
\* projection describes one release: every member locked for that very manifest,
\* clean, public and of one version.
OutIsOneRelease ==
  out # Absent => /\ out # Torn
                  /\ out.lock.of = out.manifest.n
                  /\ DOMAIN out.lock.members = out.manifest.components
                  /\ \A c \in out.manifest.components : out.lock.members[c] = "clean"

\* What `validate` accepts is the projection of inputs that stood together while it
\* ran, whatever was edited between its reads of the two inputs and whichever older
\* build replaced the file between its reads of that.
AcceptedWasCurrent ==
  [][\A p \in Processes : (proc'[p].pc = "accepted" /\ proc[p].pc # "accepted") =>
       \E e \in proc[p].since .. edits : out = stood[e + 1]]_vars

\* An exception leaves no temporary file unless removing it fails as well: the files
\* nobody owns are at most one for each failed removal and each killed command, and
\* one for each command at a power cut.
TempsAreAccountedFor ==
  /\ \A p \in Processes : temp[p] # Absent => proc[p].pc \in {"write", "sync", "replace", "unlink"}
  /\ litter <= faults["cleanup"] + faults["kill"] + Cardinality(Processes) * faults["power"]

\* The writer implements the register its readers count on.
Register == INSTANCE StagingRegister
              WITH doc <- out, Projections <- Projection
Refines == Register!Spec
=============================================================================
