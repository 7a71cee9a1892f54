-------------------------- MODULE NativeCandidate ---------------------------
(***************************************************************************)
(* scripts/native_candidate_staging.py: the public projection of the       *)
(* migration ledger.  Maintainers record the release of the V1 train in    *)
(* the ledger one fact at a time; `build` projects the ledger of one       *)
(* commit and writes the file in place, `validate` judges a file that may  *)
(* have been rebuilt, merged from two branches or torn since.              *)
(*                                                                         *)
(* A ledger keeps the facts that say how far the release is; the others    *)
(* (versions, hashes, sizes, capabilities) are one `complete`.             *)
(***************************************************************************)
EXTENDS Integers

CONSTANT
  MaxEdits    \* bound: commits to the ledger

ASSUME CandidateAssumption == MaxEdits \in Nat

VARIABLES
  ledger,     \* the ledger at the governance commit given to build
  edits,      \* commits to the ledger so far
  file,       \* data/native-candidate-staging.json
  writing,    \* the projection a build is writing, or nothing
  verdict     \* what the last command said of the file
vars == <<ledger, edits, file, writing, verdict>>

-----------------------------------------------------------------------------
\* promotion, publication and gate status are compared together: no_go, go, or
\* a combination the projector does not know.
Ledger == [release_state : {"no_go", "go", "other"},
           sequence : {"r4_held", "r4_published", "other"},
           r4 : {"held", "published", "other"}, r4_receipt : BOOLEAN,
           r123_receipts : BOOLEAN, work_items : BOOLEAN,
           governance : {"complete", "other"}, sources : BOOLEAN, complete : BOOLEAN]

Projection == [status : {"go", "no_go"}, publication : {"published", "pending"}, downloads : BOOLEAN,
               train : {"r4_held", "r4_published"},
               r4 : {"held", "published", "other"}, r4_receipt : BOOLEAN,
               r123_receipts : BOOLEAN, work_items : BOOLEAN,
               governance : {"complete", "other"}, complete : BOOLEAN]

Absent == [kind |-> "absent"]
Torn   == [kind |-> "torn"]

Init ==
  /\ ledger \in {l \in Ledger : l.release_state = "no_go" /\ l.r4 = "held" /\ l.sequence = "r4_held"
                                /\ l.r123_receipts /\ l.work_items /\ l.sources /\ l.complete
                                /\ ~l.r4_receipt /\ l.governance = "complete"}
  /\ edits = 0 /\ file = Absent /\ writing = Absent /\ verdict = "none"

-----------------------------------------------------------------------------
\* The ledger is edited by hand, one fact per commit and in any order.
Record ==
  /\ edits < MaxEdits /\ edits' = edits + 1
  /\ \/ \E x \in {"no_go", "go", "other"} : ledger' = [ledger EXCEPT !.release_state = x]
     \/ \E x \in {"r4_held", "r4_published", "other"} : ledger' = [ledger EXCEPT !.sequence = x]
     \/ \E x \in {"held", "published", "other"} : ledger' = [ledger EXCEPT !.r4 = x]
     \/ \E f \in {"r4_receipt", "r123_receipts", "work_items", "sources", "complete"} :
          ledger' = [ledger EXCEPT ![f] = ~ @]
     \/ \E x \in {"complete", "other"} : ledger' = [ledger EXCEPT !.governance = x]
  /\ UNCHANGED <<file, writing, verdict>>

\* The checks of build_projection on the ledger and on the sources it names:
\* the versions at the exact commits, the UI's consumers, every identity.
Readable(l) == l.release_state # "other" /\ l.sources /\ l.complete /\ l.work_items

\* _project_release_train accepts.
TrainReadable(l) ==
  /\ l.sequence # "other" /\ l.r123_receipts
  /\ l.r4 # "other"
  /\ l.r4 = "published" => l.r4_receipt

\* The document build makes of an accepted ledger.  The status follows the
\* ledger's promotion, the train its r4 milestone.
Project(l) ==
  [status |-> IF l.release_state = "go" THEN "go" ELSE "no_go",
   publication |-> IF l.release_state = "go" THEN "published" ELSE "pending",
   downloads |-> l.release_state = "go",
   train |-> IF l.r4 = "published" THEN "r4_published" ELSE "r4_held",
   r4 |-> l.r4, r4_receipt |-> l.r4 = "published" /\ l.r4_receipt,
   r123_receipts |-> TRUE, work_items |-> TRUE,
   governance |-> l.governance, complete |-> TRUE]

\* Slip: the status of the r4 milestone is not compared with the release's.
ValidAnyR4(p) ==
  LET final == p.status = "go"
  IN  /\ p.publication = IF final THEN "published" ELSE "pending"
      /\ p.downloads = final
      /\ p.train = IF final THEN "r4_published" ELSE "r4_held"
      /\ p.r123_receipts
      /\ final => p.r4_receipt
      /\ p.governance = "complete" /\ p.work_items /\ p.complete

\* validate_projection: one release state everywhere.
Valid(p) ==
  LET final == p.status = "go"
  IN  /\ p.publication = IF final THEN "published" ELSE "pending"
      /\ p.downloads = final
      /\ p.train = IF final THEN "r4_published" ELSE "r4_held"
      /\ p.r123_receipts
      /\ p.r4 = IF final THEN "published" ELSE "held"
      /\ final => p.r4_receipt
      /\ p.governance = "complete" /\ p.work_items /\ p.complete

\* Slip: the document is not validated before it is written.
AcceptedUnchecked(l) == Readable(l) /\ TrainReadable(l)

Accepted(l) == Readable(l) /\ TrainReadable(l) /\ Valid(Project(l))

\* A refused build leaves the file alone; otherwise opening it truncates it.
Build ==
  /\ writing = Absent
  /\ IF Accepted(ledger)
       THEN file' = Torn /\ writing' = Project(ledger) /\ verdict' = "none"
       ELSE verdict' = "build refused" /\ UNCHANGED <<file, writing>>
  /\ UNCHANGED <<ledger, edits>>

FinishWrite ==
  /\ writing # Absent
  /\ file' = writing /\ writing' = Absent /\ verdict' = "built"
  /\ UNCHANGED <<ledger, edits>>

Kill ==
  /\ writing # Absent
  /\ writing' = Absent /\ verdict' = "none"
  /\ UNCHANGED <<ledger, edits, file>>

\* A merge of two branches takes the release block of one and the rest of the
\* other: here of what the ledger would give today and the file as it stands.
Merge ==
  /\ writing = Absent /\ file \notin {Absent, Torn} /\ Accepted(ledger)
  /\ LET other == Project(ledger)
     IN  file' \in {[file EXCEPT !.status = other.status, !.publication = other.publication,
                                 !.downloads = other.downloads],
                    [file EXCEPT !.train = other.train],
                    [file EXCEPT !.r4 = other.r4, !.r4_receipt = other.r4_receipt]}
  /\ verdict' = "none"
  /\ UNCHANGED <<ledger, edits, writing>>

\* The file is parsed and judged, then compared with its canonical text.
Validate ==
  /\ verdict' = IF file \notin {Absent, Torn} /\ Valid(file) THEN "valid" ELSE "refused"
  /\ UNCHANGED <<ledger, edits, file, writing>>

Next == Record \/ Build \/ FinishWrite \/ Kill \/ Merge \/ Validate

Spec == Init /\ [][Next]_vars

-----------------------------------------------------------------------------
\* Types of every variable.
TypeOK ==
  /\ ledger \in Ledger /\ edits \in 0 .. MaxEdits
  /\ file \in Projection \cup {Absent, Torn} /\ writing \in Projection \cup {Absent}
  /\ verdict \in {"none", "built", "build refused", "valid", "refused"}

Says(p) == <<p.status = "go", p.publication = "published", p.downloads,
             p.train = "r4_published", p.r4 = "published">>

\* In whatever order the release was recorded, and whatever was merged, a file
\* the validator accepts says one thing of the release in its five places, and
\* says it is out only with the receipt of R4.
OneReleaseState ==
  verdict = "valid" /\ file \notin {Absent, Torn} =>
    /\ \A i, j \in 1 .. 5 : Says(file)[i] = Says(file)[j]
    /\ file.status = "go" => file.r4_receipt

\* A build never enables downloads for a ledger that is half edited: the gate,
\* the milestone and its receipt must all be recorded at that commit.
GoNeedsTheReceipts ==
  [][(writing = Absent /\ writing' # Absent /\ writing'.downloads) =>
       ledger.release_state = "go" /\ ledger.r4 = "published" /\ ledger.r4_receipt]_vars

=============================================================================
