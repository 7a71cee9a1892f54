----------------------- MODULE NativeCandidateProofs ------------------------
(***************************************************************************)
(* Whatever the order in which a release is recorded, merged and projected, *)
(* for any number of commits: an accepted file tells one story, and no      *)
(* build enables downloads before the receipt of R4 is recorded.            *)
(***************************************************************************)
EXTENDS NativeCandidate, TLAPS

\* The verdict `valid` is about the file as it is now.
Judged == verdict = "valid" => file \notin {Absent, Torn} /\ Valid(file)

IInv == TypeOK /\ Judged

-----------------------------------------------------------------------------
\* validate_projection compares the five places with the status one by one.
LEMMA ValidSaysOneThing ==
  ASSUME NEW p \in Projection, Valid(p)
  PROVE  /\ \A i, j \in 1 .. 5 : Says(p)[i] = Says(p)[j]
         /\ p.status = "go" => p.r4_receipt
<1>1. p.status \in {"go", "no_go"} /\ p.downloads \in BOOLEAN
  BY DEF Projection
<1>2. CASE p.status = "go"
  <2>1. Says(p) = <<TRUE, TRUE, TRUE, TRUE, TRUE>>
    <3>1. /\ p.publication = "published" /\ p.train = "r4_published"
          /\ p.r4 = "published"
      BY <1>2 DEF Valid
    <3>2. p.downloads = TRUE
      BY <1>1, <1>2 DEF Valid
    <3> QED BY <1>2, <3>1, <3>2 DEF Says
  <2>2. p.r4_receipt
    BY <1>2 DEF Valid
  <2> QED BY <2>1, <2>2
<1>3. CASE p.status = "no_go"
  <2>1. Says(p) = <<FALSE, FALSE, FALSE, FALSE, FALSE>>
    <3>1. /\ p.publication = "pending" /\ p.train = "r4_held"
          /\ p.r4 = "held"
      BY <1>3 DEF Valid
    <3>2. p.downloads = FALSE
      BY <1>1, <1>3 DEF Valid
    <3> QED BY <1>3, <3>1, <3>2 DEF Says
  <2> QED BY <2>1, <1>3
<1> QED BY <1>1, <1>2, <1>3

\* build_projection makes a document of the schema.
LEMMA ProjectTyped ==
  ASSUME NEW l \in Ledger
  PROVE  Project(l) \in Projection
  BY DEF Project, Ledger, Projection

\* A merge of two documents of the schema is one.
LEMMA MergeTyped ==
  ASSUME TypeOK, Merge
  PROVE  file' \in Projection
<1>1. file \in Projection /\ Project(ledger) \in Projection
  BY ProjectTyped DEF TypeOK, Merge
<1> DEFINE other == Project(ledger)
<1>2. other \in Projection
  BY <1>1
<1>3. file' \in {[file EXCEPT !.status = other.status, !.publication = other.publication,
                              !.downloads = other.downloads],
                 [file EXCEPT !.train = other.train],
                 [file EXCEPT !.r4 = other.r4, !.r4_receipt = other.r4_receipt]}
  BY DEF Merge
<1> HIDE DEF other
<1> QED BY <1>1, <1>2, <1>3 DEF Projection

\* A commit edits one fact of the ledger.
LEMMA RecordTyped ==
  ASSUME TypeOK, Record
  PROVE  ledger' \in Ledger /\ edits' \in 0 .. MaxEdits
<1>1. edits' \in 0 .. MaxEdits
  <2>1. edits < MaxEdits /\ edits' = edits + 1
    BY Zenon DEF Record
  <2>2. edits \in 0 .. MaxEdits
    BY DEF TypeOK
  <2>3. MaxEdits \in Nat
    BY CandidateAssumption
  <2> QED BY <2>1, <2>2, <2>3
<1>0. ledger \in Ledger
  BY DEF TypeOK
<1>2. ASSUME NEW x \in {"no_go", "go", "other"},
             ledger' = [ledger EXCEPT !.release_state = x]
      PROVE  ledger' \in Ledger
  BY <1>0, <1>2 DEF Ledger
<1>3. ASSUME NEW x \in {"r4_held", "r4_published", "other"},
             ledger' = [ledger EXCEPT !.sequence = x]
      PROVE  ledger' \in Ledger
  BY <1>0, <1>3 DEF Ledger
<1>4. ASSUME NEW x \in {"held", "published", "other"},
             ledger' = [ledger EXCEPT !.r4 = x]
      PROVE  ledger' \in Ledger
  BY <1>0, <1>4 DEF Ledger
<1>5. ASSUME NEW f \in {"r4_receipt", "r123_receipts", "work_items", "sources", "complete"},
             ledger' = [ledger EXCEPT ![f] = ~ @]
      PROVE  ledger' \in Ledger
  <2>1. CASE f = "r4_receipt"
    BY <1>0, <1>5, <2>1 DEF Ledger
  <2>2. CASE f = "r123_receipts"
    BY <1>0, <1>5, <2>2 DEF Ledger
  <2>3. CASE f = "work_items"
    BY <1>0, <1>5, <2>3 DEF Ledger
  <2>4. CASE f = "sources"
    BY <1>0, <1>5, <2>4 DEF Ledger
  <2>5. CASE f = "complete"
    BY <1>0, <1>5, <2>5 DEF Ledger
  <2> QED BY <1>5, <2>1, <2>2, <2>3, <2>4, <2>5
<1>6. ASSUME NEW x \in {"complete", "other"},
             ledger' = [ledger EXCEPT !.governance = x]
      PROVE  ledger' \in Ledger
  BY <1>0, <1>6 DEF Ledger
<1> QED BY <1>1, <1>2, <1>3, <1>4, <1>5, <1>6 DEF Record

-----------------------------------------------------------------------------
\* No file yet, nothing recorded.
LEMMA InitEstablishes == Init => IInv
  BY CandidateAssumption DEF Init, IInv, TypeOK, Judged

\* One commit, one step of a command, a kill or a merge.
LEMMA NextPreserves == IInv /\ [Next]_vars => IInv'
<1> SUFFICES ASSUME IInv, [Next]_vars PROVE IInv'
  OBVIOUS
<1>0. TypeOK /\ Judged
  BY DEF IInv
<1>1. CASE Record
  BY <1>0, <1>1, RecordTyped DEF Record, IInv, TypeOK, Judged
<1>2. CASE Build
  <2>1. Project(ledger) \in Projection
    BY <1>0, ProjectTyped DEF TypeOK
  <2> QED BY <1>0, <1>2, <2>1 DEF Build, IInv, TypeOK, Judged
<1>3. CASE FinishWrite
  BY <1>0, <1>3 DEF FinishWrite, IInv, TypeOK, Judged
<1>4. CASE Kill
  BY <1>0, <1>4 DEF Kill, IInv, TypeOK, Judged
<1>5. CASE Merge
  BY <1>0, <1>5, MergeTyped DEF Merge, IInv, TypeOK, Judged
<1>6. CASE Validate
  BY <1>0, <1>6 DEF Validate, IInv, TypeOK, Judged
<1>7. CASE UNCHANGED vars
  BY <1>0, <1>7 DEF vars, IInv, TypeOK, Judged
<1> QED BY <1>1, <1>2, <1>3, <1>4, <1>5, <1>6, <1>7 DEF Next

\* A file called valid is one that validate_projection accepts as it stands.
THEOREM JudgedInvariant == Spec => []IInv
  BY InitEstablishes, NextPreserves, PTL DEF Spec

\* Every variable of the projector keeps its type.
THEOREM TypeCorrect == Spec => []TypeOK
  BY JudgedInvariant, PTL DEF IInv

\* A file the validator accepts says one thing of the release in its five places.
THEOREM OneStory == Spec => []OneReleaseState
<1>1. IInv => OneReleaseState
  <2> SUFFICES ASSUME IInv, verdict = "valid", file \notin {Absent, Torn}
               PROVE  /\ \A i, j \in 1 .. 5 : Says(file)[i] = Says(file)[j]
                      /\ file.status = "go" => file.r4_receipt
    BY DEF OneReleaseState
  <2>1. file \in Projection /\ Valid(file)
    BY DEF IInv, TypeOK, Judged
  <2> QED BY <2>1, ValidSaysOneThing
<1> QED BY <1>1, JudgedInvariant, PTL

\* build writes enabled downloads only for a ledger that has the promotion, the
\* milestone and its receipt: the final validation covers what the checks of the
\* ledger leave apart.
THEOREM DownloadsNeedReceipts == Spec => GoNeedsTheReceipts
<1>1. [Next]_vars =>
        [(writing = Absent /\ writing' # Absent /\ writing'.downloads) =>
           ledger.release_state = "go" /\ ledger.r4 = "published" /\ ledger.r4_receipt]_vars
  <2> SUFFICES ASSUME Next, writing = Absent, writing' # Absent, writing'.downloads
               PROVE  ledger.release_state = "go" /\ ledger.r4 = "published" /\ ledger.r4_receipt
    BY DEF vars
  <2>1. Build
    BY DEF Next, Record, FinishWrite, Kill, Merge, Validate
  <2>2. Accepted(ledger) /\ writing' = Project(ledger)
    BY <2>1 DEF Build
  <2>3. ledger.release_state = "go"
    BY <2>2 DEF Project
  <2>4. Project(ledger).status = "go" /\ Valid(Project(ledger)) /\ Project(ledger).r4 = ledger.r4
    BY <2>2, <2>3 DEF Project, Accepted
  <2>5. ledger.r4 = "published"
    BY <2>4 DEF Valid
  <2>6. ledger.r4_receipt
    BY <2>2, <2>5 DEF Accepted, TrainReadable
  <2> QED BY <2>3, <2>5, <2>6
<1> QED BY <1>1, PTL DEF Spec, GoNeedsTheReceipts

=============================================================================
