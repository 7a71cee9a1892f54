-------------------------- MODULE StagingRegister ---------------------------
(***************************************************************************)
(* What a reader of data/release-staging.json is promised: the file always *)
(* holds one whole projection of a release that really was proposed, and   *)
(* changes in one step.  A power cut takes it back to the content that     *)
(* last reached the disk: it undoes any number of changes, but leaves      *)
(* nothing torn and nothing that readers had not found before.             *)
(***************************************************************************)
EXTENDS Naturals

CONSTANTS Projections,   \* every projection a release could have
          Absent         \* no file, which is none of them

VARIABLES
  doc,        \* what a reader finds
  durable,    \* the last content whose directory entry reached the disk
  proposed    \* projections of the releases proposed so far

Init ==
  /\ proposed \in SUBSET Projections
  /\ doc \in proposed \cup {Absent}
  /\ durable = doc

Propose ==
  /\ proposed \subseteq proposed' /\ proposed' \subseteq Projections
  /\ UNCHANGED <<doc, durable>>

Publish ==
  /\ doc' \in proposed
  /\ UNCHANGED <<durable, proposed>>

\* The directory entry reaches the disk.
Settle ==
  /\ durable' = doc
  /\ UNCHANGED <<doc, proposed>>

\* Every change since is undone.
PowerCut ==
  /\ doc' = durable
  /\ UNCHANGED <<durable, proposed>>

Next == Propose \/ Publish \/ Settle \/ PowerCut

Spec == Init /\ [][Next]_<<doc, durable, proposed>>
=============================================================================
