----------------------------- MODULE DatedFacts ------------------------------
(***************************************************************************)
(* What the dashboard promises of the counters it shows: the numbers of a  *)
(* fact (visits, search figures, runtime errors, the downloads of a        *)
(* target) were all read by one collect, the date shown beside them is     *)
(* that collect's, and a refresh keeps them with their date, drops them,   *)
(* or replaces them by numbers of its own, newer than anything shown.  A   *)
(* file that is lost shows nothing.                                        *)
(***************************************************************************)
EXTENDS Integers

CONSTANTS
  Facts,     \* what has numbers
  Numbers,   \* the numbers a fact may have
  Stamps,    \* the dates of collects
  NoDate     \* beside no numbers

VARIABLE shown   \* each fact's numbers and the date beside them

Blank == [at |-> NoDate, numbers |-> {}]
Dated == [at : Stamps, numbers : (SUBSET Numbers) \ {{}}]

\* Any snapshot an earlier version left.
Init == \A f \in Facts : shown[f] \in Dated \cup {Blank}

\* A collect of date `at`, later than every date shown.
Refresh(at) ==
  /\ \A f \in Facts : shown[f] # Blank => shown[f].at < at
  /\ \A f \in Facts :
       \/ shown'[f] = shown[f]
       \/ shown'[f] = Blank
       \/ shown'[f] \in Dated /\ shown'[f].at = at

Lose == \A f \in Facts : shown'[f] = Blank

Next == Lose \/ \E at \in Stamps : Refresh(at)

Spec == Init /\ [][Next]_shown

=============================================================================
