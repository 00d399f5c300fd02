------------------------------- MODULE Numbers -------------------------------
(***************************************************************************)
(* The numbers of the engine: integers, with NaN beside them and Inf above *)
(* them.                                                                   *)
(***************************************************************************)
EXTENDS Integers, Sequences, SequencesExt, FiniteSetsExt, Sums

CONSTANTS
  NaN,   \* not a number
  Inf    \* bound: a number no sum or quotient of the instance reaches

ASSUME NumbersAssumption == NaN \notin Int /\ Inf \in Nat \ {0}

Known(x) == x # NaN

\* A numpy operation on numbers: NaN if one of them is.
Both(x, y, value) == IF Known(x) /\ Known(y) THEN value ELSE NaN
=============================================================================
