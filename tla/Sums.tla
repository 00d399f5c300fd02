-------------------------------- MODULE Sums --------------------------------
(***************************************************************************)
(* What the numbers of a sequence come to.                                 *)
(***************************************************************************)
EXTENDS Integers, Sequences

Total(numbers) ==
  LET sum[i \in 0..Len(numbers)] == IF i = 0 THEN 0 ELSE sum[i - 1] + numbers[i]
  IN  sum[Len(numbers)]
=============================================================================
