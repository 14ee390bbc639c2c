-------------------------------- MODULE Sums --------------------------------
(***************************************************************************)
(* Sums, for the properties that say what calls, blocks or rows add up to. *)
(***************************************************************************)
EXTENDS Integers

\* SumOf(a)[n] is a[0] + ... + a[n - 1].
SumOf(a) == LET sum[n \in Nat] == IF n = 0 THEN 0 ELSE sum[n - 1] + a[n - 1]
            IN  sum
=============================================================================
