---------------------------------- MODULE Sums ----------------------------------
(***************************************************************************)
(* Sums of numbers that stand in a row: PartialSums(w)[n] adds up w[0] to  *)
(* w[n - 1].                                                               *)
(***************************************************************************)
EXTENDS Integers

PartialSums(w) ==
    LET sum[n \in Nat] == IF n = 0 THEN 0 ELSE sum[n - 1] + w[n - 1] IN sum
================================================================================
