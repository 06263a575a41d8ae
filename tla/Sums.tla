-------------------------------- MODULE Sums --------------------------------
(***************************************************************************)
(* Finite sums over an initial segment 1..n of a function.  The partial     *)
(* sums are a recursive FUNCTION, never a RECURSIVE operator, so that the   *)
(* facts of SumsProofs can be proved about them.                            *)
(***************************************************************************)
EXTENDS Integers

\* PartialSums(f)[n] is f[1] + ... + f[n].
PartialSums(f) ==
  LET s[i \in Nat] == IF i = 0 THEN 0 ELSE s[i - 1] + f[i]
  IN  s

SumTo(f, n) == PartialSums(f)[n]
=============================================================================
