----------------------------- MODULE MCMatcher -----------------------------
(***************************************************************************)
(* Matcher for TLC: the owners of orders are interchangeable.               *)
(***************************************************************************)
EXTENDS Matcher, TLC

Owners == Permutations(Pids)
=============================================================================
