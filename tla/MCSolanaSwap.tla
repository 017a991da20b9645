---------------------------- MODULE MCSolanaSwap ----------------------------
(* Instances of SolanaSwap for TLC. *)
EXTENDS SolanaSwap, TLC

\* Calls differ only by name, so states that permute them are the same.
Symmetry == Permutations(Calls)
=============================================================================
