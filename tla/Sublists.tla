------------------------------ MODULE Sublists ------------------------------
(***************************************************************************)
(* A list without some of its elements: what the source does with          *)
(* retain, filter and a set of those already seen.  The elements that stay *)
(* are named by their positions, so that what is proved of them needs no   *)
(* recursion.                                                              *)
(***************************************************************************)
EXTENDS Integers, FiniteSets

\* How many of the positions in I are p or before it.
Rank(I, p) == Cardinality({q \in I : q <= p})

\* The elements of the list s at the positions in I, in their order.
Kept(s, I) ==
  [j \in 1..Cardinality(I) |-> s[CHOOSE p \in I : Rank(I, p) = j]]
=============================================================================
