------------------------ MODULE MCTransactionLayout ------------------------
(* Instances of TransactionLayout for TLC. *)
EXTENDS TransactionLayout

Swap == Ix("Swap", 0, {"wallet"})

\* What can surround a swap: budget requests of both sizes, account creations
\* of either payer, the user's SOL, signers that are not asked for.
Extras ==
  {Ix("CuLimit", 5, {}), Ix("CuLimit", 21, {}), Ix("CuPrice", 1, {}),
   Ix("Heap", 3, {}), Ix("Loaded", 4, {}), Ix("BadBudget", 0, {}),
   Ix("Ata", 1, {"wallet"}), Ix("Ata", 1, {"sponsor"}), Ix("BadAta", 1, {"wallet"}),
   Ix("Transfer", 2, {"wallet"}), Ix("Transfer", 0, {"wallet"}),
   Ix("Cleanup", 0, {"wallet"}), Ix("Cleanup", 0, {"stranger"})}

Lists == {<<>>, <<Swap>>} \cup {<<e>> : e \in Extras}
         \cup {<<e, Swap>> : e \in Extras} \cup {<<Swap, e>> : e \in Extras}
         \cup {<<d, Swap, e>> : d, e \in Extras}

NoConfig == [limit |-> 0, loaded |-> 0, heap |-> 0, priority |-> 0]
ConfigSet ==
  {NoConfig, [NoConfig EXCEPT !.limit = 15], [NoConfig EXCEPT !.limit = 21],
   [NoConfig EXCEPT !.loaded = 4, !.heap = 3], [NoConfig EXCEPT !.priority = 1]}
SimulatedUnits == {-1, 0, 7, 20}
=============================================================================
