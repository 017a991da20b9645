--------------------------- MODULE MCEvmExecution ---------------------------
(* Instances of EvmExecution for TLC. *)
EXTENDS EvmExecution, FiniteSets

\* The nonce bound never cuts a behaviour short.
ASSUME MaxNonce >= MaxTransactions * Cardinality(Calls)
=============================================================================
