---------------------------- MODULE SwapOutcome ----------------------------
(***************************************************************************)
(* What a swap call promises its caller, on every chain (SwapResult and    *)
(* SwapError in evm/types.rs, SwapResult in solana/types.rs), whatever the *)
(* signers, the submitter, the node and the chain do: the transactions of  *)
(* the prepared swap are announced in order, each at most once and only    *)
(* when all before it have landed; success is reported only when the whole *)
(* swap has landed; and after a verdict nothing more is announced, though  *)
(* the transaction announced last may still land.                          *)
(***************************************************************************)
EXTENDS Naturals

CONSTANTS Calls, MaxTransactions

VARIABLES
  size,       \* per call: number of transactions of the prepared swap
  announced,  \* per call: how many of them were signed to be sent
  landed,     \* per call: indices of those mined with success
  verdict     \* per call: "none", then "ok" or "unconfirmed"

vars == <<size, announced, landed, verdict>>

Init ==
  /\ size \in [Calls -> 1..MaxTransactions]
  /\ announced = [c \in Calls |-> 0]
  /\ landed = [c \in Calls |-> {}]
  /\ verdict = [c \in Calls |-> "none"]

\* The next transaction is signed to be sent.
Announce(c) ==
  /\ verdict[c] = "none"
  /\ announced[c] < size[c]
  /\ landed[c] = 1..announced[c]
  /\ announced' = [announced EXCEPT ![c] = @ + 1]
  /\ UNCHANGED <<size, landed, verdict>>

\* An announced transaction is mined, before or after the verdict.
Land(c) ==
  /\ \E i \in (1..announced[c]) \ landed[c] :
       landed' = [landed EXCEPT ![c] = @ \cup {i}]
  /\ UNCHANGED <<size, announced, verdict>>

Succeed(c) ==
  /\ verdict[c] = "none"
  /\ landed[c] = 1..size[c]
  /\ verdict' = [verdict EXCEPT ![c] = "ok"]
  /\ UNCHANGED <<size, announced, landed>>

\* An error, or a status that is not success: it says nothing about the
\* transaction announced last.
EndUnconfirmed(c) ==
  /\ verdict[c] = "none"
  /\ verdict' = [verdict EXCEPT ![c] = "unconfirmed"]
  /\ UNCHANGED <<size, announced, landed>>

Next ==
  \E c \in Calls : Announce(c) \/ Land(c) \/ Succeed(c) \/ EndUnconfirmed(c)

Spec == Init /\ [][Next]_vars
=============================================================================
