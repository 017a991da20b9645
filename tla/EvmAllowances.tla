--------------------------- MODULE EvmAllowances ---------------------------
(***************************************************************************)
(* The token allowances and the ether of a wallet that swaps on an EVM     *)
(* chain: which transactions a Relay response or a Uniswap route is turned *)
(* into (evm/sources/relay/transactions.rs, evm/dexes/uniswap/router.rs)   *)
(* and what they let the contracts take, for calls that overlap, fail on   *)
(* the way and time out.                                                   *)
(*                                                                         *)
(* One token is sold.  Execution is that of EvmExecution without nonces    *)
(* and quote ages: a transaction of a call that gave up may still land.    *)
(* Relay's calldata is opaque, so its contracts take whatever they may.    *)
(***************************************************************************)
EXTENDS Integers, Sequences, Functions

CONSTANTS
  Calls,
  Trades,      \* trades a caller may ask for
  Responses,   \* steps Relay may answer with
  Leftovers    \* allowances there may be from before

\* CswapRouter, Relay's ROUTER and its APPROVAL_PROXY.
Spenders == {"cswap", "router", "proxy"}
Relays   == {"router", "proxy"}

Trade == [source : {"Relay", "Uniswap"}, input : {"native", "token"},
          amount : Nat \ {0}]

\* sane: chain, sender, target, calldata and gas prices decode.  spender: of
\* approve calldata, or "none".
ApiTransaction == [sane : BOOLEAN, to : Relays \cup {"token", "stranger"},
                   spender : Relays \cup {"none", "stranger"},
                   allowance : Nat, value : Nat]
Item == [status : {"complete", "incomplete", "pending"}, data : ApiTransaction]
Step == [id : {"approve", "swap", "deposit"}, items : Seq(Item)]

ASSUME ConstantsAssumption ==
  /\ Trades \subseteq Trade
  /\ Responses \subseteq Seq(Step)
  /\ Leftovers \subseteq [Spenders -> Nat]

VARIABLES
  trade,      \* of each call, chosen initially
  response,   \* Relay's answer to each call, chosen initially
  pc,         \* where each call is
  plan,       \* the prepared transactions of each call
  sent,       \* how many of them it has submitted
  pending,    \* transactions that may be mined, as <<call, index>>
  succeeded,  \* those mined with success
  reverted,   \* those mined without
  before,     \* the allowances from before, chosen initially
  allowance,  \* of each spender
  taken,      \* tokens each spender has taken
  paid,       \* ether sent by each call's transactions
  overlapped  \* has a call started while another ran or was in doubt?

vars == <<trade, response, pc, plan, sent, pending, succeeded, reverted,
          before, allowance, taken, paid, overlapped>>
chainVars == <<succeeded, reverted, before, allowance, taken, paid>>

Approval(spender, amount) ==
  [kind |-> "approve", to |-> spender, amount |-> amount, value |-> 0]
SwapTx(to, value) == [kind |-> "swap", to |-> to, amount |-> 0, value |-> value]

Transaction == [kind : {"approve", "swap"}, to : Spenders, amount : Nat,
                value : Nat]

\* Every <<call, index>> there is.
Ids == {<<c, i>> : c \in Calls, i \in 1..3}

TypeOK ==
  /\ trade \in [Calls -> Trades]
  /\ response \in [Calls -> Responses]
  /\ pc \in [Calls -> {"idle", "ready", "wait", "ok", "error"}]
  /\ plan \in [Calls -> Seq(Transaction)]
  /\ sent \in [Calls -> Nat]
  /\ \A c \in Calls : Len(plan[c]) <= 3 /\ sent[c] <= Len(plan[c])
  /\ pending \subseteq Ids /\ succeeded \subseteq Ids /\ reverted \subseteq Ids
  /\ before \in Leftovers
  /\ allowance \in [Spenders -> Nat]
  /\ taken \in [Spenders -> Nat]
  /\ paid \in [Calls -> Nat]
  /\ overlapped \in BOOLEAN

-----------------------------------------------------------------------------
(* A Relay response. *)

\* Mutant: the value of the swap is the provider's affair.
SwapValidAnyValue(t, data) == data.to \in Relays

\* validate_swap: Relay's own contracts, and ether for a native input only.
SwapValid(t, data) ==
  /\ data.to \in Relays
  /\ data.value = IF t.input = "native" THEN t.amount ELSE 0

\* validate_approval: the input token is approved for Relay's contracts, to
\* zero or to no less than the trade needs.
ApprovalValid(t, data) ==
  /\ t.input # "native"
  /\ data.to = "token" /\ data.value = 0
  /\ data.spender \in Relays
  /\ data.allowance = 0 \/ data.allowance >= t.amount

\* One approval step of one or two items at most, then one swap.
StepAccepted(t, steps, i) ==
  LET swap  == i = Len(steps)
      items == steps[i].items
  IN  /\ steps[i].id = IF swap THEN "swap" ELSE "approve"
      /\ Len(items) \in IF swap THEN {1} ELSE {1, 2}
      /\ \A k \in DOMAIN items :
           \/ ~swap /\ items[k].status = "complete"
           \/ /\ items[k].status = "incomplete" /\ items[k].data.sane
              /\ IF swap THEN SwapValid(t, items[k].data)
                         ELSE ApprovalValid(t, items[k].data)

RelayAccepts(t, steps) ==
  Len(steps) \in {1, 2} /\ \A i \in DOMAIN steps : StepAccepted(t, steps, i)

\* Mutant: the provider's allowance is signed as it is.
BoundedUnlimited(t, data) == Approval(data.spender, data.allowance)

\* An allowance is cut to what the trade needs; a reset to zero stays one.
Bounded(t, data) ==
  Approval(data.spender, IF data.allowance = 0 THEN 0 ELSE t.amount)

\* decode: what is done already is left out.
Todo(t, item) ==
  IF item.status = "complete" THEN <<>> ELSE <<Bounded(t, item.data)>>

RelayApprovals(t, items) ==
  Todo(t, items[1]) \o (IF Len(items) = 2 THEN Todo(t, items[2]) ELSE <<>>)

RelayPlan(t, steps) ==
  LET swap == steps[Len(steps)].items[1].data
  IN  (IF Len(steps) = 1 THEN <<>> ELSE RelayApprovals(t, steps[1].items))
      \o <<SwapTx(swap.to, swap.value)>>

-----------------------------------------------------------------------------
(* A Uniswap route. *)

\* Mutant: the router is approved only when it has no allowance at all.
ShortWhenZero(t) == allowance["cswap"] = 0
Short(t) == allowance["cswap"] < t.amount

\* A buy carries its ether; a sale approves the router first if it must.
UniswapPlan(t) ==
  IF t.input = "native" THEN <<SwapTx("cswap", t.amount)>>
  ELSE (IF Short(t) THEN <<Approval("cswap", t.amount)>> ELSE <<>>)
       \o <<SwapTx("cswap", 0)>>

-----------------------------------------------------------------------------
(* The calls. *)

Quiet(c) == pending = {} /\ \A d \in Calls \ {c} : pc[d] \notin {"ready", "wait"}

\* prepare_swap, with the allowance of that moment.
Prepare(c) ==
  /\ pc[c] = "idle"
  /\ overlapped' = (overlapped \/ ~Quiet(c))
  /\ \/ /\ trade[c].source = "Uniswap"
        /\ plan' = [plan EXCEPT ![c] = UniswapPlan(trade[c])]
        /\ pc' = [pc EXCEPT ![c] = "ready"]
     \/ /\ trade[c].source = "Relay" /\ RelayAccepts(trade[c], response[c])
        /\ plan' = [plan EXCEPT ![c] = RelayPlan(trade[c], response[c])]
        /\ pc' = [pc EXCEPT ![c] = "ready"]
     \/ /\ trade[c].source = "Relay" => ~RelayAccepts(trade[c], response[c])
        /\ pc' = [pc EXCEPT ![c] = "error"]
        /\ UNCHANGED plan
  /\ UNCHANGED <<trade, response, sent, pending, chainVars>>

\* Mutant: all transactions are sent, and waited for, at once.
SubmitAll(c) ==
  /\ pc[c] = "ready"
  /\ pending' = pending \cup {<<c, i>> : i \in DOMAIN plan[c]}
  /\ sent' = [sent EXCEPT ![c] = Len(plan[c])]
  /\ pc' = [pc EXCEPT ![c] = "wait"]
  /\ UNCHANGED <<trade, response, plan, chainVars, overlapped>>

\* execute_transactions: the next transaction is filled, signed and submitted.
Submit(c) ==
  /\ pc[c] = "ready" /\ sent[c] < Len(plan[c])
  /\ pending' = pending \cup {<<c, sent[c] + 1>>}
  /\ sent' = [sent EXCEPT ![c] = @ + 1]
  /\ pc' = [pc EXCEPT ![c] = "wait"]
  /\ UNCHANGED <<trade, response, plan, chainVars, overlapped>>

\* The quote expires, or a node, signer or submitter fails.  The transaction
\* that could not be submitted may have been broadcast all the same.
Fails(c) ==
  /\ pc[c] = "ready" /\ sent[c] < Len(plan[c])
  /\ pc' = [pc EXCEPT ![c] = "error"]
  /\ \/ UNCHANGED <<sent, pending>>
     \/ /\ pending' = pending \cup {<<c, sent[c] + 1>>}
        /\ sent' = [sent EXCEPT ![c] = @ + 1]
  /\ UNCHANGED <<trade, response, plan, chainVars, overlapped>>

\* The receipt: on to the next transaction, or the end.
Confirm(c) ==
  /\ pc[c] = "wait"
  /\ \/ /\ <<c, sent[c]>> \in succeeded
        /\ pc' = [pc EXCEPT ![c] = IF sent[c] = Len(plan[c]) THEN "ok" ELSE "ready"]
     \/ /\ <<c, sent[c]>> \in reverted
        /\ pc' = [pc EXCEPT ![c] = "error"]
  /\ UNCHANGED <<trade, response, plan, sent, pending, chainVars, overlapped>>

\* No receipt in time.
TimesOut(c) ==
  /\ pc[c] = "wait"
  /\ pc' = [pc EXCEPT ![c] = "error"]
  /\ UNCHANGED <<trade, response, plan, sent, pending, chainVars, overlapped>>

-----------------------------------------------------------------------------
(* The chain. *)

Tx(id) == plan[id[1]][id[2]]

\* Out of the pool, with the outcome and the ether of the transaction.
Mined(id, ok) ==
  /\ id \in pending
  /\ pending' = pending \ {id}
  /\ IF ok THEN succeeded' = succeeded \cup {id} /\ UNCHANGED reverted
           ELSE reverted' = reverted \cup {id} /\ UNCHANGED succeeded
  /\ paid' = [paid EXCEPT ![id[1]] = @ + (IF ok THEN Tx(id).value ELSE 0)]
  /\ UNCHANGED <<trade, response, pc, plan, sent, before, overlapped>>

MineApproval(id) ==
  /\ Mined(id, TRUE)
  /\ Tx(id).kind = "approve"
  /\ allowance' = [allowance EXCEPT ![Tx(id).to] = Tx(id).amount]
  /\ UNCHANGED taken

\* A spender takes n tokens.
Pull(s, n) ==
  /\ allowance' = [allowance EXCEPT ![s] = @ - n]
  /\ taken' = [taken EXCEPT ![s] = @ + n]

\* CswapRouter pulls the amount of a sale.
MineUniswap(id) ==
  /\ Tx(id).kind = "swap" /\ Tx(id).to = "cswap"
  /\ LET t    == trade[id[1]]
         need == IF t.input = "native" THEN 0 ELSE t.amount
     IN  allowance["cswap"] >= need /\ Pull("cswap", need)
  /\ Mined(id, TRUE)

MineRelay(id) ==
  /\ Tx(id).kind = "swap" /\ Tx(id).to \in Relays
  /\ Mined(id, TRUE)
  /\ \E s \in Relays : \E n \in 0..allowance[s] : Pull(s, n)

\* Any transaction may revert, for the price or for want of allowance.
MineReverts(id) ==
  /\ Mined(id, FALSE)
  /\ UNCHANGED <<allowance, taken>>

Init ==
  /\ trade \in [Calls -> Trades]
  /\ response \in [Calls -> Responses]
  /\ \A c \in Calls :
       trade[c].source = "Uniswap" => response[c] = CHOOSE r \in Responses : TRUE
  /\ pc = [c \in Calls |-> "idle"]
  /\ plan = [c \in Calls |-> <<>>]
  /\ sent = [c \in Calls |-> 0]
  /\ pending = {} /\ succeeded = {} /\ reverted = {}
  /\ before \in Leftovers
  /\ allowance = before
  /\ taken = [s \in Spenders |-> 0]
  /\ paid = [c \in Calls |-> 0]
  /\ overlapped = FALSE

Next ==
  \/ \E c \in Calls :
       Prepare(c) \/ Submit(c) \/ Fails(c) \/ Confirm(c) \/ TimesOut(c)
  \/ \E id \in pending :
       MineApproval(id) \/ MineUniswap(id) \/ MineRelay(id) \/ MineReverts(id)

Spec == Init /\ [][Next]_vars

-----------------------------------------------------------------------------
(* Properties. *)

\* No spender is left with more than the largest trade, or than it had: the
\* README's "caps new allowances at the trade amount", however calls overlap.
AllowanceBounded ==
  \A s \in Spenders :
    \/ allowance[s] <= before[s]
    \/ \E c \in Calls : allowance[s] <= trade[c].amount

\* What the trade of each transaction is worth.
Amounts == [id \in Ids |-> trade[id[1]].amount]

\* The approvals of a spender that were mined.
Approvals(s) == {id \in succeeded : Tx(id).kind = "approve" /\ Tx(id).to = s}

\* All a spender has taken and may still take is covered by the allowances from
\* before and one trade's amount for each approval that was mined.
TakenWithinApprovals ==
  \A s \in Spenders :
    taken[s] + allowance[s]
      <= before[s] + SumFunctionOnSet(Amounts, Approvals(s))

\* A call pays its amount in ether for a native input, and no ether otherwise,
\* however often and however late its transactions land.
EtherWithinTrade ==
  \A c \in Calls :
    paid[c] <= IF trade[c].input = "native" THEN trade[c].amount ELSE 0

\* What a wallet gives away to contracts, now or later, is covered by the
\* trades its caller asked for.
WithinTrades == AllowanceBounded /\ TakenWithinApprovals /\ EtherWithinTrade

\* The transactions of a call land in order: a swap never before the approvals
\* it follows, even when the call has given up.
ApprovedFirst ==
  \A id \in succeeded \cup reverted \cup pending :
    \A i \in 1..id[2] - 1 : <<id[1], i>> \in succeeded

\* As long as each call started when no other ran and nothing was in doubt, a
\* sale through CswapRouter finds the allowance its call planned for.
SalesCovered ==
  ~overlapped =>
    \A id \in pending :
      Tx(id).kind = "swap" /\ Tx(id).to = "cswap" /\ trade[id[1]].input = "token"
        => allowance["cswap"] >= trade[id[1]].amount
=============================================================================
