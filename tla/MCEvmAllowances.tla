-------------------------- MODULE MCEvmAllowances --------------------------
(* Instances of EvmAllowances for TLC. *)
EXTENDS EvmAllowances

Unlimited == 9

Approve(spender, amount) ==
  [sane |-> TRUE, to |-> "token", spender |-> spender, allowance |-> amount,
   value |-> 0]
SwapData(to, value) ==
  [sane |-> TRUE, to |-> to, spender |-> "none", allowance |-> 0, value |-> value]

Open(data) == [status |-> "incomplete", data |-> data]
Done(data) == [status |-> "complete", data |-> data]

ApproveStep(items) == [id |-> "approve", items |-> items]
SwapStep(data) == [id |-> "swap", items |-> <<Open(data)>>]

Swaps == {SwapStep(SwapData("router", v)) : v \in {0, 2, 3}}
SaleSwap == SwapStep(SwapData("router", 0))

\* One and two approvals, resets, limits below and above a trade, what is done
\* already, and answers that must be refused.
AllApprovals ==
  {<<Open(Approve(s, a))>> : s \in Relays \cup {"stranger"}, a \in {2, Unlimited}}
  \cup {<<Open(Approve("proxy", a)), Open(Approve(s, Unlimited))>> :
          s \in Relays, a \in {0, Unlimited}}
  \cup {<<Done(Approve("stranger", 0)), Open(Approve("router", 3))>>,
        <<Done(Approve("router", 3))>>, <<>>,
        <<Open([Approve("router", 3) EXCEPT !.value = 2])>>,
        <<Open([Approve("router", 3) EXCEPT !.sane = FALSE])>>,
        [k \in 1..3 |-> Open(Approve("router", Unlimited))]}

AllResponses ==
  {<<s>> : s \in Swaps} \cup {<<ApproveStep(a), SaleSwap>> : a \in AllApprovals}
  \cup {<<>>, <<ApproveStep(<<>>)>>, <<SaleSwap, SaleSwap>>,
        <<[SaleSwap EXCEPT !.id = "deposit"]>>,
        <<SwapStep(SwapData("stranger", 0))>>,
        <<[SaleSwap EXCEPT !.items = @ \o @]>>}

AllTrades == [source : {"Relay", "Uniswap"}, input : {"native", "token"},
              amount : {2, 3}]

LeftoverSet == {[s \in Spenders |-> n] : n \in {0, 2}}
=============================================================================
