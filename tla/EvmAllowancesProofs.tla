------------------------ MODULE EvmAllowancesProofs ------------------------
(***************************************************************************)
(* Proofs about EvmAllowances, for any calls, trades, Relay responses and  *)
(* allowances from before: what spenders may take stays within the trades, *)
(* the transactions of a call succeed in their order, and a sale that did  *)
(* not overlap another call finds its allowance.                           *)
(*                                                                         *)
(* The allowances that were granted are summed over the approvals that     *)
(* were mined, so the first lemmas are about sums over finite sets.        *)
(***************************************************************************)
EXTENDS EvmAllowances, FiniteSetTheorems, TLAPS

-----------------------------------------------------------------------------
(* Sums over finite sets. *)

Pick(S) == CHOOSE x \in S : TRUE

\* g is the sum of f over the subsets of D.
Sums(g, f, D) ==
  g = [s \in SUBSET D |-> IF s = {} THEN 0 ELSE f[Pick(s)] + g[s \ {Pick(s)}]]

LEMMA SumsAt ==
  ASSUME NEW g, NEW f, NEW D, Sums(g, f, D), NEW s \in SUBSET D
  PROVE  g[s] = IF s = {} THEN 0 ELSE f[Pick(s)] + g[s \ {Pick(s)}]
<1> DEFINE h == [r \in SUBSET D |-> IF r = {} THEN 0 ELSE f[Pick(r)] + g[r \ {Pick(r)}]]
<1>1. h[s] = IF s = {} THEN 0 ELSE f[Pick(s)] + g[s \ {Pick(s)}]
  OBVIOUS
<1>2. g = h
  BY Zenon DEF Sums
<1> QED
  BY <1>1, <1>2, Zenon

LEMMA SmallestSubset ==
  ASSUME NEW S, IsFiniteSet(S), NEW B, B \subseteq SUBSET S, B # {}
  PROVE  \E T \in B : \A U \in B : U \subseteq T => U = T
<1>1. IsWellFoundedOn(StrictSubsetOrdering(S), SUBSET S)
  BY FS_StrictSubsetOrderingWellFounded, FS_FiniteSubsetsOfFinite
<1>2. PICK T \in B : \A U \in B : ~ (<<U, T>> \in StrictSubsetOrdering(S))
  BY <1>1, WFMin
<1> QED
  BY <1>2 DEF StrictSubsetOrdering

LEMMA SumsAgree ==
  ASSUME NEW f, NEW C, NEW D, NEW g, NEW h, Sums(g, f, C), Sums(h, f, D),
         NEW S, IsFiniteSet(S), S \subseteq C, S \subseteq D
  PROVE  g[S] = h[S]
<1> DEFINE B == {s \in SUBSET S : g[s] # h[s]}
<1>1. SUFFICES ASSUME B # {} PROVE FALSE
  OBVIOUS
<1>2. PICK T \in B : \A U \in B : U \subseteq T => U = T
  <2> HIDE DEF B
  <2>1. B \subseteq SUBSET S BY DEF B
  <2> QED BY <1>1, <2>1, SmallestSubset
<1>3. T \in SUBSET C /\ T \in SUBSET D
  OBVIOUS
<1>4. T # {}
  BY <1>2, <1>3, SumsAt
<1>5. Pick(T) \in T
  BY <1>4 DEF Pick
<1>6. T \ {Pick(T)} \notin B
  BY <1>2, <1>5
<1>7. g[T \ {Pick(T)}] = h[T \ {Pick(T)}]
  BY <1>6
<1>8. /\ g[T] = f[Pick(T)] + g[T \ {Pick(T)}]
      /\ h[T] = f[Pick(T)] + h[T \ {Pick(T)}]
  BY <1>3, <1>4, SumsAt
<1> QED
  BY <1>7, <1>8

LEMMA SumsExist ==
  ASSUME NEW f, NEW S, IsFiniteSet(S)
  PROVE  \E g : Sums(g, f, S)
<1> DEFINE B == {s \in SUBSET S : ~ \E g : Sums(g, f, s)}
<1>1. SUFFICES ASSUME B # {} PROVE FALSE
  OBVIOUS
<1>2. PICK T \in B : \A U \in B : U \subseteq T => U = T
  <2> HIDE DEF B
  <2>1. B \subseteq SUBSET S BY DEF B
  <2> QED BY <1>1, <2>1, SmallestSubset
<1> DEFINE G(s) == CHOOSE g : Sums(g, f, s)
           sum(s) == IF s = T THEN IF s = {} THEN 0 ELSE f[Pick(s)] + G(s \ {Pick(s)})[s \ {Pick(s)}] ELSE G(s)[s]
           h == [s \in SUBSET T |-> sum(s)]
<1>3. ASSUME NEW s \in SUBSET T, s # T PROVE Sums(G(s), f, s)
  BY <1>2, <1>3, Zenon
<1>4. ASSUME NEW s \in SUBSET T
      PROVE  h[s] = IF s = {} THEN 0 ELSE f[Pick(s)] + h[s \ {Pick(s)}]
  <2>1. CASE s = {}
    <3>1. s # T => G(s)[s] = 0
      BY <1>3, <2>1, SumsAt
    <3> QED BY <2>1, <3>1
  <2>2. CASE s # {}
    <3> DEFINE r == s \ {Pick(s)}
    <3>1. Pick(s) \in s
      BY <2>2 DEF Pick
    <3>2. r \in SUBSET T /\ r # T /\ r # s /\ r \subseteq s
      BY <3>1
    <3>3. h[r] = G(r)[r]
      BY <3>2
    <3>4. h[s] = f[Pick(s)] + G(r)[r]
      <4>1. CASE s = T
        BY <4>1, <2>2
      <4>2. CASE s # T
        <5>1. Sums(G(s), f, s) /\ Sums(G(r), f, r)
          BY <1>3, <3>2, <4>2
        <5>2. IsFiniteSet(r)
          BY <3>2, FS_Subset
        <5> HIDE DEF G, r
        <5>3. G(s)[r] = G(r)[r]
          BY <5>1, <5>2, <3>2, SumsAgree
        <5>4. G(s)[s] = f[Pick(s)] + G(s)[r]
          BY <5>1, <2>2, SumsAt DEF r
        <5> QED BY <5>3, <5>4, <4>2
      <4> QED BY <4>1, <4>2
    <3> HIDE DEF h, G
    <3> QED BY <2>2, <3>3, <3>4
  <2> QED BY <2>1, <2>2
<1>5. Sums(h, f, T)
  <2> DEFINE k == [s \in SUBSET T |-> IF s = {} THEN 0 ELSE f[Pick(s)] + h[s \ {Pick(s)}]]
  <2>1. h = [s \in SUBSET T |-> h[s]] OBVIOUS
  <2> HIDE DEF h
  <2>2. k = h BY <1>4, <2>1
  <2> QED BY <2>2, Zenon DEF Sums
<1> QED
  BY <1>5, <1>2

LEMMA SumIs ==
  ASSUME NEW f, NEW S, IsFiniteSet(S)
  PROVE  \E g : Sums(g, f, S) /\ SumFunctionOnSet(f, S) = g[S]
<1> DEFINE g == CHOOSE g : Sums(g, f, S)
<1>1. Sums(g, f, S)
  BY SumsExist
<1>2. SumFunctionOnSet(f, S) = g[S]
  BY Zenon DEF SumFunctionOnSet, FoldFunctionOnSet, MapThenFoldSet, Sums, Pick
<1> QED BY <1>1, <1>2

LEMMA SumStep ==
  ASSUME NEW f, NEW S, IsFiniteSet(S), S # {}
  PROVE  SumFunctionOnSet(f, S) = f[Pick(S)] + SumFunctionOnSet(f, S \ {Pick(S)})
<1> DEFINE R == S \ {Pick(S)}
<1>1. IsFiniteSet(R)
  BY FS_Subset
<1>2. PICK g : Sums(g, f, S) /\ SumFunctionOnSet(f, S) = g[S]
  BY SumIs
<1>3. PICK h : Sums(h, f, R) /\ SumFunctionOnSet(f, R) = h[R]
  BY <1>1, SumIs
<1>4. g[S] = f[Pick(S)] + g[R]
  BY <1>2, SumsAt
<1>5. g[R] = h[R]
  <2>1. R \subseteq S /\ R \subseteq R OBVIOUS
  <2> HIDE DEF R
  <2> QED BY <1>1, <1>2, <1>3, <2>1, SumsAgree
<1> QED
  BY <1>2, <1>3, <1>4, <1>5

LEMMA SumEmpty == ASSUME NEW f PROVE SumFunctionOnSet(f, {}) = 0
<1>1. IsFiniteSet({}) BY FS_EmptySet
<1>2. PICK g : Sums(g, f, {}) /\ SumFunctionOnSet(f, {}) = g[{}]
  BY <1>1, SumIs
<1> QED BY <1>2, SumsAt

LEMMA SumNat ==
  ASSUME NEW S, IsFiniteSet(S), NEW f, \A x \in S : f[x] \in Nat
  PROVE  SumFunctionOnSet(f, S) \in Nat
<1> DEFINE B == {s \in SUBSET S : SumFunctionOnSet(f, s) \notin Nat}
<1>1. SUFFICES ASSUME B # {} PROVE FALSE
  OBVIOUS
<1>2. PICK T \in B : \A U \in B : U \subseteq T => U = T
  <2> HIDE DEF B
  <2>1. B \subseteq SUBSET S BY DEF B
  <2> QED BY <1>1, <2>1, SmallestSubset
<1>3. T \subseteq S /\ SumFunctionOnSet(f, T) \notin Nat
  OBVIOUS
<1>4. IsFiniteSet(T) /\ T # {}
  <2>1. IsFiniteSet(T)
    BY <1>3, FS_Subset
  <2>2. T # {}
    BY <1>3, SumEmpty
  <2> QED
    BY <2>1, <2>2
<1>5. Pick(T) \in T
  BY <1>4 DEF Pick
<1>6. SumFunctionOnSet(f, T \ {Pick(T)}) \in Nat
  BY <1>2, <1>3, <1>5
<1>7. SumFunctionOnSet(f, T) = f[Pick(T)] + SumFunctionOnSet(f, T \ {Pick(T)})
  BY <1>4, SumStep
<1>8. f[Pick(T)] \in Nat
  BY <1>3, <1>5
<1> HIDE DEF B
<1> QED
  BY <1>3, <1>6, <1>7, <1>8

LEMMA SumRemove ==
  ASSUME NEW S, IsFiniteSet(S), NEW f, \A y \in S : f[y] \in Nat, NEW x \in S
  PROVE  SumFunctionOnSet(f, S) = f[x] + SumFunctionOnSet(f, S \ {x})
<1> DEFINE Good(s) == \A y \in s : SumFunctionOnSet(f, s) = f[y] + SumFunctionOnSet(f, s \ {y})
           B == {s \in SUBSET S : ~Good(s)}
<1>1. SUFFICES ASSUME B # {} PROVE FALSE
  OBVIOUS
<1>2. PICK T \in B : \A U \in B : U \subseteq T => U = T
  <2> HIDE DEF B
  <2>1. B \subseteq SUBSET S BY DEF B
  <2> QED BY <1>1, <2>1, SmallestSubset
<1>3. PICK p \in T : SumFunctionOnSet(f, T) # f[p] + SumFunctionOnSet(f, T \ {p})
  OBVIOUS
<1> DEFINE q == Pick(T)
           R == T \ {p, q}
<1>4. IsFiniteSet(T) /\ T \subseteq S /\ T # {}
  BY FS_Subset
<1>5. q \in T
  BY <1>4 DEF Pick
<1>6. SumFunctionOnSet(f, T) = f[q] + SumFunctionOnSet(f, T \ {q})
  BY <1>4, SumStep
<1>7. p # q
  BY <1>3, <1>6
<1>8. Good(T \ {q}) /\ Good(T \ {p})
  <2>1. T \ {q} \in SUBSET S /\ T \ {p} \in SUBSET S
    BY <1>4
  <2>2. T \ {q} # T /\ T \ {p} # T
    BY <1>5
  <2> HIDE DEF Good, q
  <2> QED BY <1>2, <2>1, <2>2
<1>9. /\ SumFunctionOnSet(f, T \ {q}) = f[p] + SumFunctionOnSet(f, R)
      /\ SumFunctionOnSet(f, T \ {p}) = f[q] + SumFunctionOnSet(f, R)
  <2>1. p \in T \ {q} /\ q \in T \ {p}
    BY <1>5, <1>7
  <2>2. (T \ {q}) \ {p} = R /\ (T \ {p}) \ {q} = R
    OBVIOUS
  <2> HIDE DEF q, R
  <2> QED BY <1>8, <2>1, <2>2
<1>10. f[p] \in Nat /\ f[q] \in Nat /\ SumFunctionOnSet(f, R) \in Nat
  <2>1. IsFiniteSet(R) /\ R \subseteq S
    BY <1>4, FS_Subset
  <2> HIDE DEF q, R
  <2> QED BY <1>4, <1>5, <2>1, SumNat
<1> HIDE DEF B, Good, q, R
<1> QED
  BY <1>3, <1>6, <1>9, <1>10

-----------------------------------------------------------------------------
(* What a call plans. *)

\* The ether that goes with a trade.
Ether(t) == IF t.input = "native" THEN t.amount ELSE 0

\* Approvals of no more than the trade, then the swap with the trade's ether;
\* a sale on Uniswap approves CswapRouter for its amount or not at all.
Shaped(p, t) ==
  /\ p \in Seq(Transaction)
  /\ Len(p) \in 1..3
  /\ \A i \in 1..Len(p) - 1 :
       p[i].kind = "approve" /\ p[i].value = 0 /\ p[i].amount <= t.amount
  /\ p[Len(p)].kind = "swap"
  /\ p[Len(p)].value = Ether(t)
  /\ t.source = "Relay" => p[Len(p)].to \in Relays
  /\ t.source = "Uniswap" =>
       \/ Len(p) = 1
       \/ Len(p) = 2 /\ p[1] = Approval("cswap", t.amount)

LEMMA UniswapShaped ==
  ASSUME NEW t \in Trade, t.source = "Uniswap"
  PROVE  Shaped(UniswapPlan(t), t)
<1> DEFINE a == Approval("cswap", t.amount)
           b == SwapTx("cswap", 0)
           n == SwapTx("cswap", t.amount)
<1>1. t.amount \in Nat
  BY DEF Trade
<1>2. /\ a \in Transaction /\ a.kind = "approve" /\ a.value = 0 /\ a.amount = t.amount
      /\ b \in Transaction /\ b.kind = "swap" /\ b.value = 0
      /\ n \in Transaction /\ n.kind = "swap" /\ n.value = t.amount
  BY <1>1 DEF Approval, SwapTx, Transaction, Spenders
<1>3. CASE t.input = "native"
  <2>1. UniswapPlan(t) = <<n>>
    BY <1>3 DEF UniswapPlan
  <2> HIDE DEF a, b, n
  <2> QED
    BY <1>2, <1>3, <2>1 DEF Shaped, Ether
<1>4. CASE t.input # "native" /\ Short(t)
  <2>1. UniswapPlan(t) = <<a>> \o <<b>>
    BY <1>4 DEF UniswapPlan
  <2>2. Approval("cswap", t.amount) = a
    OBVIOUS
  <2> HIDE DEF a, b, n
  <2>3. /\ UniswapPlan(t) \in Seq(Transaction) /\ Len(UniswapPlan(t)) = 2
        /\ UniswapPlan(t)[1] = a /\ UniswapPlan(t)[2] = b
    BY <1>2, <2>1
  <2> QED
    BY <1>1, <1>2, <1>4, <2>2, <2>3 DEF Shaped, Ether
<1>5. CASE t.input # "native" /\ ~Short(t)
  <2>1. UniswapPlan(t) = <<>> \o <<b>>
    BY <1>5 DEF UniswapPlan
  <2> HIDE DEF a, b, n
  <2>2. /\ UniswapPlan(t) \in Seq(Transaction) /\ Len(UniswapPlan(t)) = 1
        /\ UniswapPlan(t)[1] = b
    BY <1>2, <2>1
  <2> QED
    BY <1>2, <1>5, <2>2 DEF Shaped, Ether
<1> QED
  BY <1>3, <1>4, <1>5

\* An item that is still to be done becomes one approval of at most the trade.
LEMMA TodoApproves ==
  ASSUME NEW t \in Trade, NEW item \in Item,
         \/ item.status = "complete"
         \/ ApprovalValid(t, item.data)
  PROVE  /\ Todo(t, item) \in Seq(Transaction)
         /\ Len(Todo(t, item)) \in 0..1
         /\ \A i \in 1..Len(Todo(t, item)) :
              /\ Todo(t, item)[i].kind = "approve"
              /\ Todo(t, item)[i].value = 0
              /\ Todo(t, item)[i].amount <= t.amount
<1>1. CASE item.status = "complete"
  BY <1>1 DEF Todo
<1>2. CASE item.status # "complete"
  <2> DEFINE a == Bounded(t, item.data)
  <2>1. item.data.spender \in Relays /\ t.amount \in Nat
    BY <1>2 DEF ApprovalValid, Trade
  <2>2. /\ a \in Transaction /\ a.kind = "approve" /\ a.value = 0
        /\ a.amount <= t.amount
    BY <2>1 DEF Bounded, Approval, Transaction, Spenders, Relays
  <2>3. Todo(t, item) = <<a>>
    BY <1>2 DEF Todo
  <2> HIDE DEF a
  <2> QED
    BY <2>2, <2>3
<1> QED
  BY <1>1, <1>2

LEMMA RelayShaped ==
  ASSUME NEW t \in Trade, t.source = "Relay", NEW steps \in Seq(Step),
         RelayAccepts(t, steps)
  PROVE  Shaped(RelayPlan(t, steps), t)
<1> DEFINE n == Len(steps)
           data == steps[n].items[1].data
           swap == SwapTx(data.to, data.value)
           items == steps[1].items
           approvals == IF n = 1 THEN <<>> ELSE RelayApprovals(t, items)
<1>1. n \in {1, 2} /\ n \in DOMAIN steps /\ 1 \in DOMAIN steps
  BY DEF RelayAccepts
<1>2. StepAccepted(t, steps, 1) /\ StepAccepted(t, steps, n)
  BY <1>1 DEF RelayAccepts
<1>3. \A i \in DOMAIN steps : steps[i].items \in Seq(Item)
  <2>1. \A i \in DOMAIN steps : steps[i] \in Step
    OBVIOUS
  <2> QED
    BY <2>1 DEF Step
<1>4. SwapValid(t, data)
  <2>1. Len(steps[n].items) = 1 /\ 1 \in DOMAIN steps[n].items
    BY <1>1, <1>2, <1>3 DEF StepAccepted
  <2> QED
    BY <1>2, <2>1 DEF StepAccepted
<1>5. /\ swap \in Transaction /\ swap.kind = "swap" /\ swap.value = Ether(t)
      /\ swap.to \in Relays
  BY <1>4 DEF SwapTx, SwapValid, Transaction, Spenders, Relays, Ether, Trade
<1>6. /\ approvals \in Seq(Transaction)
      /\ Len(approvals) \in 0..2
      /\ \A i \in 1..Len(approvals) :
           /\ approvals[i].kind = "approve" /\ approvals[i].value = 0
           /\ approvals[i].amount <= t.amount
  <2>1. CASE n = 1
    BY <2>1
  <2>2. CASE n = 2
    <3>1. /\ items \in Seq(Item) /\ Len(items) \in {1, 2}
          /\ \A k \in DOMAIN items :
               \/ items[k].status = "complete"
               \/ ApprovalValid(t, items[k].data)
      BY <1>1, <1>2, <1>3, <2>2 DEF StepAccepted
    <3> DEFINE first  == Todo(t, items[1])
               second == IF Len(items) = 2 THEN Todo(t, items[2]) ELSE <<>>
    <3>2. /\ first \in Seq(Transaction) /\ Len(first) \in 0..1
          /\ \A i \in 1..Len(first) :
               /\ first[i].kind = "approve" /\ first[i].value = 0
               /\ first[i].amount <= t.amount
      <4>1. 1 \in DOMAIN items /\ items[1] \in Item
        BY <3>1
      <4> HIDE DEF items
      <4> QED
        BY <3>1, <4>1, TodoApproves
    <3>3. /\ second \in Seq(Transaction) /\ Len(second) \in 0..1
          /\ \A i \in 1..Len(second) :
               /\ second[i].kind = "approve" /\ second[i].value = 0
               /\ second[i].amount <= t.amount
      <4>1. CASE Len(items) = 2
        <5>1. 2 \in DOMAIN items /\ items[2] \in Item
          BY <3>1, <4>1
        <5> HIDE DEF items
        <5> QED
          BY <3>1, <4>1, <5>1, TodoApproves
      <4>2. CASE Len(items) # 2
        BY <4>2
      <4> QED
        BY <4>1, <4>2
    <3>4. approvals = first \o second
      BY <2>2 DEF RelayApprovals
    <3> HIDE DEF first, second, approvals, items, n
    <3>5. \A i \in 1..Len(approvals) :
            \/ i \in 1..Len(first) /\ approvals[i] = first[i]
            \/ i - Len(first) \in 1..Len(second)
               /\ approvals[i] = second[i - Len(first)]
      BY <3>2, <3>3, <3>4
    <3> QED
      BY <3>2, <3>3, <3>4, <3>5
  <2> QED
    BY <1>1, <2>1, <2>2
<1>7. RelayPlan(t, steps) = approvals \o <<swap>>
  BY DEF RelayPlan
<1> HIDE DEF approvals, swap, n
<1>8. /\ RelayPlan(t, steps) \in Seq(Transaction)
      /\ Len(RelayPlan(t, steps)) = Len(approvals) + 1
      /\ \A i \in 1..Len(approvals) : RelayPlan(t, steps)[i] = approvals[i]
      /\ RelayPlan(t, steps)[Len(approvals) + 1] = swap
  BY <1>5, <1>6, <1>7
<1> QED
  BY <1>5, <1>6, <1>8 DEF Shaped

-----------------------------------------------------------------------------
(* The inductive invariant. *)

\* A call has no plan before it is prepared, and submits a transaction only
\* when those before it have succeeded.
CallsInOrder ==
  \A c \in Calls :
    /\ pc[c] = "idle" => plan[c] = <<>>
    /\ pc[c] = "wait" => sent[c] > 0
    /\ pc[c] = "ready" /\ sent[c] > 0 => <<c, sent[c]>> \in succeeded
    /\ \A i \in 1..sent[c] - 1 : <<c, i>> \in succeeded

\* What is in doubt or mined was submitted, and is mined once.
MinedOnce ==
  /\ \A id \in pending \cup succeeded \cup reverted : id[2] <= sent[id[1]]
  /\ pending \cap (succeeded \cup reverted) = {}
  /\ IsFiniteSet(succeeded)

PlansKept ==
  \A c \in Calls : plan[c] # <<>> => Shaped(plan[c], trade[c])

\* The ether of a call is that of its last transaction.
PaidOnce ==
  \A c \in Calls :
    paid[c] = IF <<c, Len(plan[c])>> \in succeeded THEN Ether(trade[c]) ELSE 0

IndInv ==
  /\ TypeOK
  /\ CallsInOrder
  /\ MinedOnce
  /\ PlansKept
  /\ PaidOnce
  /\ AllowanceBounded
  /\ TakenWithinApprovals

LEMMA InitIndInv == Init => IndInv
<1> SUFFICES ASSUME Init PROVE IndInv
  OBVIOUS
<1>1. TypeOK
  <2>1. before \in [Spenders -> Nat]
    BY ConstantsAssumption DEF Init
  <2>2. \A c \in Calls : plan[c] = <<>> /\ sent[c] = 0 /\ Len(plan[c]) = 0
    BY DEF Init
  <2>3. \A c \in Calls : Len(plan[c]) <= 3 /\ sent[c] <= Len(plan[c])
    BY <2>2
  <2>4. plan \in [Calls -> Seq(Transaction)]
    BY DEF Init
  <2> QED
    BY <2>1, <2>3, <2>4 DEF Init, TypeOK
<1>2. CallsInOrder /\ PlansKept
  BY DEF Init, CallsInOrder, PlansKept
<1>3. MinedOnce
  BY FS_EmptySet DEF Init, MinedOnce
<1>4. PaidOnce
  BY DEF Init, PaidOnce
<1>5. AllowanceBounded
  BY <1>1 DEF Init, AllowanceBounded, TypeOK
<1>6. TakenWithinApprovals
  <2> SUFFICES ASSUME NEW s \in Spenders
               PROVE  taken[s] + allowance[s]
                        <= before[s] + SumFunctionOnSet(Amounts, Approvals(s))
    BY DEF TakenWithinApprovals
  <2>1. Approvals(s) = {}
    BY DEF Init, Approvals
  <2>2. taken[s] = 0 /\ allowance[s] = before[s] /\ before[s] \in Nat
    BY <1>1 DEF Init, TypeOK
  <2> QED
    BY <2>1, <2>2, SumEmpty
<1> QED
  BY <1>1, <1>2, <1>3, <1>4, <1>5, <1>6 DEF IndInv

-----------------------------------------------------------------------------
(* The calls' steps. *)

LEMMA Calls0 ==
  ASSUME IndInv, NEW c \in Calls
  PROVE  /\ trade[c] \in Trade /\ trade[c].amount \in Nat
         /\ response[c] \in Seq(Step)
         /\ plan[c] \in Seq(Transaction) /\ Len(plan[c]) \in Nat /\ Len(plan[c]) <= 3
         /\ sent[c] \in Nat /\ sent[c] <= Len(plan[c])
         /\ pc[c] = "idle" => plan[c] = <<>> /\ sent[c] = 0
<1>1. trade[c] \in Trades /\ response[c] \in Responses
  BY DEF IndInv, TypeOK
<1>2. plan[c] \in Seq(Transaction) /\ Len(plan[c]) <= 3 /\ sent[c] \in Nat /\ sent[c] <= Len(plan[c])
  BY DEF IndInv, TypeOK
<1>3. pc[c] = "idle" => plan[c] = <<>>
  BY DEF IndInv, CallsInOrder
<1>4. trade[c] \in Trade /\ response[c] \in Seq(Step)
  BY <1>1, ConstantsAssumption
<1>5. trade[c].amount \in Nat
  BY <1>4 DEF Trade
<1>6. Len(plan[c]) \in Nat /\ Len(plan[c]) <= 3
  BY <1>2
<1>7. plan[c] = <<>> => sent[c] = 0
  BY <1>2
<1> QED
  BY <1>2, <1>3, <1>4, <1>5, <1>6, <1>7

\* A transaction that was submitted is one of its call's plan.
LEMMA SubmittedIsPlanned ==
  ASSUME IndInv, NEW id \in pending \cup succeeded \cup reverted
  PROVE  /\ id[1] \in Calls /\ id[2] \in 1..Len(plan[id[1]])
         /\ id = <<id[1], id[2]>>
         /\ id[2] <= sent[id[1]]
         /\ plan[id[1]] # <<>>
         /\ Shaped(plan[id[1]], trade[id[1]])
         /\ Tx(id) = plan[id[1]][id[2]] /\ Tx(id) \in Transaction
         /\ Amounts[id] = trade[id[1]].amount /\ Amounts[id] \in Nat
<1>1. id \in Ids
  BY DEF IndInv, TypeOK
<1>2. id[1] \in Calls /\ id[2] \in 1..3 /\ id = <<id[1], id[2]>>
  BY <1>1 DEF Ids
<1>3. id[2] <= sent[id[1]]
  BY DEF IndInv, MinedOnce
<1>4. id[2] \in 1..Len(plan[id[1]]) /\ plan[id[1]] # <<>>
  BY <1>2, <1>3, Calls0
<1>5. Shaped(plan[id[1]], trade[id[1]])
  BY <1>2, <1>4 DEF IndInv, PlansKept
<1>6. Tx(id) = plan[id[1]][id[2]] /\ Tx(id) \in Transaction
  BY <1>2, <1>4, Calls0 DEF Tx
<1>7. Amounts[id] = trade[id[1]].amount /\ Amounts[id] \in Nat
  BY <1>1, <1>2, Calls0 DEF Amounts
<1> QED
  BY <1>2, <1>3, <1>4, <1>5, <1>6, <1>7

\* A step of a call leaves the chain as it was, and plans only what it had not.
LEMMA CallKeepsChain ==
  ASSUME IndInv, UNCHANGED <<trade, chainVars>>,
         \A c \in Calls : plan'[c] = plan[c] \/ plan[c] = <<>>
  PROVE  PaidOnce' /\ AllowanceBounded' /\ TakenWithinApprovals'
<1>1. UNCHANGED <<succeeded, before, allowance, taken, paid>>
  BY DEF chainVars
<1>2. \A id \in succeeded : id[1] \in Calls /\ plan[id[1]] # <<>> /\ Tx(id)' = Tx(id)
  <2> SUFFICES ASSUME NEW id \in succeeded
               PROVE  id[1] \in Calls /\ plan[id[1]] # <<>> /\ Tx(id)' = Tx(id)
    OBVIOUS
  <2>1. id[1] \in Calls /\ plan[id[1]] # <<>>
    BY SubmittedIsPlanned
  <2> QED
    BY <2>1 DEF Tx
<1>3. PaidOnce'
  <2> SUFFICES ASSUME NEW c \in Calls
               PROVE  paid[c] = IF <<c, Len(plan'[c])>> \in succeeded
                                  THEN Ether(trade[c]) ELSE 0
    BY <1>1 DEF PaidOnce
  <2>1. plan[c] = <<>> => \A i : <<c, i>> \notin succeeded
    BY <1>2
  <2>2. paid[c] = IF <<c, Len(plan[c])>> \in succeeded THEN Ether(trade[c]) ELSE 0
    BY DEF IndInv, PaidOnce
  <2> QED
    BY <2>1, <2>2
<1>4. AllowanceBounded'
  BY <1>1 DEF IndInv, AllowanceBounded
<1>5. TakenWithinApprovals'
  <2>1. Amounts' = Amounts
    BY DEF Amounts
  <2>2. \A s \in Spenders : Approvals(s)' = Approvals(s)
    BY <1>1, <1>2 DEF Approvals
  <2> QED
    BY <1>1, <2>1, <2>2 DEF IndInv, TakenWithinApprovals
<1> QED
  BY <1>3, <1>4, <1>5

\* A step that leaves the plans and the submissions of all calls alone.
LEMMA ControlKeeps ==
  ASSUME IndInv, UNCHANGED <<trade, response, plan, sent, pending, chainVars>>,
         overlapped' \in BOOLEAN,
         pc' \in [Calls -> {"idle", "ready", "wait", "ok", "error"}],
         \A c \in Calls : \/ pc'[c] = pc[c]
                          \/ pc'[c] \in {"ok", "error"}
                          \/ pc'[c] = "ready" /\ <<c, sent[c]>> \in succeeded
  PROVE  IndInv'
<1>1. UNCHANGED <<succeeded, reverted, before, allowance, taken, paid>>
  BY DEF chainVars
<1>2. TypeOK'
  BY <1>1 DEF IndInv, TypeOK
<1>3. CallsInOrder'
  BY <1>1 DEF IndInv, CallsInOrder
<1>4. MinedOnce' /\ PlansKept'
  BY <1>1 DEF IndInv, MinedOnce, PlansKept
<1> QED
  BY <1>2, <1>3, <1>4, CallKeepsChain DEF IndInv

LEMMA PrepareKeeps ==
  ASSUME IndInv, NEW c \in Calls, Prepare(c)
  PROVE  IndInv'
<1>1. CASE pc'[c] = "error"
  <2>1. /\ pc' = [pc EXCEPT ![c] = "error"] /\ UNCHANGED plan
        /\ overlapped' \in BOOLEAN
    BY <1>1 DEF Prepare, IndInv, TypeOK, Quiet
  <2>2. pc' \in [Calls -> {"idle", "ready", "wait", "ok", "error"}]
    BY <2>1 DEF IndInv, TypeOK
  <2>3. \A d \in Calls : pc'[d] = pc[d] \/ pc'[d] = "error"
    BY <2>1 DEF IndInv, TypeOK
  <2> QED
    BY <2>1, <2>2, <2>3, ControlKeeps DEF Prepare
<1>2. CASE pc'[c] # "error"
  <2> DEFINE p == IF trade[c].source = "Uniswap" THEN UniswapPlan(trade[c])
                  ELSE RelayPlan(trade[c], response[c])
  <2>1. /\ pc[c] = "idle" /\ plan[c] = <<>> /\ sent[c] = 0
        /\ overlapped' \in BOOLEAN
        /\ UNCHANGED <<trade, response, sent, pending, chainVars>>
        /\ plan' = [plan EXCEPT ![c] = p] /\ pc' = [pc EXCEPT ![c] = "ready"]
        /\ trade[c].source = "Relay" => RelayAccepts(trade[c], response[c])
    <3>1. pc \in [Calls -> {"idle", "ready", "wait", "ok", "error"}]
      BY DEF IndInv, TypeOK
    <3>2. trade[c].source = "Relay" => trade[c].source # "Uniswap"
      OBVIOUS
    <3> HIDE DEF p
    <3> QED
      BY <1>2, <3>1, <3>2, Calls0 DEF Prepare, p, Quiet
  <2>2. Shaped(p, trade[c])
    <3>1. trade[c].source \in {"Uniswap", "Relay"}
      BY Calls0 DEF Trade
    <3> QED
      BY <2>1, <3>1, Calls0, UniswapShaped, RelayShaped
  <2> HIDE DEF p
  <2>3. p \in Seq(Transaction) /\ Len(p) \in Nat /\ Len(p) <= 3
    BY <2>2 DEF Shaped
  <2>4. UNCHANGED <<succeeded, reverted, before, allowance, taken, paid>>
    BY <2>1 DEF chainVars
  <2>5. \A d \in Calls : \/ plan'[d] = plan[d] /\ pc'[d] = pc[d]
                         \/ d = c /\ plan'[d] = p /\ pc'[d] = "ready"
    <3>1. DOMAIN plan = Calls /\ DOMAIN pc = Calls
      BY DEF IndInv, TypeOK
    <3> QED
      BY <2>1, <3>1
  <2>6. TypeOK'
    <3>1. plan' \in [Calls -> Seq(Transaction)]
      BY <2>1, <2>3 DEF IndInv, TypeOK
    <3>2. \A d \in Calls : Len(plan'[d]) <= 3 /\ sent'[d] <= Len(plan'[d])
      <4> SUFFICES ASSUME NEW d \in Calls
                   PROVE  Len(plan'[d]) <= 3 /\ sent'[d] <= Len(plan'[d])
        OBVIOUS
      <4>1. CASE plan'[d] = plan[d]
        BY <2>1, <4>1 DEF IndInv, TypeOK
      <4>2. CASE d = c /\ plan'[d] = p
        BY <2>1, <2>3, <4>2
      <4> QED
        BY <2>5, <4>1, <4>2
    <3> QED
      BY <2>1, <2>4, <3>1, <3>2 DEF IndInv, TypeOK
  <2>7. CallsInOrder'
    BY <2>1, <2>4, <2>5 DEF IndInv, CallsInOrder
  <2>8. MinedOnce'
    BY <2>1, <2>4 DEF IndInv, MinedOnce
  <2>9. PlansKept'
    <3> SUFFICES ASSUME NEW d \in Calls, plan'[d] # <<>>
                 PROVE  Shaped(plan'[d], trade[d])
      BY <2>1 DEF PlansKept
    <3> QED
      BY <2>2, <2>5 DEF IndInv, PlansKept
  <2> QED
    BY <2>1, <2>5, <2>6, <2>7, <2>8, <2>9, CallKeepsChain DEF IndInv
<1> QED
  BY <1>1, <1>2

\* One more transaction is submitted, or may have been.
LEMMA SubmissionKeeps ==
  ASSUME IndInv, NEW c \in Calls, pc[c] = "ready", sent[c] < Len(plan[c]),
         pending' = pending \cup {<<c, sent[c] + 1>>},
         sent' = [sent EXCEPT ![c] = @ + 1],
         NEW s \in {"wait", "error"}, pc' = [pc EXCEPT ![c] = s],
         UNCHANGED <<trade, response, plan, chainVars, overlapped>>
  PROVE  IndInv'
<1> DEFINE new == <<c, sent[c] + 1>>
<1>1. UNCHANGED <<succeeded, reverted, before, allowance, taken, paid>>
  BY DEF chainVars
<1>2. /\ sent[c] \in Nat /\ sent[c] + 1 \in 1..Len(plan[c])
      /\ sent[c] + 1 \in 1..3 /\ new \in Ids
  <2>1. /\ sent[c] \in Nat /\ sent[c] <= Len(plan[c])
        /\ Len(plan[c]) \in Nat /\ Len(plan[c]) <= 3
    BY Calls0
  <2> QED
    BY <2>1 DEF Ids
<1>3. \A d \in Calls : \/ d # c /\ sent'[d] = sent[d] /\ pc'[d] = pc[d]
                       \/ d = c /\ sent'[d] = sent[d] + 1 /\ pc'[d] = s
  <2>1. DOMAIN sent = Calls /\ DOMAIN pc = Calls
    BY DEF IndInv, TypeOK
  <2> QED
    BY <2>1
<1>4. TypeOK'
  <2>1. \A d \in Calls : Len(plan'[d]) <= 3 /\ sent'[d] <= Len(plan'[d])
    BY <1>2, <1>3 DEF IndInv, TypeOK
  <2>2. pending' \subseteq Ids
    BY <1>2 DEF IndInv, TypeOK
  <2> QED
    BY <1>1, <2>1, <2>2 DEF IndInv, TypeOK
<1>5. CallsInOrder'
  <2> SUFFICES ASSUME NEW d \in Calls
               PROVE  /\ pc'[d] = "idle" => plan[d] = <<>>
                      /\ pc'[d] = "wait" => sent'[d] > 0
                      /\ pc'[d] = "ready" /\ sent'[d] > 0 => <<d, sent'[d]>> \in succeeded
                      /\ \A i \in 1..sent'[d] - 1 : <<d, i>> \in succeeded
    BY <1>1 DEF CallsInOrder
  <2>1. CASE d # c
    BY <1>3, <2>1 DEF IndInv, CallsInOrder
  <2>2. CASE d = c
    <3>1. \A i \in 1..sent[c] : <<c, i>> \in succeeded
      <4>1. \A i \in 1..sent[c] : (i = sent[c] /\ sent[c] > 0) \/ i \in 1..sent[c] - 1
        BY <1>2
      <4> QED
        BY <4>1 DEF IndInv, CallsInOrder
    <3> QED
      BY <1>2, <1>3, <2>2, <3>1
  <2> QED
    BY <2>1, <2>2
<1>6. MinedOnce'
  <2>1. ASSUME NEW id \in pending' \cup succeeded \cup reverted
        PROVE  id[2] <= sent'[id[1]]
    <3>1. CASE id = new
      BY <1>2, <1>3, <3>1
    <3>2. CASE id # new
      <4>1. id \in pending \cup succeeded \cup reverted
        BY <3>2
      <4>2. id[1] \in Calls /\ id[2] <= sent[id[1]] /\ id[2] \in Nat /\ sent[id[1]] \in Nat
        BY <4>1, SubmittedIsPlanned, Calls0
      <4> QED
        BY <1>3, <4>2
    <3> QED
      BY <3>1, <3>2
  <2>2. new \notin succeeded \cup reverted
    <3>1. ~(new[2] <= sent[new[1]])
      BY <1>2
    <3> HIDE DEF new
    <3> QED
      BY <3>1, SubmittedIsPlanned
  <2> QED
    BY <1>1, <2>1, <2>2 DEF IndInv, MinedOnce
<1>7. PlansKept'
  BY DEF IndInv, PlansKept
<1> QED
  BY <1>4, <1>5, <1>6, <1>7, CallKeepsChain DEF IndInv

-----------------------------------------------------------------------------
(* The chain's steps. *)

\* A swap is the last transaction of its call, and an approval is not.
LEMMA SwapIsLast ==
  ASSUME IndInv, NEW id \in pending \cup succeeded
  PROVE  /\ Tx(id).kind = "swap" <=> id[2] = Len(plan[id[1]])
         /\ Tx(id).kind = "swap" => Tx(id).value = Ether(trade[id[1]])
         /\ Tx(id).kind = "approve" =>
              Tx(id).value = 0 /\ Tx(id).amount <= trade[id[1]].amount
<1> DEFINE c == id[1]
           n == Len(plan[c])
<1>1. /\ c \in Calls /\ id[2] \in 1..n /\ Shaped(plan[c], trade[c])
      /\ Tx(id) = plan[c][id[2]]
  BY SubmittedIsPlanned
<1>2. n \in Nat
  BY <1>1, Calls0
<1>3. id[2] = n \/ id[2] \in 1..n - 1
  BY <1>1, <1>2
<1> QED
  BY <1>1, <1>2, <1>3 DEF Shaped

LEMMA MinedKeeps ==
  ASSUME IndInv, NEW id \in pending, NEW ok \in BOOLEAN, Mined(id, ok),
         allowance' \in [Spenders -> Nat], taken' \in [Spenders -> Nat]
  PROVE  TypeOK' /\ CallsInOrder' /\ MinedOnce' /\ PlansKept' /\ PaidOnce'
<1> DEFINE c == id[1]
<1>1. /\ c \in Calls /\ id \in Ids /\ id = <<c, id[2]>> /\ Tx(id) \in Transaction
      /\ id \notin succeeded /\ id \notin reverted
  BY SubmittedIsPlanned DEF IndInv, TypeOK, MinedOnce
<1>2. /\ pending' = pending \ {id}
      /\ succeeded' = IF ok THEN succeeded \cup {id} ELSE succeeded
      /\ reverted' = IF ok THEN reverted ELSE reverted \cup {id}
      /\ UNCHANGED <<trade, response, pc, plan, sent, before, overlapped>>
  BY DEF Mined
<1>3. \A d \in Calls : paid'[d] = IF d = c /\ ok THEN paid[d] + Tx(id).value ELSE paid[d]
  <2>1. paid' = [paid EXCEPT ![c] = @ + (IF ok THEN Tx(id).value ELSE 0)]
    BY DEF Mined
  <2>2. paid \in [Calls -> Nat]
    BY DEF IndInv, TypeOK
  <2> HIDE DEF c
  <2> QED
    BY <2>1, <2>2
<1>4. TypeOK'
  <2>1. paid' \in [Calls -> Nat]
    <3> DEFINE more == IF ok THEN Tx(id).value ELSE 0
    <3>1. more \in Nat
      BY <1>1 DEF Transaction
    <3>2. paid' = [paid EXCEPT ![c] = @ + more]
      BY DEF Mined
    <3>3. paid \in [Calls -> Nat] /\ paid[c] \in Nat
      BY <1>1 DEF IndInv, TypeOK
    <3> HIDE DEF c, more
    <3>4. paid' = [paid EXCEPT ![c] = paid[c] + more] /\ paid[c] + more \in Nat
      BY <3>1, <3>2, <3>3
    <3> QED
      BY <3>3, <3>4
  <2>2. pending' \subseteq Ids /\ succeeded' \subseteq Ids /\ reverted' \subseteq Ids
    BY <1>1, <1>2 DEF IndInv, TypeOK
  <2> HIDE DEF c
  <2> QED
    BY <1>2, <2>1, <2>2 DEF IndInv, TypeOK
<1>5. succeeded \subseteq succeeded'
  BY <1>2
<1>6. CallsInOrder'
  BY <1>2, <1>5 DEF IndInv, CallsInOrder
<1>7. MinedOnce'
  <2>1. IsFiniteSet(succeeded')
    BY <1>2, FS_AddElement DEF IndInv, MinedOnce
  <2>2. pending' \cup succeeded' \cup reverted' \subseteq pending \cup succeeded \cup reverted
    BY <1>2
  <2>3. pending' \cap (succeeded' \cup reverted') = {}
    BY <1>2 DEF IndInv, MinedOnce
  <2> QED
    BY <1>2, <2>1, <2>2, <2>3 DEF IndInv, MinedOnce
<1>8. PlansKept'
  BY <1>2 DEF IndInv, PlansKept
<1>9. PaidOnce'
  <2> SUFFICES ASSUME NEW d \in Calls
               PROVE  paid'[d] = IF <<d, Len(plan[d])>> \in succeeded'
                                   THEN Ether(trade[d]) ELSE 0
    BY <1>2 DEF PaidOnce
  <2>1. paid[d] = IF <<d, Len(plan[d])>> \in succeeded THEN Ether(trade[d]) ELSE 0
    BY DEF IndInv, PaidOnce
  <2>2. CASE d # c \/ ~ok
    <3>1. <<d, Len(plan[d])>> \in succeeded' <=> <<d, Len(plan[d])>> \in succeeded
      BY <1>1, <1>2, <2>2
    <3> QED
      BY <1>3, <2>1, <2>2, <3>1
  <2>3. CASE d = c /\ ok /\ Tx(id).kind = "swap"
    <3>1. /\ id = <<c, Len(plan[c])>> /\ Tx(id).value = Ether(trade[c])
          /\ Ether(trade[c]) \in Nat
      BY <1>1, <2>3, SwapIsLast, Calls0 DEF Ether
    <3>2. paid[c] = 0
      BY <1>1, <2>1, <2>3, <3>1
    <3> QED
      BY <1>2, <1>3, <2>3, <3>1, <3>2
  <2>4. CASE d = c /\ ok /\ Tx(id).kind # "swap"
    <3>1. Tx(id).value = 0 /\ id # <<c, Len(plan[c])>>
      BY <1>1, <2>4, SwapIsLast DEF Transaction
    <3>2. paid[c] \in Nat
      BY <1>1 DEF IndInv, TypeOK
    <3> QED
      BY <1>2, <1>3, <2>1, <2>4, <3>1, <3>2
  <2> QED
    BY <2>2, <2>3, <2>4
<1> QED
  BY <1>4, <1>6, <1>7, <1>8, <1>9

\* Without a new approval, a spender may pull what it had, and no more.
LEMMA PullKeeps ==
  ASSUME IndInv, UNCHANGED <<trade, plan, before>>,
         NEW id \in pending, Tx(id).kind # "approve" \/ succeeded' = succeeded,
         succeeded' = succeeded \cup {id} \/ succeeded' = succeeded,
         allowance' \in [Spenders -> Nat], taken' \in [Spenders -> Nat],
         \A s \in Spenders : /\ allowance'[s] <= allowance[s]
                             /\ taken'[s] + allowance'[s] = taken[s] + allowance[s]
  PROVE  AllowanceBounded' /\ TakenWithinApprovals'
<1>1. \A s \in Spenders : allowance[s] \in Nat /\ before[s] \in Nat
  <2>1. before \in [Spenders -> Nat]
    BY ConstantsAssumption DEF IndInv, TypeOK
  <2> QED
    BY <2>1 DEF IndInv, TypeOK
<1>2. AllowanceBounded'
  <2> SUFFICES ASSUME NEW s \in Spenders
               PROVE  \/ allowance'[s] <= before[s]
                      \/ \E c \in Calls : allowance'[s] <= trade[c].amount
    BY DEF AllowanceBounded
  <2>1. CASE allowance[s] <= before[s]
    BY <1>1, <2>1
  <2>2. CASE \E c \in Calls : allowance[s] <= trade[c].amount
    <3>1. PICK c \in Calls : allowance[s] <= trade[c].amount
      BY <2>2
    <3>2. trade[c].amount \in Nat
      BY Calls0
    <3> QED
      BY <1>1, <3>1, <3>2
  <2> QED
    BY <2>1, <2>2 DEF IndInv, AllowanceBounded
<1>3. TakenWithinApprovals'
  <2>1. Amounts' = Amounts
    BY DEF Amounts
  <2>2. \A s \in Spenders : Approvals(s)' = Approvals(s)
    <3>1. \A x : Tx(x)' = Tx(x)
      BY DEF Tx
    <3> QED
      BY <3>1 DEF Approvals
  <2> QED
    BY <2>1, <2>2 DEF IndInv, TakenWithinApprovals
<1> QED
  BY <1>2, <1>3

LEMMA MineApprovalKeeps ==
  ASSUME IndInv, NEW id \in pending, MineApproval(id)
  PROVE  IndInv'
<1> DEFINE c == id[1]
           t == Tx(id).to
<1>1. /\ c \in Calls /\ t \in Spenders /\ Tx(id).amount \in Nat
      /\ Tx(id).amount <= trade[c].amount /\ trade[c].amount \in Nat
      /\ Amounts[id] = trade[c].amount
      /\ id \notin succeeded
  <2>1. Tx(id).kind = "approve"
    BY DEF MineApproval
  <2> QED
    BY <2>1, SubmittedIsPlanned, SwapIsLast, Calls0 DEF Transaction, IndInv, MinedOnce
<1>2. /\ succeeded' = succeeded \cup {id}
      /\ UNCHANGED <<trade, plan, before, taken>>
      /\ Mined(id, TRUE)
  BY DEF MineApproval, Mined
<1>3. /\ allowance \in [Spenders -> Nat] /\ taken \in [Spenders -> Nat]
      /\ before \in [Spenders -> Nat]
  BY ConstantsAssumption DEF IndInv, TypeOK
<1>4. /\ allowance' \in [Spenders -> Nat]
      /\ \A s \in Spenders :
           allowance'[s] = IF s = t THEN Tx(id).amount ELSE allowance[s]
  <2>1. allowance' = [allowance EXCEPT ![t] = Tx(id).amount]
    BY DEF MineApproval
  <2> HIDE DEF t
  <2> QED
    BY <1>1, <1>3, <2>1
<1>5. TypeOK' /\ CallsInOrder' /\ MinedOnce' /\ PlansKept' /\ PaidOnce'
  BY <1>2, <1>3, <1>4, MinedKeeps
<1>6. AllowanceBounded'
  BY <1>1, <1>2, <1>4 DEF IndInv, AllowanceBounded
<1>7. TakenWithinApprovals'
  <2>1. Amounts' = Amounts /\ \A x : Tx(x)' = Tx(x)
    BY <1>2 DEF Amounts, Tx
  <2> SUFFICES ASSUME NEW s \in Spenders
               PROVE  taken'[s] + allowance'[s]
                        <= before[s] + SumFunctionOnSet(Amounts, Approvals(s)')
    BY <1>2, <2>1 DEF TakenWithinApprovals
  <2>2. /\ taken[s] + allowance[s] <= before[s] + SumFunctionOnSet(Amounts, Approvals(s))
        /\ taken[s] \in Nat /\ allowance[s] \in Nat /\ before[s] \in Nat
    BY <1>3 DEF IndInv, TakenWithinApprovals
  <2>3. CASE s # t
    <3>1. Approvals(s)' = Approvals(s)
      BY <1>2, <2>1, <2>3 DEF Approvals
    <3> QED
      BY <1>2, <1>4, <2>2, <2>3, <3>1
  <2>4. CASE s = t
    <3> DEFINE A == Approvals(s)
    <3>1. Approvals(s)' = A \cup {id} /\ id \notin A
      BY <1>1, <1>2, <2>1, <2>4 DEF Approvals, MineApproval
    <3>2. A \subseteq succeeded /\ IsFiniteSet(A) /\ IsFiniteSet(A \cup {id})
      BY FS_Subset, FS_AddElement DEF Approvals, IndInv, MinedOnce
    <3>3. \A x \in A \cup {id} : Amounts[x] \in Nat
      BY <3>2, SubmittedIsPlanned
    <3> HIDE DEF A
    <3>4. (A \cup {id}) \ {id} = A
      BY <3>1
    <3>5. SumFunctionOnSet(Amounts, A \cup {id}) = Amounts[id] + SumFunctionOnSet(Amounts, A)
      BY <3>2, <3>3, <3>4, SumRemove
    <3>6. SumFunctionOnSet(Amounts, A) \in Nat
      BY <3>2, <3>3, SumNat
    <3> QED
      BY <1>1, <1>2, <1>4, <2>2, <2>4, <3>1, <3>5, <3>6 DEF A
  <2> QED
    BY <2>3, <2>4
<1> QED
  BY <1>5, <1>6, <1>7 DEF IndInv

\* Tokens move from what a spender may take to what it has taken.
LEMMA PullMoves ==
  ASSUME IndInv, NEW s \in Spenders, NEW n \in Nat, n <= allowance[s], Pull(s, n)
  PROVE  /\ allowance' \in [Spenders -> Nat] /\ taken' \in [Spenders -> Nat]
         /\ \A r \in Spenders : /\ allowance'[r] <= allowance[r]
                                /\ r # s => allowance'[r] = allowance[r]
                                /\ taken'[r] + allowance'[r] = taken[r] + allowance[r]
<1>1. allowance \in [Spenders -> Nat] /\ taken \in [Spenders -> Nat]
  BY DEF IndInv, TypeOK
<1>2. allowance[s] - n \in Nat /\ taken[s] + n \in Nat
  BY <1>1
<1>3. /\ allowance' = [allowance EXCEPT ![s] = allowance[s] - n]
      /\ taken' = [taken EXCEPT ![s] = taken[s] + n]
  BY DEF Pull
<1>4. allowance' \in [Spenders -> Nat] /\ taken' \in [Spenders -> Nat]
  BY <1>1, <1>2, <1>3
<1>5. ASSUME NEW r \in Spenders
      PROVE  /\ allowance'[r] <= allowance[r]
             /\ r # s => allowance'[r] = allowance[r]
             /\ taken'[r] + allowance'[r] = taken[r] + allowance[r]
  <2>1. /\ allowance'[r] = IF r = s THEN allowance[s] - n ELSE allowance[r]
        /\ taken'[r] = IF r = s THEN taken[s] + n ELSE taken[r]
        /\ allowance[r] \in Nat /\ taken[r] \in Nat
    BY <1>1, <1>3
  <2> QED
    BY <2>1
<1> QED
  BY <1>4, <1>5

LEMMA MineUniswapKeeps ==
  ASSUME IndInv, NEW id \in pending, MineUniswap(id)
  PROVE  IndInv'
<1> DEFINE t == trade[id[1]]
           need == IF t.input = "native" THEN 0 ELSE t.amount
<1>1. need \in Nat
  BY SubmittedIsPlanned, Calls0
<1>2. /\ need <= allowance["cswap"] /\ Pull("cswap", need)
      /\ Mined(id, TRUE) /\ Tx(id).kind # "approve"
      /\ "cswap" \in Spenders
  <2>1. allowance["cswap"] \in Nat /\ "cswap" \in Spenders
    BY DEF IndInv, TypeOK, Spenders
  <2> QED
    BY <1>1, <2>1 DEF MineUniswap
<1> HIDE DEF need
<1>3. /\ allowance' \in [Spenders -> Nat] /\ taken' \in [Spenders -> Nat]
      /\ \A r \in Spenders : /\ allowance'[r] <= allowance[r]
                             /\ taken'[r] + allowance'[r] = taken[r] + allowance[r]
  BY <1>1, <1>2, PullMoves
<1>4. TypeOK' /\ CallsInOrder' /\ MinedOnce' /\ PlansKept' /\ PaidOnce'
  BY <1>2, <1>3, MinedKeeps
<1>5. UNCHANGED <<trade, plan, before>> /\ succeeded' = succeeded \cup {id}
  BY <1>2 DEF Mined
<1>6. AllowanceBounded' /\ TakenWithinApprovals'
  BY <1>2, <1>3, <1>5, PullKeeps
<1> QED
  BY <1>4, <1>6 DEF IndInv

LEMMA MineRelayKeeps ==
  ASSUME IndInv, NEW id \in pending, MineRelay(id)
  PROVE  IndInv'
<1>1. /\ Mined(id, TRUE) /\ Tx(id).kind # "approve"
      /\ UNCHANGED <<trade, plan, before>> /\ succeeded' = succeeded \cup {id}
  BY DEF MineRelay, Mined
<1>2. PICK s \in Relays : \E n \in 0..allowance[s] : Pull(s, n)
  BY DEF MineRelay
<1>7. PICK n \in 0..allowance[s] : Pull(s, n)
  BY <1>2
<1>3. s \in Spenders /\ n \in Nat /\ n <= allowance[s]
  BY DEF Relays, Spenders, IndInv, TypeOK
<1>4. /\ allowance' \in [Spenders -> Nat] /\ taken' \in [Spenders -> Nat]
      /\ \A r \in Spenders : /\ allowance'[r] <= allowance[r]
                             /\ taken'[r] + allowance'[r] = taken[r] + allowance[r]
  BY <1>7, <1>3, PullMoves
<1>5. TypeOK' /\ CallsInOrder' /\ MinedOnce' /\ PlansKept' /\ PaidOnce'
  BY <1>1, <1>4, MinedKeeps
<1>6. AllowanceBounded' /\ TakenWithinApprovals'
  BY <1>1, <1>4, PullKeeps
<1> QED
  BY <1>5, <1>6 DEF IndInv

LEMMA MineRevertsKeeps ==
  ASSUME IndInv, NEW id \in pending, MineReverts(id)
  PROVE  IndInv'
<1>1. /\ Mined(id, FALSE) /\ UNCHANGED <<allowance, taken>>
      /\ UNCHANGED <<trade, plan, before>> /\ succeeded' = succeeded
  BY DEF MineReverts, Mined
<1>2. /\ allowance' \in [Spenders -> Nat] /\ taken' \in [Spenders -> Nat]
      /\ \A r \in Spenders : /\ allowance'[r] <= allowance[r]
                             /\ taken'[r] + allowance'[r] = taken[r] + allowance[r]
  BY <1>1 DEF IndInv, TypeOK
<1>3. TypeOK' /\ CallsInOrder' /\ MinedOnce' /\ PlansKept' /\ PaidOnce'
  BY <1>1, <1>2, MinedKeeps
<1>4. AllowanceBounded' /\ TakenWithinApprovals'
  BY <1>1, <1>2, PullKeeps
<1> QED
  BY <1>3, <1>4 DEF IndInv

LEMMA ConfirmKeeps ==
  ASSUME IndInv, NEW c \in Calls, Confirm(c) \/ TimesOut(c)
  PROVE  IndInv'
<1> DEFINE s == pc'[c]
<1>1. pc \in [Calls -> {"idle", "ready", "wait", "ok", "error"}]
      /\ overlapped \in BOOLEAN
  BY DEF IndInv, TypeOK
<1>2. /\ s \in {"ok", "error"} \/ (s = "ready" /\ <<c, sent[c]>> \in succeeded)
      /\ pc' = [pc EXCEPT ![c] = s]
  <2>1. CASE Confirm(c) /\ <<c, sent[c]>> \in succeeded
             /\ pc' = [pc EXCEPT ![c] = IF sent[c] = Len(plan[c]) THEN "ok" ELSE "ready"]
    BY <1>1, <2>1
  <2>2. CASE pc' = [pc EXCEPT ![c] = "error"]
    <3>1. s = "error"
      BY <1>1, <2>2
    <3> HIDE DEF s
    <3> QED
      BY <2>2, <3>1
  <2> QED
    BY <2>1, <2>2 DEF Confirm, TimesOut
<1> HIDE DEF s
<1>3. /\ pc' \in [Calls -> {"idle", "ready", "wait", "ok", "error"}]
      /\ \A d \in Calls : d # c => pc'[d] = pc[d]
  BY <1>1, <1>2
<1>4. UNCHANGED <<trade, response, plan, sent, pending, chainVars, overlapped>>
  BY DEF Confirm, TimesOut
<1> QED
  BY <1>1, <1>2, <1>3, <1>4, ControlKeeps DEF s

LEMMA FailsKeeps ==
  ASSUME IndInv, NEW c \in Calls, Fails(c)
  PROVE  IndInv'
<1>1. CASE UNCHANGED <<sent, pending>>
  <2>1. pc \in [Calls -> {"idle", "ready", "wait", "ok", "error"}]
        /\ overlapped \in BOOLEAN
    BY DEF IndInv, TypeOK
  <2>2. pc' = [pc EXCEPT ![c] = "error"]
        /\ UNCHANGED <<trade, response, plan, chainVars, overlapped>>
    BY DEF Fails
  <2> QED
    BY <1>1, <2>1, <2>2, ControlKeeps
<1>2. CASE /\ pending' = pending \cup {<<c, sent[c] + 1>>}
           /\ sent' = [sent EXCEPT ![c] = @ + 1]
  BY <1>2, SubmissionKeeps DEF Fails
<1> QED
  BY <1>1, <1>2 DEF Fails

LEMMA StutterKeeps == ASSUME IndInv, UNCHANGED vars PROVE IndInv'
<1>1. UNCHANGED <<trade, response, plan, sent, pending, chainVars, pc, overlapped>>
  BY DEF vars, chainVars
<1>2. overlapped \in BOOLEAN /\ pc \in [Calls -> {"idle", "ready", "wait", "ok", "error"}]
  BY DEF IndInv, TypeOK
<1> QED
  BY <1>1, <1>2, ControlKeeps

LEMMA NextKeeps == IndInv /\ [Next]_vars => IndInv'
<1> SUFFICES ASSUME IndInv, [Next]_vars PROVE IndInv'
  OBVIOUS
<1>1. CASE \E c \in Calls : Prepare(c)
  BY <1>1, PrepareKeeps
<1>2. CASE \E c \in Calls : Submit(c)
  BY <1>2, SubmissionKeeps DEF Submit
<1>3. CASE \E c \in Calls : Fails(c)
  BY <1>3, FailsKeeps
<1>4. CASE \E c \in Calls : Confirm(c) \/ TimesOut(c)
  BY <1>4, ConfirmKeeps
<1>5. CASE \E id \in pending : MineApproval(id)
  BY <1>5, MineApprovalKeeps
<1>6. CASE \E id \in pending : MineUniswap(id)
  BY <1>6, MineUniswapKeeps
<1>7. CASE \E id \in pending : MineRelay(id)
  BY <1>7, MineRelayKeeps
<1>8. CASE \E id \in pending : MineReverts(id)
  BY <1>8, MineRevertsKeeps
<1>9. CASE UNCHANGED vars
  BY <1>9, StutterKeeps
<1> QED
  BY <1>1, <1>2, <1>3, <1>4, <1>5, <1>6, <1>7, <1>8, <1>9 DEF Next

LEMMA Invariance == Spec => []IndInv
<1>1. Init => IndInv
  BY InitIndInv
<1>2. IndInv /\ [Next]_vars => IndInv'
  BY NextKeeps
<1> QED
  BY <1>1, <1>2, PTL DEF Spec

-----------------------------------------------------------------------------
(* What a wallet gives away. *)

\* The variables keep their types: amounts that are subtracted from an
\* allowance never take it below zero, and no plan runs past three transactions.
THEOREM TypeCorrect == Spec => []TypeOK
<1>1. IndInv => TypeOK
  BY DEF IndInv
<1> QED
  BY <1>1, Invariance, PTL

LEMMA WithinTradesHolds == IndInv => WithinTrades
<1> SUFFICES ASSUME IndInv PROVE EtherWithinTrade
  BY DEF IndInv, WithinTrades
<1> SUFFICES ASSUME NEW c \in Calls
             PROVE  paid[c] <= IF trade[c].input = "native" THEN trade[c].amount ELSE 0
  BY DEF EtherWithinTrade
<1>1. paid[c] = IF <<c, Len(plan[c])>> \in succeeded THEN Ether(trade[c]) ELSE 0
  BY DEF IndInv, PaidOnce
<1>2. trade[c].amount \in Nat
  BY Calls0
<1> QED
  BY <1>1, <1>2 DEF Ether

\* Whatever calls overlap, fail, time out or land late, and whatever Relay
\* answers and takes: no spender is left with an allowance larger than the
\* largest trade or the one from before, all that was and may be taken is
\* covered by the approvals that were mined, each worth one trade, and a call
\* pays at most the ether of its trade (validate_approval, bounded_approval_data,
\* validate_swap, prepare_swap of the Uniswap router).
THEOREM GivesNoMore == Spec => []WithinTrades
<1> QED
  BY Invariance, WithinTradesHolds, PTL

\* The transactions of a call land in the order they were planned in, because
\* execute_transactions waits for the success of one before it submits the next:
\* no swap is even in the pool before its approvals have succeeded.
THEOREM InOrder == Spec => []ApprovedFirst
<1>1. IndInv => ApprovedFirst
  <2> SUFFICES ASSUME IndInv, NEW id \in succeeded \cup reverted \cup pending,
                      NEW i \in 1..id[2] - 1
               PROVE  <<id[1], i>> \in succeeded
    BY DEF ApprovedFirst
  <2>1. /\ id[1] \in Calls /\ id[2] <= sent[id[1]] /\ id[2] \in 1..Len(plan[id[1]])
        /\ sent[id[1]] \in Nat /\ Len(plan[id[1]]) \in Nat
    BY SubmittedIsPlanned, Calls0
  <2>2. i \in 1..sent[id[1]] - 1
    BY <2>1
  <2> QED
    BY <2>1, <2>2 DEF IndInv, CallsInOrder
<1> QED
  BY <1>1, Invariance, PTL

-----------------------------------------------------------------------------
(* Sales that did not overlap another call. *)

\* A call that runs, or that may still land.
Live(c) == pc[c] \in {"ready", "wait"} \/ \E i \in 1..3 : <<c, i>> \in pending

Sale(c) ==
  trade[c].source = "Uniswap" /\ trade[c].input = "token" /\ plan[c] # <<>>

\* Its swap is next: not mined, and its approval, if it has one, is.
SwapDue(c) ==
  /\ Live(c) /\ Sale(c)
  /\ <<c, Len(plan[c])>> \notin succeeded \cup reverted
  /\ Len(plan[c]) = 2 => <<c, 1>> \in succeeded

\* Without overlaps one call at a time can move the allowance, and a sale that
\* is due has it.
Covered ==
  ~overlapped =>
    /\ \A c, d \in Calls : Live(c) /\ Live(d) => c = d
    /\ \A c \in Calls : SwapDue(c) => allowance["cswap"] >= trade[c].amount

LEMMA InitCovered == Init => Covered
BY DEF Init, Covered, Live, SwapDue

\* A step of a call that was live already, or that fails to prepare.
LEMMA CallKeepsCovered ==
  ASSUME IndInv, Covered, overlapped' = FALSE => overlapped = FALSE,
         overlapped' \in BOOLEAN,
         UNCHANGED <<trade, plan, chainVars>>,
         \A c \in Calls : Live(c)' => Live(c)
  PROVE  Covered'
<1>1. UNCHANGED <<succeeded, reverted, allowance>>
  BY DEF chainVars
<1>2. \A c \in Calls : SwapDue(c)' => SwapDue(c)
  BY <1>1 DEF SwapDue, Sale
<1>3. overlapped \in BOOLEAN
  BY DEF IndInv, TypeOK
<1> QED
  BY <1>1, <1>2, <1>3 DEF Covered

LEMMA PrepareKeepsCovered ==
  ASSUME IndInv, Covered, NEW c \in Calls, Prepare(c)
  PROVE  Covered'
<1>1. /\ overlapped' = (overlapped \/ ~Quiet(c)) /\ pc[c] = "idle"
      /\ overlapped \in BOOLEAN
      /\ UNCHANGED <<trade, pending, chainVars>>
      /\ pc \in [Calls -> {"idle", "ready", "wait", "ok", "error"}]
      /\ plan \in [Calls -> Seq(Transaction)]
  BY DEF Prepare, IndInv, TypeOK
<1>2. CASE pc' = [pc EXCEPT ![c] = "error"] /\ UNCHANGED plan
  <2>1. \A d \in Calls : Live(d)' => Live(d)
    BY <1>1, <1>2 DEF Live
  <2> QED
    BY <1>1, <1>2, <2>1, CallKeepsCovered
<1>3. CASE \E p : /\ plan' = [plan EXCEPT ![c] = p] /\ pc' = [pc EXCEPT ![c] = "ready"]
                  /\ trade[c].source = "Uniswap" => p = UniswapPlan(trade[c])
  <2> SUFFICES ASSUME ~overlapped'
               PROVE  /\ \A d, e \in Calls : Live(d)' /\ Live(e)' => d = e
                      /\ \A d \in Calls : SwapDue(d)' => allowance'["cswap"] >= trade'[d].amount
    BY DEF Covered
  <2>1. Quiet(c) /\ pending = {}
    BY <1>1 DEF Quiet
  <2> PICK p : /\ plan' = [plan EXCEPT ![c] = p] /\ pc' = [pc EXCEPT ![c] = "ready"]
               /\ trade[c].source = "Uniswap" => p = UniswapPlan(trade[c])
    BY <1>3
  <2>2. \A d \in Calls : Live(d)' => d = c
    <3>1. \A d \in Calls \ {c} : pc'[d] = pc[d] /\ pc[d] \notin {"ready", "wait"}
      BY <1>1, <2>1 DEF Quiet
    <3> QED
      BY <1>1, <2>1, <3>1 DEF Live
  <2>3. ASSUME SwapDue(c)' PROVE allowance'["cswap"] >= trade'[c].amount
    <3>1. /\ trade[c].source = "Uniswap" /\ trade[c].input = "token"
          /\ Len(plan'[c]) = 2 => <<c, 1>> \in succeeded
      BY <1>1, <2>3 DEF SwapDue, Sale, chainVars
    <3>2. plan'[c] = UniswapPlan(trade[c])
      BY <1>1, <3>1
    <3>3. <<c, 1>> \notin succeeded
      <4>1. plan[c] = <<>>
        BY <1>1, Calls0
      <4> QED
        BY <4>1, SubmittedIsPlanned
    <3>4. ~Short(trade[c])
      <4> SUFFICES ASSUME Short(trade[c]) PROVE Len(plan'[c]) = 2
        BY <3>1, <3>3
      <4>1. plan'[c] = <<Approval("cswap", trade[c].amount)>> \o <<SwapTx("cswap", 0)>>
        BY <3>1, <3>2 DEF UniswapPlan
      <4> QED
        BY <4>1
    <3>5. trade[c].amount \in Nat /\ allowance["cswap"] \in Nat
      BY Calls0 DEF IndInv, TypeOK, Spenders
    <3> QED
      BY <1>1, <3>4, <3>5 DEF Short, chainVars
  <2> QED
    BY <2>2, <2>3 DEF SwapDue
<1> QED
  <2>1. \/ /\ trade[c].source = "Uniswap"
           /\ plan' = [plan EXCEPT ![c] = UniswapPlan(trade[c])]
           /\ pc' = [pc EXCEPT ![c] = "ready"]
        \/ /\ trade[c].source = "Relay"
           /\ plan' = [plan EXCEPT ![c] = RelayPlan(trade[c], response[c])]
           /\ pc' = [pc EXCEPT ![c] = "ready"]
        \/ pc' = [pc EXCEPT ![c] = "error"] /\ UNCHANGED plan
    BY DEF Prepare
  <2>2. CASE /\ trade[c].source = "Uniswap"
             /\ plan' = [plan EXCEPT ![c] = UniswapPlan(trade[c])]
             /\ pc' = [pc EXCEPT ![c] = "ready"]
    BY <1>3, <2>2
  <2>3. CASE /\ trade[c].source = "Relay"
             /\ plan' = [plan EXCEPT ![c] = RelayPlan(trade[c], response[c])]
             /\ pc' = [pc EXCEPT ![c] = "ready"]
    BY <1>3, <2>3
  <2> QED
    BY <1>2, <2>1, <2>2, <2>3

\* A call that submits, fails, confirms or times out was live.
LEMMA ControlKeepsCovered ==
  ASSUME IndInv, Covered, NEW c \in Calls,
         Submit(c) \/ Fails(c) \/ Confirm(c) \/ TimesOut(c)
  PROVE  Covered'
<1>1. /\ Live(c)
      /\ UNCHANGED <<trade, plan, chainVars, overlapped>>
      /\ pending' = pending \/ pending' = pending \cup {<<c, sent[c] + 1>>}
      /\ \A d \in Calls \ {c} : pc'[d] = pc[d]
  BY DEF Submit, Fails, Confirm, TimesOut, Live, IndInv, TypeOK
<1>2. \A d \in Calls : Live(d)' => Live(d)
  BY <1>1 DEF Live
<1> QED
  BY <1>1, <1>2, CallKeepsCovered DEF IndInv, TypeOK

\* While one call is live, only its transactions are mined: its approval is what
\* the sale needs, and a swap or an approval that reverts ends it.
LEMMA MinedKeepsCovered ==
  ASSUME IndInv, Covered, NEW id \in pending,
         MineApproval(id) \/ MineUniswap(id) \/ MineRelay(id) \/ MineReverts(id)
  PROVE  Covered'
<1> DEFINE c == id[1]
           n == Len(plan[c])
<1>1. /\ c \in Calls /\ id = <<c, id[2]>> /\ id[2] \in 1..n /\ n \in Nat /\ n <= 3
      /\ Shaped(plan[c], trade[c]) /\ Tx(id) = plan[c][id[2]]
      /\ id \notin succeeded \cup reverted
  <2>1. id \notin succeeded \cup reverted
    BY DEF IndInv, MinedOnce
  <2>2. c \in Calls /\ id = <<c, id[2]>> /\ id[2] \in 1..n
        /\ Shaped(plan[c], trade[c]) /\ Tx(id) = plan[c][id[2]]
    BY SubmittedIsPlanned
  <2> QED
    BY <2>1, <2>2, Calls0
<1>2. PICK ok \in BOOLEAN : Mined(id, ok) /\ (ok = FALSE => MineReverts(id))
  BY DEF MineApproval, MineUniswap, MineRelay, MineReverts
<1>3. /\ pending' = pending \ {id}
      /\ succeeded' = IF ok THEN succeeded \cup {id} ELSE succeeded
      /\ reverted' = IF ok THEN reverted ELSE reverted \cup {id}
      /\ UNCHANGED <<trade, plan, pc, overlapped>>
  BY <1>2 DEF Mined
<1>4. \A d \in Calls : Live(d)' => Live(d)
  BY <1>3 DEF Live
<1>5. Live(c)
  <2>1. id[2] \in 1..3
    BY <1>1
  <2>2. <<c, id[2]>> \in pending
    BY <1>1
  <2> HIDE DEF c
  <2> QED
    BY <2>1, <2>2 DEF Live
<1> SUFFICES ASSUME ~overlapped, NEW d \in Calls, SwapDue(d)'
             PROVE  allowance'["cswap"] >= trade[d].amount
  BY <1>3, <1>4 DEF Covered
<1>6. d = c /\ trade[c].source = "Uniswap"
  <2>1. Live(d) /\ trade[d].source = "Uniswap"
    BY <1>3, <1>4 DEF SwapDue, Sale
  <2>2. \A x, y \in Calls : Live(x) /\ Live(y) => x = y
    BY DEF Covered
  <2> HIDE DEF c
  <2> QED
    BY <1>1, <1>5, <2>1, <2>2
<1>7. id[2] # n
  <2> SUFFICES ASSUME id[2] = n PROVE FALSE
    OBVIOUS
  <2>1. <<c, n>> \in succeeded' \cup reverted'
    BY <1>1, <1>3
  <2> QED
    BY <1>3, <1>6, <2>1 DEF SwapDue
<1>8. n = 2 /\ id[2] = 1 /\ plan[c][1] = Approval("cswap", trade[c].amount)
  BY <1>1, <1>6, <1>7 DEF Shaped
<1>9. id \in succeeded'
  <2>1. Len(plan'[d]) = 2 /\ id = <<d, 1>>
    BY <1>1, <1>3, <1>6, <1>8
  <2> QED
    BY <2>1 DEF SwapDue
<1>10. MineApproval(id)
  <2>1. Tx(id).kind = "approve"
    BY <1>1, <1>8 DEF Approval
  <2>2. ~MineReverts(id)
    BY <1>1, <1>9 DEF MineReverts, Mined
  <2> QED
    BY <2>1, <2>2 DEF MineUniswap, MineRelay
<1>11. allowance' = [allowance EXCEPT !["cswap"] = trade[c].amount]
  <2>1. Tx(id).to = "cswap" /\ Tx(id).amount = trade[c].amount
    BY <1>1, <1>8 DEF Approval
  <2> QED
    BY <1>10, <2>1, Zenon DEF MineApproval
<1>12. allowance'["cswap"] = trade[c].amount
  BY <1>11 DEF IndInv, TypeOK, Spenders
<1> QED
  BY <1>6, <1>12, Calls0

\* A sale whose call overlapped no other, and started with nothing in doubt,
\* finds the allowance that prepare_swap read or approved: its swap does not
\* revert for want of one.
THEOREM SalesFindAllowance == Spec => []SalesCovered
<1>1. Init => Covered
  BY InitCovered
<1>2. IndInv /\ Covered /\ [Next]_vars => Covered'
  <2> SUFFICES ASSUME IndInv, Covered, [Next]_vars PROVE Covered'
    OBVIOUS
  <2>1. CASE \E c \in Calls : Prepare(c)
    BY <2>1, PrepareKeepsCovered
  <2>2. CASE \E c \in Calls : Submit(c) \/ Fails(c) \/ Confirm(c) \/ TimesOut(c)
    BY <2>2, ControlKeepsCovered
  <2>3. CASE \E id \in pending : \/ MineApproval(id) \/ MineUniswap(id)
                               \/ MineRelay(id) \/ MineReverts(id)
    BY <2>3, MinedKeepsCovered
  <2>4. CASE UNCHANGED vars
    <3>1. UNCHANGED <<trade, plan, chainVars, overlapped, pc, pending>>
      BY <2>4 DEF vars, chainVars
    <3> QED
      BY <3>1, CallKeepsCovered DEF Live, IndInv, TypeOK
  <2> QED
    BY <2>1, <2>2, <2>3, <2>4 DEF Next
<1>3. IndInv /\ Covered => SalesCovered
  <2> SUFFICES ASSUME IndInv, Covered, ~overlapped, NEW id \in pending,
                      Tx(id).kind = "swap", Tx(id).to = "cswap",
                      trade[id[1]].input = "token"
               PROVE  allowance["cswap"] >= trade[id[1]].amount
    BY DEF SalesCovered
  <2> DEFINE c == id[1]
             n == Len(plan[c])
  <2>1. /\ c \in Calls /\ id = <<c, n>> /\ n \in 1..n /\ n \in Nat /\ n <= 3
        /\ plan[c] # <<>> /\ Shaped(plan[c], trade[c]) /\ Tx(id) = plan[c][n]
        /\ id \notin succeeded \cup reverted
    <3>1. /\ c \in Calls /\ id = <<c, id[2]>> /\ id[2] \in 1..n /\ plan[c] # <<>>
          /\ Shaped(plan[c], trade[c]) /\ Tx(id) = plan[c][id[2]]
      BY SubmittedIsPlanned
    <3>2. id[2] = n
      BY SwapIsLast
    <3>3. id \notin succeeded \cup reverted
      BY DEF IndInv, MinedOnce
    <3>4. n \in Nat /\ n <= 3
      BY <3>1, Calls0
    <3> HIDE DEF c, n
    <3> QED
      BY <3>1, <3>2, <3>3, <3>4
  <2>2. trade[c].source = "Uniswap"
    BY <2>1, Calls0 DEF Shaped, Relays, Trade
  <2>3. n = 2 => <<c, 1>> \in succeeded
    <3> SUFFICES ASSUME n = 2 PROVE <<c, 1>> \in succeeded
      OBVIOUS
    <3>1. id[2] = 2 /\ id[2] <= sent[c] /\ sent[c] \in Nat
      BY <2>1, SubmittedIsPlanned, Calls0
    <3>2. 1 \in 1..sent[c] - 1
      BY <3>1
    <3> QED
      BY <2>1, <3>2 DEF IndInv, CallsInOrder
  <2>4. SwapDue(c)
    <3>1. Live(c)
      <4>1. n \in 1..3 /\ <<c, n>> \in pending
        <5> HIDE DEF c, n
        <5> QED
          BY <2>1
      <4> QED
        BY <4>1 DEF Live
    <3> QED
      BY <2>1, <2>2, <2>3, <3>1 DEF SwapDue, Sale
  <2> QED
    BY <2>1, <2>4 DEF Covered
<1> QED
  BY <1>1, <1>2, <1>3, Invariance, PTL DEF Spec
=============================================================================
