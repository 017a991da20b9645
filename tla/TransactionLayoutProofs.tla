----------------------- MODULE TransactionLayoutProofs -----------------------
(***************************************************************************)
(* Proofs about TransactionLayout, for any responses, fees, limits and     *)
(* simulated units: the sponsorship charge is written into the reserved    *)
(* transfer and nowhere else, the message carries the compute budget that  *)
(* was asked for, and a sponsored V1 swap spends none of the user's SOL.   *)
(*                                                                         *)
(* The first lemmas are about the lists that Sublists keeps, as they are   *)
(* in SharedLookupTablesProofs.                                            *)
(***************************************************************************)
EXTENDS TransactionLayout, FiniteSetTheorems, SequenceTheorems, TLAPS

-----------------------------------------------------------------------------
(* Lists without some of their elements. *)

\* The positions in I are numbered in their order.
LEMMA Ranks ==
  ASSUME NEW n \in Nat, NEW I, I \subseteq 1..n
  PROVE  /\ IsFiniteSet(I) /\ Cardinality(I) \in Nat
         /\ \A p \in I : Rank(I, p) \in 1..Cardinality(I)
         /\ \A p, q \in I : p < q => Rank(I, p) < Rank(I, q)
         /\ \A j \in 1..Cardinality(I) : \E p \in I : Rank(I, p) = j
<1> DEFINE Upto(p) == {q \in I : q <= p}
           c == Cardinality(I)
<1>1. IsFiniteSet(I) /\ c \in Nat /\ \A p \in I : p \in Nat
  <2>1. IsFiniteSet(1..n) /\ I \in SUBSET (1..n)
    BY FS_Interval
  <2>2. IsFiniteSet(I)
    BY <2>1, FS_Subset
  <2> QED
    BY <2>1, <2>2, FS_CardinalityType
<1>2. \A p : /\ Upto(p) \subseteq I /\ IsFiniteSet(Upto(p))
             /\ Cardinality(Upto(p)) \in Nat /\ Cardinality(Upto(p)) <= c
             /\ Rank(I, p) = Cardinality(Upto(p))
  <2> SUFFICES ASSUME NEW p
               PROVE  /\ Upto(p) \subseteq I /\ IsFiniteSet(Upto(p))
                      /\ Cardinality(Upto(p)) \in Nat /\ Cardinality(Upto(p)) <= c
                      /\ Rank(I, p) = Cardinality(Upto(p))
    OBVIOUS
  <2>1. Upto(p) \in SUBSET I /\ Rank(I, p) = Cardinality(Upto(p))
    BY DEF Rank
  <2> HIDE DEF Upto
  <2> QED
    BY <1>1, <2>1, FS_Subset, FS_CardinalityType
<1>3. \A p \in I : p \in Upto(p)
  BY <1>1
<1>4. \A p, q \in I : p < q => Upto(p) \in SUBSET Upto(q) /\ q \notin Upto(p)
  <2> SUFFICES ASSUME NEW p \in I, NEW q \in I, p < q
               PROVE  Upto(p) \in SUBSET Upto(q) /\ q \notin Upto(p)
    OBVIOUS
  <2>1. ASSUME NEW r \in Upto(p) PROVE r \in Upto(q)
    BY <1>1
  <2>2. q \notin Upto(p)
    BY <1>1
  <2> HIDE DEF Upto
  <2> QED
    BY <2>1, <2>2
<1> HIDE DEF Upto
<1>5. \A p \in I : Rank(I, p) \in 1..c
  <2> SUFFICES ASSUME NEW p \in I PROVE Rank(I, p) \in 1..c
    OBVIOUS
  <2>1. Cardinality(Upto(p)) # 0
    BY <1>2, <1>3, FS_EmptySet
  <2> HIDE DEF c
  <2> QED
    BY <1>1, <1>2, <2>1
<1>6. \A p, q \in I : p < q => Rank(I, p) < Rank(I, q)
  <2> SUFFICES ASSUME NEW p \in I, NEW q \in I, p < q
               PROVE  Rank(I, p) < Rank(I, q)
    OBVIOUS
  <2>1. Upto(p) \in SUBSET Upto(q) /\ Upto(p) # Upto(q)
    BY <1>3, <1>4
  <2>2. /\ Cardinality(Upto(p)) <= Cardinality(Upto(q))
        /\ Cardinality(Upto(q)) # Cardinality(Upto(p))
    BY <1>2, <2>1, FS_Subset
  <2> QED
    BY <1>2, <2>2
<1>7. \A j \in 1..c : \E p \in I : Rank(I, p) = j
  <2> DEFINE f == [p \in I |-> Rank(I, p)]
  <2>1. f \in Injection(I, 1..c)
    <3>1. f \in [I -> 1..c]
      BY <1>5
    <3>2. \A p, q \in I : p < q \/ q < p \/ p = q
      BY <1>1
    <3>3. ASSUME NEW p \in I, NEW q \in I, f[p] = f[q] PROVE p = q
      BY <1>2, <1>6, <3>2, <3>3
    <3> QED
      BY <3>1, <3>3 DEF Injection, IsInjective
  <2>2. IsFiniteSet(1..c) /\ Cardinality(1..c) = c
    <3> HIDE DEF c
    <3> QED
      BY <1>1, FS_Interval
  <2>3. f \in Surjection(I, 1..c)
    <3> HIDE DEF f
    <3> QED
      BY <2>1, <2>2, FS_Injection
  <2> QED
    BY <2>3 DEF Surjection
<1> QED
  BY <1>1, <1>5, <1>6, <1>7

\* Where the j-th element kept comes from.
Place(I, j) == CHOOSE p \in I : Rank(I, p) = j

LEMMA KeptPlaces ==
  ASSUME NEW S, NEW s \in Seq(S), NEW I, I \subseteq 1..Len(s)
  PROVE  /\ IsFiniteSet(I) /\ Cardinality(I) \in Nat
         /\ Kept(s, I) \in Seq(S) /\ Len(Kept(s, I)) = Cardinality(I)
         /\ \A j \in 1..Cardinality(I) :
              /\ Place(I, j) \in I /\ Rank(I, Place(I, j)) = j
              /\ Kept(s, I)[j] = s[Place(I, j)]
         /\ \A p \in I : /\ Rank(I, p) \in 1..Cardinality(I)
                         /\ Place(I, Rank(I, p)) = p
<1>1. Len(s) \in Nat /\ \A p \in 1..Len(s) : s[p] \in S
  OBVIOUS
<1>2. /\ IsFiniteSet(I) /\ Cardinality(I) \in Nat
      /\ \A p \in I : Rank(I, p) \in 1..Cardinality(I)
      /\ \A p, q \in I : p < q => Rank(I, p) < Rank(I, q)
      /\ \A j \in 1..Cardinality(I) : \E p \in I : Rank(I, p) = j
  BY <1>1, Ranks
<1>3. \A j \in 1..Cardinality(I) : Place(I, j) \in I /\ Rank(I, Place(I, j)) = j
  BY <1>2 DEF Place
<1>4. ASSUME NEW p \in I, NEW q \in I, Rank(I, p) = Rank(I, q) PROVE p = q
  <2>1. p \in Nat /\ q \in Nat
    BY <1>1
  <2> QED
    BY <1>2, <1>4, <2>1
<1>5. Kept(s, I) = [j \in 1..Cardinality(I) |-> s[Place(I, j)]]
  BY DEF Kept, Place
<1>6. Kept(s, I) \in Seq(S) /\ Len(Kept(s, I)) = Cardinality(I)
  <2> DEFINE c == Cardinality(I)
             k == [j \in 1..c |-> s[Place(I, j)]]
  <2>1. k \in [1..c -> S] /\ c \in Nat
    BY <1>1, <1>2, <1>3
  <2> HIDE DEF k
  <2>2. k \in Seq(S) /\ Len(k) = c
    <3> HIDE DEF c
    <3> QED
      BY <2>1
  <2> QED
    BY <1>5, <2>2 DEF k
<1> QED
  BY <1>2, <1>3, <1>4, <1>5, <1>6

LEMMA ListOf ==
  ASSUME NEW S, NEW n \in Nat, NEW f \in [1..n -> S]
  PROVE  f \in Seq(S) /\ Len(f) = n /\ DOMAIN f = 1..n
OBVIOUS

LEMMA Joined ==
  ASSUME NEW S, NEW s \in Seq(S), NEW t \in Seq(S)
  PROVE  s \o t \in Seq(S) /\ Len(s \o t) = Len(s) + Len(t)
OBVIOUS

\* A list without some kinds: what stays, and where it comes from.
LEMMA WithoutIs ==
  ASSUME NEW s \in Seq(Instruction), NEW kinds,
         NEW T, \A i \in 1..Len(s) : s[i].kind \notin kinds => s[i] \in T
  PROVE  LET I == {i \in DOMAIN s : s[i].kind \notin kinds}
             w == Without(s, kinds)
         IN  /\ w \in Seq(T) /\ Len(w) = Cardinality(I) /\ Cardinality(I) \in Nat
             /\ IsFiniteSet(I) /\ I \subseteq 1..Len(s)
             /\ \A j \in 1..Cardinality(I) :
                  Place(I, j) \in I /\ Rank(I, Place(I, j)) = j /\ w[j] = s[Place(I, j)]
             /\ \A p \in I : Rank(I, p) \in 1..Cardinality(I) /\ Place(I, Rank(I, p)) = p
<1> DEFINE I == {i \in DOMAIN s : s[i].kind \notin kinds}
           w == Without(s, kinds)
<1>1. I \subseteq 1..Len(s) /\ Len(s) \in Nat /\ \A i \in I : s[i] \in T
  OBVIOUS
<1>2. w = Kept(s, I)
  BY DEF Without
<1> HIDE DEF I, w
<1>3. /\ IsFiniteSet(I) /\ Cardinality(I) \in Nat
      /\ Kept(s, I) \in Seq(Instruction) /\ Len(Kept(s, I)) = Cardinality(I)
      /\ \A j \in 1..Cardinality(I) :
           /\ Place(I, j) \in I /\ Rank(I, Place(I, j)) = j
           /\ Kept(s, I)[j] = s[Place(I, j)]
      /\ \A p \in I : /\ Rank(I, p) \in 1..Cardinality(I)
                      /\ Place(I, Rank(I, p)) = p
  <2>1. I \subseteq 1..Len(s)
    BY <1>1
  <2> QED
    BY <2>1, KeptPlaces, Zenon
<1>4. w \in Seq(T) /\ Len(w) = Cardinality(I)
  <2> DEFINE c == Cardinality(I)
  <2>1. c \in Nat /\ DOMAIN w = 1..c /\ w = [j \in 1..c |-> w[j]]
    BY <1>2, <1>3
  <2>2. \A j \in 1..c : w[j] \in T
    BY <1>1, <1>2, <1>3
  <2> HIDE DEF c
  <2>3. w \in [1..c -> T]
    BY <2>1, <2>2
  <2>4. w \in Seq(T) /\ Len(w) = c
    BY <2>1, <2>3, ListOf
  <2> QED
    BY <2>4 DEF c
<1> QED
  BY <1>1, <1>2, <1>3, <1>4 DEF I, w

\* The last element that can stay is the last that does.
LEMMA LastRank ==
  ASSUME NEW n \in Nat, NEW I, I \subseteq 1..n, n \in I
  PROVE  Rank(I, n) = Cardinality(I)
<1>1. \A q \in I : q <= n
  OBVIOUS
<1>2. {q \in I : q <= n} = I
  BY <1>1, Zenon
<1> QED
  BY <1>2 DEF Rank

-----------------------------------------------------------------------------
(* The inductive invariant. *)

SpendsUserSol(ix) ==
  ix.kind \in SolSpenders /\ ix.value > 0 /\ "wallet" \in ix.signers

\* What the route may hold: no tip yet, and nothing in a sponsored V1 route that
\* is paid from the user's SOL.
Allowed ==
  {ix \in Instruction :
     /\ ix.kind # "Tip"
     /\ request.sponsored /\ IsV1 => ~SpendsUserSol(ix)}

Provided == {ix \in Allowed : ix.kind # "Reimburse"}

\* The reimbursement is the last instruction of a sponsored route, and no other
\* is one.
Reserved ==
  /\ \A i \in DOMAIN route : route[i].kind = "Reimburse" =>
       request.sponsored /\ i = Len(route)
  /\ request.sponsored =>
       Len(route) > 0 /\ route[Len(route)] = Ix("Reimburse", Ceiling, {"wallet"})

RouteInv ==
  /\ stage = "routed" => route \in Seq(Provided)
  /\ stage \in {"prepared", "built", "final"} => route \in Seq(Allowed) /\ Reserved

\* The index was computed from the same route as the message, and only the
\* charge was written since.
BuiltInv ==
  stage \in {"built", "final"} =>
    /\ BudgetValid /\ Simulates
    /\ \E units \in Units : header = Budget(CuLimit(units))
    /\ built = Compiled(header) /\ index = LastCompiledIndex
    /\ message = IF stage = "final" /\ request.sponsored
                   THEN [built EXCEPT ![index].value = charge] ELSE built

IndInv == TypeOK /\ RouteInv /\ BuiltInv

LEMMA InitIndInv == Init => IndInv
<1> SUFFICES ASSUME Init PROVE IndInv
  OBVIOUS
<1>1. \A S : <<>> \in Seq(S)
  OBVIOUS
<1>2. NoHeader \in Header
  BY ConstantsAssumption DEF NoHeader, Header
<1> QED
  BY <1>1, <1>2 DEF Init, IndInv, TypeOK, RouteInv, BuiltInv

-----------------------------------------------------------------------------
(* The route. *)

LEMMA RequestIs ==
  ASSUME request \in Request
  PROVE  /\ request.source \in Sources /\ request.sponsored \in BOOLEAN
         /\ request.usdc \in BOOLEAN /\ request.sdkFee \in Nat
         /\ request.providerFee \in BOOLEAN /\ request.tip \in BOOLEAN
         /\ request.priority \in Nat
         /\ request.sponsored => request.usdc
BY ConstantsAssumption DEF Request

LEMMA IxIs ==
  ASSUME NEW kind \in Kinds, NEW value \in Nat, NEW signers \in SUBSET Parties
  PROVE  /\ Ix(kind, value, signers) \in Instruction
         /\ Ix(kind, value, signers).kind = kind
         /\ Ix(kind, value, signers).value = value
         /\ Ix(kind, value, signers).signers = signers
BY DEF Ix, Instruction

\* What the SDK puts in front of, behind or into a route.
LEMMA OwnInstructions ==
  ASSUME request \in Request
  PROVE  /\ \A v \in Nat \ {0} : /\ Ix("CuLimit", v, {}) \in Provided
                                 /\ Ix("Loaded", v, {}) \in Provided
                                 /\ Ix("Heap", v, {}) \in Provided
         /\ Ix("Ata", 1, {Payer}) \in Provided
         /\ \A v \in Nat : Ix("SdkUsdc", v, {"wallet"}) \in Provided
         /\ \A v \in Nat : ~request.sponsored => Ix("Transfer", v, {"wallet"}) \in Provided
         /\ Ix("Reimburse", Ceiling, {"wallet"}) \in Allowed
<1>1. {"CuLimit", "Loaded", "Heap", "Ata", "SdkUsdc", "Transfer", "Reimburse"} \subseteq Kinds
  BY DEF Kinds, BudgetKinds, UsdcTransfers, SolSpenders
<1>2. {} \in SUBSET Parties /\ {Payer} \in SUBSET Parties /\ {"wallet"} \in SUBSET Parties
  BY DEF Parties, Payer
<1>3. /\ "CuLimit" \notin SolSpenders /\ "Loaded" \notin SolSpenders
      /\ "Heap" \notin SolSpenders /\ "SdkUsdc" \notin SolSpenders
      /\ "Reimburse" \notin SolSpenders
  BY DEF SolSpenders
<1>4. request.sponsored => "wallet" \notin {Payer}
  BY DEF Payer
<1>5. \A v \in Nat \ {0} : /\ Ix("CuLimit", v, {}) \in Provided
                           /\ Ix("Loaded", v, {}) \in Provided
                           /\ Ix("Heap", v, {}) \in Provided
  BY <1>1, <1>2, <1>3, IxIs DEF Provided, Allowed, SpendsUserSol
<1>6. Ix("Ata", 1, {Payer}) \in Provided
  BY <1>1, <1>2, <1>4, IxIs DEF Provided, Allowed, SpendsUserSol
<1>7. /\ \A v \in Nat : Ix("SdkUsdc", v, {"wallet"}) \in Provided
      /\ \A v \in Nat : ~request.sponsored => Ix("Transfer", v, {"wallet"}) \in Provided
  BY <1>1, <1>2, <1>3, IxIs DEF Provided, Allowed, SpendsUserSol
<1>8. Ix("Reimburse", Ceiling, {"wallet"}) \in Allowed
  BY <1>1, <1>2, <1>3, ConstantsAssumption, IxIs DEF Allowed, SpendsUserSol
<1> QED
  BY <1>5, <1>6, <1>7, <1>8

LEMMA ResponseIs ==
  ASSUME response \in Response
  PROVE  /\ response.instructions \in Seq(Answered) /\ response.config \in Config
         /\ response.config.limit \in Nat /\ response.config.loaded \in Nat
         /\ response.config.heap \in Nat
BY ConstantsAssumption DEF Response, Config

LEMMA ConfigIxsAllowed ==
  ASSUME request \in Request, response \in Response, IsV1
  PROVE  ConfigIxs \in Seq(Provided)
<1> DEFINE One(kind, value) == IF value = 0 THEN <<>> ELSE <<Ix(kind, value, {})>>
           a == One("CuLimit", response.config.limit)
           b == One("Loaded", response.config.loaded)
           c == One("Heap", response.config.heap)
<1>1. ConfigIxs = a \o b \o c
  BY DEF ConfigIxs
<1>2. a \in Seq(Provided) /\ b \in Seq(Provided) /\ c \in Seq(Provided)
  BY OwnInstructions, ResponseIs
<1> HIDE DEF a, b, c
<1> QED
  BY <1>1, <1>2, Joined

LEMMA FeeSetupAllowed ==
  ASSUME request \in Request
  PROVE  FeeSetup \in Seq(Provided)
BY OwnInstructions DEF FeeSetup

\* What a provider may answer with, once the account creations are the
\* sponsor's, is allowed.
LEMMA MovedAllowed ==
  ASSUME request \in Request, NEW ix \in Answered, Movable(ix), IsV1
  PROVE  Moved(ix) \in Provided /\ Moved(ix) \in Instruction
<1>1. ix \in Instruction /\ ix.kind \in Kinds /\ ix.value \in Nat
      /\ ix.kind # "Tip" /\ ix.kind # "Reimburse"
  BY DEF Answered, Instruction, UsdcTransfers
<1>2. CASE request.sponsored /\ ix.kind = "Ata"
  <2>1. Moved(ix) = Ix("Ata", ix.value, {"sponsor"})
    BY <1>2 DEF Moved
  <2>2. "Ata" \in Kinds /\ {"sponsor"} \in SUBSET Parties
    BY DEF Kinds, SolSpenders, Parties
  <2> QED
    BY <1>1, <2>1, <2>2, IxIs DEF Provided, Allowed, SpendsUserSol
<1>3. CASE ~(request.sponsored /\ ix.kind = "Ata")
  <2>1. Moved(ix) = ix
    BY <1>3 DEF Moved
  <2>2. request.sponsored => ~SpendsUserSol(ix)
    BY <1>1, <1>3 DEF SpendsUserSol, SolSpenders, Movable
  <2> QED
    BY <1>1, <2>1, <2>2 DEF Provided, Allowed
<1> QED
  BY <1>2, <1>3

LEMMA MapMoved ==
  ASSUME request \in Request, response \in Response, IsV1,
         Every(response.instructions, Movable)
  PROVE  /\ Map(response.instructions, Moved) \in Seq(Provided)
         /\ Map(response.instructions, Moved) \in Seq(Instruction)
<1> DEFINE list == response.instructions
           n == Len(list)
           m == [i \in 1..n |-> Moved(list[i])]
<1>1. list \in Seq(Answered) /\ n \in Nat /\ DOMAIN list = 1..n
      /\ \A i \in 1..n : list[i] \in Answered
  <2>1. list \in Seq(Answered)
    BY ResponseIs
  <2> HIDE DEF list
  <2> QED
    BY <2>1
<1>2. \A i \in 1..n : Movable(list[i])
  BY <1>1 DEF Every
<1>3. Map(list, Moved) = m
  BY <1>1 DEF Map
<1> HIDE DEF list
<1>4. \A i \in 1..n : Moved(list[i]) \in Provided /\ Moved(list[i]) \in Instruction
  BY <1>1, <1>2, MovedAllowed
<1>5. m \in [1..n -> Provided] /\ m \in [1..n -> Instruction]
  BY <1>4
<1> HIDE DEF n, m
<1>6. m \in Seq(Provided) /\ m \in Seq(Instruction)
  BY <1>1, <1>5, ListOf
<1> QED
  BY <1>3, <1>6 DEF list

LEMMA AdaptedAllowed ==
  ASSUME TypeOK, Accepted
  PROVE  Adapted \in Seq(Provided)
<1>1. request \in Request /\ response \in Response /\ request.source \in Sources
  BY RequestIs DEF TypeOK
<1>2. FeeSetup \in Seq(Provided)
  BY <1>1, FeeSetupAllowed
<1> DEFINE list == response.instructions
<1>3. list \in Seq(Answered) /\ list \in Seq(Instruction)
      /\ \A i \in 1..Len(list) : list[i] \in Answered
  <2>1. list \in Seq(Answered) /\ Answered \subseteq Instruction
    BY <1>1, ResponseIs DEF Answered
  <2> HIDE DEF list
  <2> QED
    BY <2>1
<1>4. CASE request.source = "Bloxroute"
  <2>1. IsV1 /\ Every(response.instructions, Movable)
    BY <1>4 DEF IsV1, V1Sources, Accepted, BloxrouteAccepts
  <2>2. Adapted = ConfigIxs \o FeeSetup \o Map(response.instructions, Moved)
    BY <1>4 DEF Adapted, BloxrouteRoute
  <2>3. ConfigIxs \in Seq(Provided) /\ Map(response.instructions, Moved) \in Seq(Provided)
    BY <1>1, <2>1, ConfigIxsAllowed, MapMoved
  <2> QED
    BY <1>2, <2>2, <2>3, Joined
<1>5. CASE request.source = "Relay"
  <2> DEFINE m == Map(response.instructions, Moved)
  <2>1. IsV1 /\ Every(response.instructions, Movable)
    BY <1>5 DEF IsV1, V1Sources, Accepted, RelayAccepts, Every
  <2>2. Adapted = Retained(m) \o ConfigIxs
    BY <1>5 DEF Adapted, RelayRoute, RelayKept
  <2>3. /\ ConfigIxs \in Seq(Provided)
        /\ m \in Seq(Instruction) /\ m \in Seq(Provided)
    BY <1>1, <2>1, ConfigIxsAllowed, MapMoved
  <2> HIDE DEF m
  <2>4. \A i \in 1..Len(m) : m[i] \in Provided
    BY <2>3
  <2>5. Retained(m) \in Seq(Provided)
    BY <2>3, <2>4, WithoutIs DEF Retained
  <2> QED
    BY <2>2, <2>3, <2>5, Joined
<1>6. CASE request.source \notin {"Bloxroute", "Relay"}
  <2>1. ~IsV1
    BY <1>6 DEF IsV1, V1Sources
  <2>2. \A i \in 1..Len(list) : list[i] \in Provided
    BY <1>3, <2>1 DEF Answered, Provided, Allowed, UsdcTransfers
  <2>3. CASE request.source = "DFlow"
    <3>1. Adapted = FeeSetup \o Retained(list)
      BY <2>3 DEF Adapted, DFlowRoute
    <3> HIDE DEF list
    <3>2. Retained(list) \in Seq(Provided)
      BY <1>3, <2>2, WithoutIs DEF Retained
    <3> QED
      BY <1>2, <3>1, <3>2, Joined
  <2>4. CASE request.source = "Jupiter"
    <3>1. Adapted = list
      BY <2>4 DEF Adapted, JupiterRoute
    <3> HIDE DEF list
    <3>2. list \in Seq(Provided)
      BY <1>3, <2>2
    <3> QED
      BY <3>1, <3>2
  <2>5. CASE request.source = "Native"
    <3>1. Adapted = Without(list, BudgetKinds)
      BY <2>5 DEF Adapted, NativeRoute
    <3> HIDE DEF list
    <3> QED
      BY <1>3, <2>2, <3>1, WithoutIs
  <2>6. request.source \in {"DFlow", "Jupiter", "Native"}
    BY <1>1, <1>6 DEF Sources, FeeCollectors
  <2> QED
    BY <2>3, <2>4, <2>5, <2>6
<1> QED
  BY <1>4, <1>5, <1>6

LEMMA AdaptKeeps ==
  ASSUME IndInv, Adapt
  PROVE  IndInv'
<1>1. CASE stage' = "rejected"
  <2>1. UNCHANGED <<request, response, route, index, header, built, message, charge>>
    BY <1>1 DEF Adapt, Reject
  <2> QED
    BY <1>1, <2>1 DEF IndInv, TypeOK, RouteInv, BuiltInv
<1>2. CASE stage' # "rejected"
  <2>1. /\ Accepted /\ stage' = "routed" /\ route' = Adapted
        /\ UNCHANGED <<request, response, index, header, built, message, charge>>
    BY <1>2 DEF Adapt, Reject
  <2>2. route' \in Seq(Provided)
    BY <2>1, AdaptedAllowed DEF IndInv
  <2>3. Provided \subseteq Instruction /\ Provided' = Provided
    BY <2>1 DEF Provided, Allowed, IsV1
  <2>4. route' \in Seq(Instruction)
    BY <2>2, <2>3
  <2>5. TypeOK'
    BY <2>1, <2>4 DEF IndInv, TypeOK
  <2> QED
    BY <2>1, <2>2, <2>3, <2>5 DEF IndInv, RouteInv, BuiltInv
<1> QED
  BY <1>1, <1>2

LEMMA AppendFeesKeeps ==
  ASSUME IndInv, AppendFees
  PROVE  IndInv'
<1> DEFINE fees == IF request.sponsored THEN UsdcFee("Reimburse", Ceiling) ELSE <<>>
           rest == route \o SdkTransfer
<1>1. /\ stage = "routed" /\ stage' = "prepared"
      /\ route' = rest \o fees
      /\ UNCHANGED <<request, response, index, header, built, message, charge>>
  BY DEF AppendFees
<1>2. request \in Request /\ route \in Seq(Provided)
  BY <1>1 DEF IndInv, TypeOK, RouteInv
<1>3. SdkTransfer \in Seq(Provided)
  BY <1>2, OwnInstructions, RequestIs DEF SdkTransfer, UsdcFee
<1>4. rest \in Seq(Provided)
  BY <1>2, <1>3, Joined
<1>5. Provided \subseteq Allowed /\ Allowed \subseteq Instruction
  BY DEF Provided, Allowed
<1>6. Allowed' = Allowed
  BY <1>1 DEF Allowed, IsV1
<1>7. /\ route' \in Seq(Allowed)
      /\ \A i \in DOMAIN route' : route'[i].kind = "Reimburse" =>
           request.sponsored /\ i = Len(route')
      /\ request.sponsored =>
           Len(route') > 0 /\ route'[Len(route')] = Ix("Reimburse", Ceiling, {"wallet"})
  <2> HIDE DEF rest
  <2>1. /\ rest \in Seq(Allowed) /\ Len(rest) \in Nat /\ DOMAIN rest = 1..Len(rest)
        /\ \A i \in 1..Len(rest) : rest[i] \in Provided
    BY <1>4, <1>5
  <2>2. CASE ~request.sponsored
    <3>1. route' = rest
      BY <1>1, <2>1, <2>2
    <3> QED
      BY <2>1, <2>2, <3>1 DEF Provided
  <2>3. CASE request.sponsored
    <3> DEFINE ata == Ix("Ata", 1, {Payer})
               reimburse == Ix("Reimburse", Ceiling, {"wallet"})
    <3>1. route' = rest \o <<ata, reimburse>>
      BY <1>1, <2>3 DEF UsdcFee
    <3>2. ata \in Provided /\ ata \in Allowed /\ reimburse \in Allowed
      BY <1>2, <1>5, OwnInstructions
    <3>3. ata.kind # "Reimburse"
      BY <3>2 DEF Provided
    <3> HIDE DEF ata, reimburse
    <3>4. /\ route' \in Seq(Allowed) /\ Len(route') = Len(rest) + 2
          /\ DOMAIN route' = 1..(Len(rest) + 2)
          /\ \A i \in 1..Len(rest) : route'[i] = rest[i]
          /\ route'[Len(rest) + 1] = ata /\ route'[Len(rest) + 2] = reimburse
      BY <2>1, <3>1, <3>2
    <3>5. ASSUME NEW i \in 1..(Len(rest) + 2), route'[i].kind = "Reimburse"
          PROVE  i = Len(rest) + 2
      <4>1. i \notin 1..Len(rest)
        BY <2>1, <3>4, <3>5 DEF Provided
      <4>2. i # Len(rest) + 1
        BY <3>3, <3>4, <3>5
      <4> QED
        BY <2>1, <4>1, <4>2
    <3> QED
      BY <2>1, <2>3, <3>4, <3>5 DEF reimburse
  <2> QED
    BY <2>2, <2>3
<1>8. route' \in Seq(Instruction)
  BY <1>5, <1>7
<1>9. TypeOK'
  BY <1>1, <1>8 DEF IndInv, TypeOK
<1> QED
  BY <1>1, <1>6, <1>7, <1>9 DEF IndInv, RouteInv, BuiltInv, Reserved

-----------------------------------------------------------------------------
(* The budget. *)

\* What the route asks for is a number, and no more compute units than there
\* are.
LEMMA AskedIs ==
  ASSUME route \in Seq(Instruction), NEW kind
  PROVE  /\ Asked(kind) \in Nat
         /\ BudgetValid /\ kind = "CuLimit" => Asked(kind) <= CuMax
<1> DEFINE asking == {i \in DOMAIN route : route[i].kind = kind}
<1>1. CASE asking = {}
  BY <1>1, ConstantsAssumption DEF Asked
<1>2. CASE asking # {}
  <2>1. PICK i \in DOMAIN route : route[i].kind = kind /\ Asked(kind) = route[i].value
    <3> DEFINE i == CHOOSE i \in asking : TRUE
    <3>1. i \in asking
      BY <1>2
    <3>2. Asked(kind) = route[i].value
      BY <1>2 DEF Asked
    <3> HIDE DEF i
    <3> QED
      BY <3>1, <3>2
  <2>2. route[i] \in Instruction
    BY <2>1
  <2>3. route[i].value \in Nat
    BY <2>2 DEF Instruction
  <2>4. BudgetValid /\ kind = "CuLimit" => route[i].value \in 1..CuMax
    BY <2>1 DEF BudgetValid, Every, IsCuLimit
  <2> QED
    BY <2>1, <2>3, <2>4, ConstantsAssumption
<1> QED
  BY <1>1, <1>2

LEMMA CuLimitIs ==
  ASSUME route \in Seq(Instruction), BudgetValid, NEW units \in Units
  PROVE  CuLimit(units) \in 1..CuMax /\ CuLimit(units) >= Asked("CuLimit")
<1> DEFINE simulated == IF units = -1 THEN DefaultCu
                        ELSE Larger(1, Smaller(CuMax, (units * 12) \div 10))
<1>1. Asked("CuLimit") \in Nat /\ Asked("CuLimit") <= CuMax
  BY AskedIs
<1>2. simulated \in 1..CuMax
  <2>1. units = -1 \/ (units \in Nat /\ (units * 12) \div 10 \in Int)
    BY ConstantsAssumption
  <2> QED
    BY <2>1, ConstantsAssumption DEF Larger, Smaller
<1>3. CuLimit(units) = Larger(simulated, Asked("CuLimit"))
  BY DEF CuLimit
<1> HIDE DEF simulated
<1> QED
  BY <1>1, <1>2, <1>3, ConstantsAssumption DEF Larger

LEMMA Quotient ==
  ASSUME NEW a \in Nat, NEW d \in Nat, d > 0
  PROVE  a \div d \in Nat /\ d * (a \div d) <= a
BY Z3

LEMMA Rounded ==
  ASSUME NEW p \in Nat, NEW m \in Nat, m > 0, NEW x \in Nat, x <= p * m
  PROVE  (x + m - 1) \div m <= p
<1> DEFINE y == x + m - 1
           q == y \div m
<1>1. y \in Nat /\ y < p * m + m
  <2>1. p * m \in Nat
    OBVIOUS
  <2> QED
    BY <2>1
<1> HIDE DEF y
<1>2. q \in Nat /\ m * q <= y
  BY <1>1, Quotient
<1> HIDE DEF q
<1>3. m * q < p * m + m
  <2>1. m * q \in Nat /\ p * m \in Nat
    BY <1>2
  <2> QED
    BY <1>1, <1>2, <2>1
<1>4. q < p + 1
  BY <1>2, <1>3, Z3
<1> QED
  BY <1>2, <1>4 DEF q, y

\* The price per compute unit is rounded down, so that the whole fee, rounded up
\* to a lamport, is at most what was asked.
LEMMA PriceIs ==
  ASSUME request \in Request, NEW limit \in 1..CuMax
  PROVE  /\ CuPrice(limit) \in Nat
         /\ (limit * CuPrice(limit) + MicroPerLamport - 1) \div MicroPerLamport
              <= request.priority
<1>1. request.priority \in Nat /\ MicroPerLamport \in Nat /\ MicroPerLamport > 0
  BY RequestIs, ConstantsAssumption
<1>2. limit \in Nat /\ limit > 0
  BY ConstantsAssumption
<1> DEFINE a == request.priority * MicroPerLamport
           x == limit * CuPrice(limit)
<1>3. a \in Nat
  BY <1>1
<1>4. CuPrice(limit) = a \div limit
  BY DEF CuPrice
<1> HIDE DEF a
<1>5. CuPrice(limit) \in Nat /\ x <= a
  BY <1>2, <1>3, <1>4, Quotient
<1>6. x \in Nat
  BY <1>2, <1>5
<1> HIDE DEF x
<1>7. (x + MicroPerLamport - 1) \div MicroPerLamport <= request.priority
  BY <1>1, <1>5, <1>6, Rounded DEF a
<1> QED
  BY <1>5, <1>7 DEF x

LEMMA BudgetIs ==
  ASSUME request \in Request, route \in Seq(Instruction), NEW limit \in 1..CuMax
  PROVE  Budget(limit) \in Header
<1>1. /\ limit \in 0..CuMax /\ LoadedMax \in Nat
      /\ Asked("Loaded") \in Nat /\ Asked("Heap") \in Nat
      /\ request.priority \in Nat /\ CuPrice(limit) \in Nat
  BY AskedIs, RequestIs, PriceIs, ConstantsAssumption
<1> QED
  BY <1>1 DEF Budget, Header

-----------------------------------------------------------------------------
(* The message. *)

\* A V0 message has two instructions in front of the route's, a V1 message none;
\* the requests that its header or those two carry are left out of the route's.
Front   == IF IsV1 THEN 0 ELSE 2
Dropped == IF IsV1 THEN BudgetKinds ELSE {"CuLimit"}
Stays   == {i \in DOMAIN route : route[i].kind \notin Dropped}
Body    == Without(route, Dropped)

LEMMA BodyIs ==
  ASSUME route \in Seq(Instruction)
  PROVE  /\ Body \in Seq(Instruction) /\ Len(Body) = Cardinality(Stays)
         /\ Cardinality(Stays) \in Nat /\ Len(Body) \in Nat
         /\ IsFiniteSet(Stays) /\ Stays \subseteq 1..Len(route)
         /\ \A j \in 1..Len(Body) : /\ Place(Stays, j) \in Stays
                                    /\ Rank(Stays, Place(Stays, j)) = j
                                    /\ Body[j] = route[Place(Stays, j)]
         /\ \A p \in Stays : /\ Rank(Stays, p) \in 1..Len(Body)
                             /\ Body[Rank(Stays, p)] = route[p]
                             /\ Place(Stays, Rank(Stays, p)) = p
<1>1. \A i \in 1..Len(route) : route[i].kind \notin Dropped => route[i] \in Instruction
  OBVIOUS
<1>2. /\ Body \in Seq(Instruction) /\ Len(Body) = Cardinality(Stays)
      /\ Cardinality(Stays) \in Nat
      /\ IsFiniteSet(Stays) /\ Stays \subseteq 1..Len(route)
      /\ \A j \in 1..Cardinality(Stays) :
           /\ Place(Stays, j) \in Stays /\ Rank(Stays, Place(Stays, j)) = j
           /\ Body[j] = route[Place(Stays, j)]
      /\ \A p \in Stays : /\ Rank(Stays, p) \in 1..Cardinality(Stays)
                          /\ Place(Stays, Rank(Stays, p)) = p
  BY <1>1, WithoutIs, ZenonT(60) DEF Body, Stays
<1> QED
  BY <1>2

LEMMA CountsAre ==
  ASSUME route \in Seq(Instruction)
  PROVE  LastCompiledIndex = Front + Len(Body)
<1>1. CASE IsV1
  <2>1. Stays = {i \in DOMAIN route : ~IsBudget(route[i])}
    BY <1>1 DEF Stays, Dropped, IsBudget
  <2>2. LastCompiledIndex = Cardinality(Stays)
    BY <1>1, <2>1 DEF LastCompiledIndex, Count
  <2> QED
    BY <1>1, <2>2, BodyIs DEF Front
<1>2. CASE ~IsV1
  <2>1. Stays = {i \in DOMAIN route : ~IsCuLimit(route[i])}
    BY <1>2 DEF Stays, Dropped, IsCuLimit
  <2>2. LastCompiledIndex = Cardinality(Stays) + 2
    BY <1>2, <2>1 DEF LastCompiledIndex, Count
  <2> QED
    BY <1>2, <2>2, BodyIs DEF Front
<1> QED
  BY <1>1, <1>2

LEMMA OneMore ==
  ASSUME NEW S, NEW s \in Seq(S), NEW x \in S, NEW t, t = <<x>> \/ t = <<>>
  PROVE  /\ s \o t \in Seq(S) /\ Len(s \o t) \in Nat
         /\ Len(s) <= Len(s \o t) /\ Len(s \o t) <= Len(s) + 1
         /\ \A j \in 1..Len(s) : (s \o t)[j] = s[j]
         /\ Len(s \o t) = Len(s) + 1 => (s \o t)[Len(s) + 1] = x
<1>1. CASE t = <<x>>
  BY <1>1
<1>2. CASE t = <<>>
  BY <1>2
<1> QED
  BY <1>1, <1>2

\* What the message holds, position by position.
LEMMA CompiledIs ==
  ASSUME request \in Request, route \in Seq(Instruction), NEW h \in Header
  PROVE  LET m == Compiled(h)
         IN  /\ m \in Seq(Instruction) /\ Len(m) \in Nat
             /\ Front + Len(Body) <= Len(m)
             /\ \A j \in 1..Len(Body) : m[Front + j] = Body[j]
             /\ \A i \in 1..Len(m) : i > Front + Len(Body) => m[i] = Ix("Tip", 1, {Payer})
             /\ ~IsV1 => /\ m[1] = Ix("CuLimit", h.limit, {})
                         /\ m[2] = Ix("CuPrice", h.price, {})
<1> DEFINE m == Compiled(h)
<1>1. Body \in Seq(Instruction) /\ Len(Body) \in Nat
  BY BodyIs
<1>2. {"CuLimit", "CuPrice", "Tip"} \subseteq Kinds /\ {} \in SUBSET Parties
      /\ {Payer} \in SUBSET Parties
  BY DEF Kinds, BudgetKinds, SolSpenders, Parties, Payer
<1>3. h.limit \in Nat /\ h.price \in Nat
  BY ConstantsAssumption DEF Header
<1> DEFINE tip == Ix("Tip", 1, {Payer})
           limit == Ix("CuLimit", h.limit, {})
           price == Ix("CuPrice", h.price, {})
<1>4. tip \in Instruction /\ limit \in Instruction /\ price \in Instruction
  BY <1>2, <1>3, IxIs
<1>5. Tip = <<tip>> \/ Tip = <<>>
  BY DEF Tip
<1> HIDE DEF tip, limit, price
<1>6. CASE IsV1
  <2>1. m = Body \o Tip /\ Front = 0
    BY <1>6 DEF Compiled, Body, Dropped, Front
  <2> HIDE DEF m
  <2>2. /\ m \in Seq(Instruction) /\ Len(m) \in Nat /\ Len(Body) <= Len(m)
        /\ Len(m) <= Len(Body) + 1
        /\ \A j \in 1..Len(Body) : m[j] = Body[j]
        /\ Len(m) = Len(Body) + 1 => m[Len(Body) + 1] = tip
    BY <1>1, <1>4, <1>5, <2>1, OneMore
  <2>3. ASSUME NEW i \in 1..Len(m), i > Len(Body) PROVE m[i] = tip
    <3>1. i = Len(Body) + 1 /\ Len(m) = Len(Body) + 1
      BY <1>1, <2>2, <2>3
    <3> QED
      BY <2>2, <3>1
  <2> QED
    BY <1>1, <1>6, <2>1, <2>2, <2>3 DEF m, tip
<1>7. CASE ~IsV1
  <2>1. m = <<limit, price>> \o Body \o Tip /\ Front = 2
    BY <1>7 DEF Compiled, Body, Dropped, Front, limit, price
  <2> HIDE DEF m
  <2> DEFINE mid == <<limit, price>> \o Body
  <2>2. /\ mid \in Seq(Instruction) /\ Len(mid) = 2 + Len(Body)
        /\ \A j \in 1..Len(Body) : mid[2 + j] = Body[j]
        /\ mid[1] = limit /\ mid[2] = price
    BY <1>1, <1>4
  <2>3. m = mid \o Tip
    BY <2>1
  <2> HIDE DEF mid
  <2>4. /\ m \in Seq(Instruction) /\ Len(m) \in Nat /\ 2 + Len(Body) <= Len(m)
        /\ Len(m) <= Len(Body) + 3
        /\ \A j \in 1..(2 + Len(Body)) : m[j] = mid[j]
        /\ Len(m) = Len(Body) + 3 => m[Len(Body) + 3] = tip
    <3>1. /\ m \in Seq(Instruction) /\ Len(m) \in Nat /\ Len(mid) <= Len(m)
          /\ Len(m) <= Len(mid) + 1
          /\ \A j \in 1..Len(mid) : m[j] = mid[j]
          /\ Len(m) = Len(mid) + 1 => m[Len(mid) + 1] = tip
      BY <1>4, <1>5, <2>2, <2>3, OneMore
    <3> QED
      BY <1>1, <2>2, <3>1
  <2>5. ASSUME NEW i \in 1..Len(m), i > 2 + Len(Body) PROVE m[i] = tip
    <3>1. i = Len(Body) + 3 /\ Len(m) = Len(Body) + 3
      BY <1>1, <2>4, <2>5
    <3> QED
      BY <2>4, <3>1
  <2>6. /\ \A j \in 1..Len(Body) : m[2 + j] = Body[j]
        /\ m[1] = limit /\ m[2] = price
    BY <1>1, <2>2, <2>4
  <2> QED
    BY <1>7, <2>1, <2>4, <2>5, <2>6 DEF m, tip, limit, price
<1> QED
  BY <1>6, <1>7

\* Where the message has the instructions of a kind that stays in the route.
LEMMA PlacesOfKind ==
  ASSUME request \in Request, route \in Seq(Instruction), NEW h \in Header,
         NEW kind, kind \notin Dropped \cup {"CuLimit", "CuPrice", "Tip"}
  PROVE  LET m == Compiled(h)
             places == {i \in DOMAIN m : m[i].kind = kind}
             of == {p \in DOMAIN route : route[p].kind = kind}
         IN  /\ of \subseteq Stays /\ IsFiniteSet(of)
             /\ \A i \in places : \E p \in of : i = Front + Rank(Stays, p)
             /\ \A p \in of : Front + Rank(Stays, p) \in places
             /\ \A p, q \in of : Rank(Stays, p) = Rank(Stays, q) => p = q
<1> DEFINE m == Compiled(h)
           places == {i \in DOMAIN m : m[i].kind = kind}
           of == {p \in DOMAIN route : route[p].kind = kind}
<1>1. of \subseteq Stays
  BY DEF Stays
<1>2. IsFiniteSet(of)
  <2> HIDE DEF of
  <2> QED
    BY <1>1, BodyIs, FS_Subset
<1>3. /\ m \in Seq(Instruction) /\ Len(m) \in Nat
      /\ Front + Len(Body) <= Len(m)
      /\ \A j \in 1..Len(Body) : m[Front + j] = Body[j]
      /\ \A i \in 1..Len(m) : i > Front + Len(Body) => m[i] = Ix("Tip", 1, {Payer})
      /\ ~IsV1 => /\ m[1] = Ix("CuLimit", h.limit, {})
                  /\ m[2] = Ix("CuPrice", h.price, {})
  BY CompiledIs, Zenon
<1>4. DOMAIN m = 1..Len(m)
  BY <1>3
<1>5. /\ Len(Body) \in Nat
      /\ \A j \in 1..Len(Body) : /\ Place(Stays, j) \in Stays
                                 /\ Rank(Stays, Place(Stays, j)) = j
                                 /\ Body[j] = route[Place(Stays, j)]
      /\ \A p \in Stays : /\ Rank(Stays, p) \in 1..Len(Body)
                          /\ Body[Rank(Stays, p)] = route[p]
      /\ Stays \subseteq DOMAIN route
  BY BodyIs DEF Stays
<1>6. Front \in {0, 2} /\ (Front = 2 => ~IsV1)
  BY DEF Front
<1> HIDE DEF m
<1>7. ASSUME NEW i \in places PROVE \E p \in of : i = Front + Rank(Stays, p)
  <2>1. i \in 1..Len(m) /\ m[i].kind = kind
    BY <1>4
  <2>2. ~(i > Front + Len(Body))
    <3>1. Ix("Tip", 1, {Payer}).kind = "Tip"
      BY DEF Ix
    <3> QED
      BY <1>3, <2>1, <3>1
  <2>3. i > Front
    <3>1. Ix("CuLimit", h.limit, {}).kind = "CuLimit" /\ Ix("CuPrice", h.price, {}).kind = "CuPrice"
      BY DEF Ix
    <3>2. ~IsV1 => i # 1 /\ i # 2
      BY <1>3, <2>1, <3>1
    <3> QED
      BY <1>3, <1>6, <2>1, <3>2
  <2> DEFINE j == i - Front
  <2>4. j \in 1..Len(Body) /\ i = Front + j
    BY <1>3, <1>5, <1>6, <2>1, <2>2, <2>3
  <2> HIDE DEF j
  <2> DEFINE p == Place(Stays, j)
  <2>5. p \in Stays /\ Rank(Stays, p) = j /\ Body[j] = route[p] /\ m[i] = Body[j]
    BY <1>3, <1>5, <2>4
  <2>6. p \in of
    BY <1>5, <2>1, <2>5
  <2> HIDE DEF p, of
  <2> QED
    BY <2>4, <2>5, <2>6
<1>8. ASSUME NEW p \in of PROVE Front + Rank(Stays, p) \in places
  <2>1. p \in Stays /\ route[p].kind = kind
    BY <1>1
  <2> DEFINE j == Rank(Stays, p)
  <2>2. j \in 1..Len(Body) /\ Body[j] = route[p]
    BY <1>5, <2>1
  <2> HIDE DEF j
  <2>3. m[Front + j] = Body[j] /\ Front + j \in 1..Len(m)
    BY <1>3, <1>5, <1>6, <2>2
  <2> QED
    BY <1>4, <2>1, <2>2, <2>3 DEF j
<1>9. ASSUME NEW p \in of, NEW q \in of, Rank(Stays, p) = Rank(Stays, q) PROVE p = q
  <2>1. p \in Stays /\ q \in Stays
    BY <1>1
  <2>2. Place(Stays, Rank(Stays, p)) = p /\ Place(Stays, Rank(Stays, q)) = q
    BY <2>1, BodyIs
  <2> QED
    BY <1>9, <2>2
<1> QED
  BY <1>1, <1>2, <1>7, <1>8, <1>9 DEF m

\* The index that is computed from the route finds the reimbursement in the
\* message, which has no other.
LEMMA ReimbursementPlace ==
  ASSUME request \in Request, route \in Seq(Instruction), Reserved, NEW h \in Header
  PROVE  {i \in DOMAIN Compiled(h) : Compiled(h)[i].kind = "Reimburse"}
           = IF request.sponsored THEN {LastCompiledIndex} ELSE {}
<1> DEFINE places == {i \in DOMAIN Compiled(h) : Compiled(h)[i].kind = "Reimburse"}
           of == {p \in DOMAIN route : route[p].kind = "Reimburse"}
<1>1. "Reimburse" \notin Dropped \cup {"CuLimit", "CuPrice", "Tip"}
  BY DEF Dropped, BudgetKinds
<1>2. /\ of \subseteq Stays /\ IsFiniteSet(of)
      /\ \A i \in places : \E p \in of : i = Front + Rank(Stays, p)
      /\ \A p \in of : Front + Rank(Stays, p) \in places
      /\ \A p, q \in of : Rank(Stays, p) = Rank(Stays, q) => p = q
  BY <1>1, PlacesOfKind, Zenon
<1>3. of = IF request.sponsored THEN {Len(route)} ELSE {}
  <2>1. DOMAIN route = 1..Len(route) /\ Len(route) \in Nat
    OBVIOUS
  <2>2. request.sponsored => Len(route) > 0 /\ route[Len(route)].kind = "Reimburse"
    BY DEF Reserved, Ix
  <2>3. \A p \in of : request.sponsored /\ p = Len(route)
    BY DEF Reserved
  <2>4. request.sponsored => Len(route) \in of
    BY <2>1, <2>2
  <2> QED
    BY <2>3, <2>4
<1> HIDE DEF places, of
<1>4. CASE request.sponsored
  <2>1. Len(route) \in Stays /\ Stays \subseteq 1..Len(route) /\ Len(route) \in Nat
    BY <1>2, <1>3, <1>4, BodyIs
  <2>2. Rank(Stays, Len(route)) = Len(Body)
    BY <2>1, LastRank, BodyIs
  <2>3. Front + Rank(Stays, Len(route)) = LastCompiledIndex
    BY <2>2, CountsAre
  <2>4. places = {LastCompiledIndex}
    BY <1>2, <1>3, <1>4, <2>3
  <2> QED
    BY <1>4, <2>4 DEF places
<1>5. CASE ~request.sponsored
  BY <1>2, <1>3, <1>5 DEF places
<1> QED
  BY <1>4, <1>5

\* A kind that stays is in the message as often as in the route.
LEMMA KindCounts ==
  ASSUME request \in Request, route \in Seq(Instruction), NEW h \in Header,
         NEW kind, kind \notin Dropped \cup {"CuLimit", "CuPrice", "Tip"}
  PROVE  Cardinality({i \in DOMAIN Compiled(h) : Compiled(h)[i].kind = kind})
           = Cardinality({p \in DOMAIN route : route[p].kind = kind})
<1> DEFINE places == {i \in DOMAIN Compiled(h) : Compiled(h)[i].kind = kind}
           of == {p \in DOMAIN route : route[p].kind = kind}
           f == [p \in of |-> Front + Rank(Stays, p)]
<1>1. /\ of \subseteq Stays /\ IsFiniteSet(of)
      /\ \A i \in places : \E p \in of : i = Front + Rank(Stays, p)
      /\ \A p \in of : Front + Rank(Stays, p) \in places
      /\ \A p, q \in of : Rank(Stays, p) = Rank(Stays, q) => p = q
  BY PlacesOfKind, Zenon
<1>2. \A p \in of : Rank(Stays, p) \in Int
  BY <1>1, BodyIs
<1>3. Front \in Int
  BY DEF Front
<1> HIDE DEF places, of
<1>4. f \in [of -> places] /\ \A i \in places : \E p \in of : f[p] = i
  BY <1>1
<1>5. \A p, q \in of : f[p] = f[q] => p = q
  BY <1>1, <1>2, <1>3
<1> HIDE DEF f
<1>6. f \in Bijection(of, places)
  BY <1>4, <1>5 DEF Bijection, Injection, Surjection, IsInjective
<1>7. Cardinality(places) = Cardinality(of)
  BY <1>1, <1>6, FS_Bijection DEF ExistsBijection
<1> QED
  BY <1>7 DEF places, of

-----------------------------------------------------------------------------
(* The steps that build and finalize. *)

\* The budget, the index and the message depend on the request and the route
\* alone.
LEMMA SameRoute ==
  ASSUME UNCHANGED <<request, response, route>>
  PROVE  /\ BudgetValid' = BudgetValid /\ Simulates' = Simulates
         /\ \A units \in Units : Budget(CuLimit(units))' = Budget(CuLimit(units))
         /\ LastCompiledIndex' = LastCompiledIndex
         /\ header' = header => Compiled(header)' = Compiled(header)
<1>1. BudgetValid' = BudgetValid /\ Simulates' = Simulates
  BY DEF BudgetValid, Simulates, Processable, AskedOnce, Once, Every, Some,
         Supported, IsV1, IsCuLimit, Count
<1>2. \A units \in Units : Budget(CuLimit(units))' = Budget(CuLimit(units))
  BY DEF Budget, CuLimit, CuPrice, Asked, IsV1
<1>3. LastCompiledIndex' = LastCompiledIndex
  BY DEF LastCompiledIndex, IsV1, Count, IsBudget, IsCuLimit
<1>4. header' = header => Compiled(header)' = Compiled(header)
  BY DEF Compiled, IsV1, Tip, Payer
<1> QED
  BY <1>1, <1>2, <1>3, <1>4

LEMMA BuildKeeps ==
  ASSUME IndInv, NEW units \in Units, Build(units)
  PROVE  IndInv'
<1> DEFINE h == Budget(CuLimit(units))
<1>1. /\ stage = "prepared" /\ stage' = "built" /\ BudgetValid /\ Simulates
      /\ header' = h /\ built' = Compiled(h) /\ message' = Compiled(h)
      /\ index' = LastCompiledIndex
      /\ UNCHANGED <<request, response, route, charge>>
  BY DEF Build
<1>2. request \in Request /\ route \in Seq(Instruction)
  BY DEF IndInv, TypeOK
<1>3. h \in Header
  BY <1>1, <1>2, CuLimitIs, BudgetIs
<1> DEFINE m == Compiled(h)
<1>4. m \in Seq(Instruction)
  <2> HIDE DEF h
  <2> QED
    BY <1>2, <1>3, CompiledIs
<1>5. LastCompiledIndex \in Int
  BY <1>2, BodyIs, CountsAre DEF Front
<1> HIDE DEF m
<1>6. TypeOK'
  <2> HIDE DEF h
  <2> QED
    BY <1>1, <1>3, <1>4, <1>5 DEF IndInv, TypeOK, m
<1>7. RouteInv'
  BY <1>1 DEF IndInv, RouteInv, Reserved, Allowed, Provided, IsV1
<1>8. BuiltInv'
  <2>1. UNCHANGED <<request, response, route>>
    BY <1>1
  <2>2. \A c \in Units : Budget(CuLimit(c))' = Budget(CuLimit(c))
    BY <2>1, SameRoute
  <2>3. BudgetValid' /\ Simulates' /\ LastCompiledIndex' = LastCompiledIndex
    BY <1>1, <2>1, SameRoute
  <2>4. Compiled(header)' = Compiled(h)
    BY <1>1 DEF Compiled, IsV1, Tip, Payer
  <2> HIDE DEF h
  <2>5. header' = Budget(CuLimit(units))
    BY <1>1 DEF h
  <2>6. \E c \in Units : header' = Budget(CuLimit(c))'
    BY <2>2, <2>5
  <2> QED
    BY <1>1, <2>3, <2>4, <2>6 DEF BuiltInv
<1> QED
  BY <1>6, <1>7, <1>8 DEF IndInv

\* What the properties and the last step need to know of a message.
LEMMA BuiltIs ==
  ASSUME IndInv, stage \in {"built", "final"}
  PROVE  /\ request \in Request /\ route \in Seq(Instruction) /\ Reserved
         /\ header \in Header /\ built = Compiled(header) /\ built \in Seq(Instruction)
         /\ {i \in DOMAIN built : built[i].kind = "Reimburse"}
              = IF request.sponsored THEN {index} ELSE {}
         /\ DOMAIN message = DOMAIN built
         /\ \A i \in DOMAIN built : message[i].kind = built[i].kind
<1>1. /\ request \in Request /\ route \in Seq(Instruction) /\ Reserved
      /\ header \in Header /\ built = Compiled(header) /\ index = LastCompiledIndex
      /\ message = IF stage = "final" /\ request.sponsored
                     THEN [built EXCEPT ![index].value = charge] ELSE built
      /\ built \in Seq(Instruction)
  BY DEF IndInv, TypeOK, RouteInv, BuiltInv
<1>2. {i \in DOMAIN built : built[i].kind = "Reimburse"}
        = IF request.sponsored THEN {index} ELSE {}
  BY <1>1, ReimbursementPlace
<1>3. \A i \in DOMAIN built : built[i] \in Instruction
  BY <1>1
<1>4. DOMAIN message = DOMAIN built /\ \A i \in DOMAIN built : message[i].kind = built[i].kind
  BY <1>1, <1>3 DEF Instruction
<1> QED
  BY <1>1, <1>2, <1>4

LEMMA FinalizeKeeps ==
  ASSUME IndInv, NEW c \in Charges, Finalize(c)
  PROVE  IndInv'
<1>1. /\ stage = "built" /\ stage' = "final"
      /\ UNCHANGED <<request, response, route, index, header, built>>
      /\ IF request.sponsored
           THEN message' = [message EXCEPT ![index].value = c] /\ charge' = c
           ELSE UNCHANGED <<message, charge>>
  BY DEF Finalize
<1>2. message = built /\ built \in Seq(Instruction) /\ message \in Seq(Instruction)
  BY <1>1 DEF IndInv, TypeOK, BuiltInv
<1>3. c \in Nat
  BY ConstantsAssumption
<1>4. request.sponsored => message' \in Seq(Instruction)
  <2> SUFFICES ASSUME request.sponsored PROVE message' \in Seq(Instruction)
    OBVIOUS
  <2>1. DOMAIN message = 1..Len(message) /\ Len(message) \in Nat
        /\ \A i \in 1..Len(message) : message[i] \in Instruction
    BY <1>2
  <2>2. \A ix \in Instruction : [ix EXCEPT !.value = c] \in Instruction
    BY <1>3 DEF Instruction
  <2>3. message' = [i \in 1..Len(message) |->
                      IF i = index THEN [message[i] EXCEPT !.value = c] ELSE message[i]]
    BY <1>1, <2>1
  <2>4. \A i \in 1..Len(message) :
          (IF i = index THEN [message[i] EXCEPT !.value = c] ELSE message[i]) \in Instruction
    BY <2>1, <2>2
  <2>5. message' \in [1..Len(message) -> Instruction]
    BY <2>3, <2>4
  <2> QED
    BY <2>1, <2>5, ListOf
<1>5. TypeOK'
  BY <1>1, <1>3, <1>4 DEF IndInv, TypeOK
<1>6. RouteInv'
  BY <1>1 DEF IndInv, RouteInv, Reserved, Allowed, Provided, IsV1
<1>7. BuiltInv'
  <2>1. /\ BudgetValid /\ Simulates
        /\ \E units \in Units : header = Budget(CuLimit(units))
        /\ built = Compiled(header) /\ index = LastCompiledIndex
    BY <1>1 DEF IndInv, BuiltInv
  <2>2. UNCHANGED <<request, response, route>> /\ header' = header
    BY <1>1
  <2>3. /\ BudgetValid' /\ Simulates'
        /\ \A units \in Units : Budget(CuLimit(units))' = Budget(CuLimit(units))
        /\ LastCompiledIndex' = LastCompiledIndex
        /\ Compiled(header)' = Compiled(header)
    BY <2>1, <2>2, SameRoute
  <2>4. \E units \in Units : header' = Budget(CuLimit(units))'
    BY <2>1, <2>2, <2>3
  <2>5. message' = IF request.sponsored THEN [built EXCEPT ![index].value = charge'] ELSE built
    BY <1>1, <1>2
  <2> QED
    BY <1>1, <2>1, <2>3, <2>4, <2>5 DEF BuiltInv
<1> QED
  BY <1>5, <1>6, <1>7 DEF IndInv

LEMMA NextKeeps ==
  ASSUME IndInv, [Next]_vars
  PROVE  IndInv'
<1>1. CASE Adapt
  BY <1>1, AdaptKeeps
<1>2. CASE AppendFees
  BY <1>2, AppendFeesKeeps
<1>3. CASE \E units \in Units : Build(units)
  BY <1>3, BuildKeeps
<1>4. CASE \E c \in Charges : Finalize(c)
  BY <1>4, FinalizeKeeps
<1>5. CASE BuildFails \/ FinalizeFails
  BY <1>5 DEF BuildFails, FinalizeFails, Reject, IndInv, TypeOK, RouteInv, BuiltInv
<1>6. CASE UNCHANGED vars
  <2>1. UNCHANGED <<stage, request, response, route, index, header, built, message, charge>>
    BY <1>6 DEF vars
  <2>2. TypeOK' /\ RouteInv'
    BY <2>1 DEF IndInv, TypeOK, RouteInv, Reserved, Allowed, Provided, IsV1
  <2>3. /\ BudgetValid' = BudgetValid /\ Simulates' = Simulates
        /\ \A units \in Units : Budget(CuLimit(units))' = Budget(CuLimit(units))
        /\ LastCompiledIndex' = LastCompiledIndex
        /\ Compiled(header)' = Compiled(header)
    BY <2>1, SameRoute
  <2>4. BuiltInv'
    <3> SUFFICES ASSUME stage \in {"built", "final"} PROVE BuiltInv'
      BY <2>1 DEF BuiltInv
    <3>1. /\ BudgetValid /\ Simulates
          /\ \E units \in Units : header = Budget(CuLimit(units))
          /\ built = Compiled(header) /\ index = LastCompiledIndex
          /\ message = IF stage = "final" /\ request.sponsored
                         THEN [built EXCEPT ![index].value = charge] ELSE built
      BY DEF IndInv, BuiltInv
    <3>2. \E units \in Units : header' = Budget(CuLimit(units))'
      BY <2>1, <2>3, <3>1
    <3> QED
      BY <2>1, <2>3, <3>1, <3>2 DEF BuiltInv
  <2> QED
    BY <2>2, <2>4 DEF IndInv
<1> QED
  BY <1>1, <1>2, <1>3, <1>4, <1>5, <1>6 DEF Next

LEMMA Invariance == Spec => []IndInv
<1>1. IndInv /\ [Next]_vars => IndInv'
  BY NextKeeps
<1> QED
  BY <1>1, InitIndInv, PTL DEF Spec

-----------------------------------------------------------------------------
(* The theorems. *)

\* Every list of the preparation holds instructions, and the message's budget is
\* one the cluster takes: a limit within CU_LIMIT_MAX, a price that is a number.
THEOREM TypeCorrect == Spec => []TypeOK
<1>1. IndInv => TypeOK
  BY DEF IndInv
<1> QED
  BY <1>1, Invariance, PTL

\* The sponsor's charge is written over the amount of the reserved transfer and
\* changes nothing else, although last_compiled_index is computed from the route
\* before the compute budget, the header and the tip are put around it.
THEOREM ChargeIsReimbursed == Spec => []ReplacesReimbursement
<1>1. ASSUME IndInv PROVE ReplacesReimbursement
  <2> SUFFICES ASSUME stage = "final"
               PROVE  /\ DOMAIN message = DOMAIN built
                      /\ \A i \in DOMAIN built :
                           message[i] = IF built[i].kind = "Reimburse"
                             THEN [built[i] EXCEPT !.value = charge] ELSE built[i]
                      /\ Count(message, LAMBDA ix : ix.kind = "Reimburse")
                           = IF request.sponsored THEN 1 ELSE 0
    BY DEF ReplacesReimbursement
  <2> DEFINE places == {i \in DOMAIN built : built[i].kind = "Reimburse"}
  <2>1. /\ places = IF request.sponsored THEN {index} ELSE {}
        /\ DOMAIN message = DOMAIN built
        /\ \A i \in DOMAIN built : message[i].kind = built[i].kind
        /\ built \in Seq(Instruction)
    BY <1>1, BuiltIs
  <2>2. message = IF request.sponsored THEN [built EXCEPT ![index].value = charge] ELSE built
    BY <1>1 DEF IndInv, BuiltInv
  <2>3. \A i \in DOMAIN built : built[i].kind = "Reimburse" <=> request.sponsored /\ i = index
    BY <2>1
  <2>4. \A i \in DOMAIN built :
          message[i] = IF built[i].kind = "Reimburse"
            THEN [built[i] EXCEPT !.value = charge] ELSE built[i]
    BY <2>2, <2>3
  <2>5. Count(message, LAMBDA ix : ix.kind = "Reimburse") = Cardinality(places)
    <3>1. {i \in DOMAIN message : message[i].kind = "Reimburse"} = places
      BY <2>1
    <3> QED
      BY <3>1 DEF Count
  <2> HIDE DEF places
  <2>6. Cardinality(places) = IF request.sponsored THEN 1 ELSE 0
    BY <2>1, FS_Singleton, FS_EmptySet
  <2> QED
    BY <2>1, <2>4, <2>5, <2>6
<1> QED
  BY <1>1, Invariance, PTL

\* The message carries the compute units, heap and account data that the route
\* asked for, whichever source it is from, and no request twice unless the source
\* brought a price.  What V0 pays for priority is within the caller's lamports:
\* the price is rounded down and the limit is at least one.
THEOREM CarriesBudget == Spec => []BudgetCarried
<1>1. ASSUME IndInv PROVE BudgetCarried
  <2> SUFFICES ASSUME stage \in {"built", "final"}
               PROVE  BudgetHonoured /\ PriorityWithinBudget
    BY DEF BudgetCarried, BudgetHonoured, PriorityWithinBudget
  <2>1. /\ request \in Request /\ route \in Seq(Instruction) /\ header \in Header
        /\ built = Compiled(header) /\ built \in Seq(Instruction)
        /\ DOMAIN message = DOMAIN built
        /\ \A i \in DOMAIN built : message[i].kind = built[i].kind
    BY <1>1, BuiltIs
  <2>2. PICK units \in Units : header = Budget(CuLimit(units))
    BY <1>1 DEF IndInv, BuiltInv
  <2>3. BudgetValid /\ Simulates
    BY <1>1 DEF IndInv, BuiltInv
  <2>4. CuLimit(units) \in 1..CuMax /\ CuLimit(units) >= Asked("CuLimit")
    BY <2>1, <2>3, CuLimitIs
  <2> DEFINE limit == CuLimit(units)
  <2>5. header.limit = limit /\ (~IsV1 => header.price = CuPrice(limit))
    BY <2>2 DEF Budget
  <2>6. ASSUME NEW kind
        PROVE  {i \in DOMAIN message : message[i].kind = kind}
                 = {i \in DOMAIN Compiled(header) : Compiled(header)[i].kind = kind}
    BY <2>1
  <2>7. /\ Front + Len(Body) <= Len(built)
        /\ \A j \in 1..Len(Body) : built[Front + j] = Body[j]
        /\ \A i \in 1..Len(built) : i > Front + Len(Body) => built[i] = Ix("Tip", 1, {Payer})
        /\ ~IsV1 => /\ built[1] = Ix("CuLimit", header.limit, {})
                    /\ built[2] = Ix("CuPrice", header.price, {})
    BY <2>1, CompiledIs, Zenon
  <2>8. /\ Len(Body) \in Nat
        /\ \A j \in 1..Len(Body) : \E p \in Stays : Body[j] = route[p]
    BY <2>1, BodyIs
  <2>9. Ix("Tip", 1, {Payer}).kind = "Tip"
    BY DEF Ix
  \* Between what is put in front and the tip there are instructions that stay.
  <2>10. ASSUME NEW i \in DOMAIN built, i > Front, built[i].kind # "Tip"
         PROVE  \E p \in Stays : built[i] = route[p]
    <3>1. i \in 1..Len(built) /\ i <= Front + Len(Body)
      BY <2>1, <2>7, <2>8, <2>9, <2>10 DEF Front
    <3>2. i - Front \in 1..Len(Body) /\ i = Front + (i - Front)
      BY <2>8, <2>10, <3>1 DEF Front
    <3>3. built[i] = Body[i - Front]
      BY <2>7, <3>2
    <3> QED
      BY <2>8, <3>2, <3>3
  <2>11. BudgetHonoured
    <3>1. CASE IsV1
      <4>1. ~Some(message, IsBudget)
        <5> SUFFICES ASSUME NEW i \in DOMAIN built, built[i].kind \in BudgetKinds PROVE FALSE
          BY <2>1 DEF Some, IsBudget
        <5>1. i > Front /\ built[i].kind # "Tip"
          BY <2>1, <3>1 DEF Front, BudgetKinds
        <5> QED
          BY <2>10, <3>1, <5>1 DEF Stays, Dropped
      <4>2. /\ header.loaded \in {Asked("Loaded"), LoadedMax} \ {0}
            /\ header.heap = Asked("Heap")
        BY <2>2, <3>1, ConstantsAssumption DEF Budget
      <4> QED
        BY <2>4, <2>5, <3>1, <4>1, <4>2 DEF BudgetHonoured
    <3>2. CASE ~IsV1
      <4>1. /\ Front = 2 /\ Dropped = {"CuLimit"} /\ 1 \in DOMAIN built /\ 2 \in DOMAIN built
            /\ built[1].kind = "CuLimit" /\ built[2].kind = "CuPrice"
        BY <2>1, <2>7, <2>8, <3>2 DEF Front, Dropped, Ix
      <4>2. ASSUME NEW i \in DOMAIN built, i # 1, i # 2
            PROVE  \/ built[i].kind = "Tip"
                   \/ \E p \in DOMAIN route : built[i] = route[p]
                                              /\ route[p].kind # "CuLimit"
        <5>1. i > Front
          BY <2>1, <4>1, <4>2
        <5> QED
          BY <2>10, <4>1, <5>1 DEF Stays
      <4>3. {i \in DOMAIN message : message[i].kind = "CuLimit"} = {1}
        <5>1. \A i \in DOMAIN built : built[i].kind = "CuLimit" => i = 1
          BY <4>1, <4>2
        <5> QED
          BY <2>1, <4>1, <5>1
      <4>4. Count(message, IsCuLimit) = 1 /\ Once(message, "CuLimit")
        BY <4>3, FS_Singleton DEF Count, IsCuLimit, Once
      <4>5. ASSUME NEW kind \in {"Heap", "Loaded"}
            PROVE  Count(message, LAMBDA ix : ix.kind = kind)
                     = Count(route, LAMBDA ix : ix.kind = kind)
        <5>1. kind \notin Dropped \cup {"CuLimit", "CuPrice", "Tip"}
          BY <4>1
        <5>2. Cardinality({i \in DOMAIN message : message[i].kind = kind})
                = Cardinality({p \in DOMAIN route : route[p].kind = kind})
          BY <2>1, <2>6, <5>1, KindCounts
        <5> QED
          BY <5>2 DEF Count
      <4>6. ASSUME ~Some(route, LAMBDA ix : ix.kind = "CuPrice")
            PROVE  Processable(message)
        <5>1. \A p \in DOMAIN route : route[p].kind \notin {"CuPrice", "BadBudget"}
          BY <2>3, <3>2, <4>6 DEF Some, Simulates, Processable, Every, Supported
        <5>2. \A i \in DOMAIN built : /\ built[i].kind # "BadBudget"
                                      /\ built[i].kind = "CuPrice" => i = 2
          BY <4>1, <4>2, <5>1
        <5>3. /\ {i \in DOMAIN message : message[i].kind = "CuPrice"} = {2}
              /\ {i \in DOMAIN message : message[i].kind = "BadBudget"} = {}
          BY <2>1, <4>1, <5>2
        <5>4. Once(message, "CuPrice")
          BY <5>3, FS_Singleton DEF Once, Count
        <5>5. Once(message, "BadBudget")
          <6>1. Cardinality({i \in DOMAIN message : message[i].kind = "BadBudget"}) = 0
            BY <5>3, FS_EmptySet
          <6> QED
            BY <6>1 DEF Once, Count
        <5>6. ASSUME NEW kind \in {"Heap", "Loaded"} PROVE Once(message, kind)
          <6>1. Once(route, kind)
            BY <2>3, <3>2 DEF Simulates, Processable, BudgetKinds
          <6> QED
            BY <4>5, <6>1 DEF Once
        <5>7. Every(message, Supported)
          BY <2>1, <5>2 DEF Every, Supported
        <5> QED
          BY <4>4, <5>4, <5>5, <5>6, <5>7 DEF Processable, BudgetKinds
      <4> QED
        BY <2>4, <2>5, <3>2, <4>4, <4>5, <4>6 DEF BudgetHonoured
    <3> QED
      BY <3>1, <3>2
  <2>12. PriorityWithinBudget
    <3> HIDE DEF limit
    <3>1. (limit * CuPrice(limit) + MicroPerLamport - 1) \div MicroPerLamport
            <= request.priority
      BY <2>1, <2>4, PriceIs DEF limit
    <3> QED
      BY <2>5, <3>1 DEF PriorityWithinBudget
  <2> QED
    BY <2>11, <2>12
<1> QED
  BY <1>1, Invariance, PTL

\* A user whose bloXroute or Relay swap is sponsored needs no SOL: account
\* creations, whoever the provider had pay for them, and the submitter's tip are
\* the sponsor's, and a list that would debit the user is refused.
THEOREM UserNeedsNoSol == Spec => []SponsorPaysSol
<1>1. ASSUME IndInv PROVE SponsorPaysSol
  <2> SUFFICES ASSUME stage = "final", request.sponsored, IsV1,
                      NEW i \in DOMAIN message,
                      message[i].kind \in SolSpenders, message[i].value > 0
               PROVE  "wallet" \notin message[i].signers
    BY DEF SponsorPaysSol
  <2>1. /\ request \in Request /\ route \in Seq(Instruction) /\ header \in Header
        /\ built = Compiled(header) /\ built \in Seq(Instruction)
        /\ {j \in DOMAIN built : built[j].kind = "Reimburse"} = {index}
        /\ DOMAIN message = DOMAIN built
        /\ \A j \in DOMAIN built : message[j].kind = built[j].kind
    BY <1>1, BuiltIs
  <2>2. message = [built EXCEPT ![index].value = charge]
    BY <1>1 DEF IndInv, BuiltInv
  <2>3. i # index /\ message[i] = built[i]
    <3>1. "Reimburse" \notin SolSpenders
      BY DEF SolSpenders
    <3>2. i # index
      BY <2>1, <3>1
    <3> QED
      BY <2>1, <2>2, <3>2
  <2>4. /\ Len(Body) \in Nat
        /\ \A j \in 1..Len(Body) : built[j] = Body[j]
        /\ \A j \in 1..Len(built) : j > Len(Body) => built[j] = Ix("Tip", 1, {Payer})
        /\ \A j \in 1..Len(Body) : \E p \in DOMAIN route : Body[j] = route[p]
    <3>1. /\ \A j \in 1..Len(Body) : built[Front + j] = Body[j]
          /\ \A j \in 1..Len(built) : j > Front + Len(Body) => built[j] = Ix("Tip", 1, {Payer})
      BY <2>1, CompiledIs, Zenon
    <3>2. Front = 0 /\ Len(Body) \in Nat
      BY <2>1, BodyIs DEF Front
    <3>3. \A j \in 1..Len(Body) : \E p \in DOMAIN route : Body[j] = route[p]
      BY <2>1, BodyIs DEF Stays
    <3>4. Front + Len(Body) = Len(Body) /\ \A j \in 1..Len(Body) : Front + j = j
      BY <3>2
    <3>5. \A j \in 1..Len(Body) : built[j] = Body[j]
      BY <3>1, <3>4
    <3>6. \A j \in 1..Len(built) : j > Len(Body) => built[j] = Ix("Tip", 1, {Payer})
      BY <3>1, <3>4
    <3> QED
      BY <3>2, <3>3, <3>5, <3>6
  <2>5. CASE i > Len(Body)
    BY <2>1, <2>3, <2>4, <2>5 DEF Ix, Payer
  <2>6. CASE ~(i > Len(Body))
    <3>1. i \in 1..Len(Body)
      BY <2>1, <2>4, <2>6
    <3>2. PICK p \in DOMAIN route : built[i] = route[p]
      BY <2>4, <3>1
    <3>3. route[p] \in Allowed
      <4>1. route \in Seq(Allowed)
        BY <1>1 DEF IndInv, RouteInv
      <4> QED
        BY <4>1
    <3> QED
      BY <2>3, <3>2, <3>3 DEF Allowed, SpendsUserSol
  <2> QED
    BY <2>5, <2>6
<1> QED
  BY <1>1, Invariance, PTL
=============================================================================
