------------------------- MODULE TransactionLayout -------------------------
(***************************************************************************)
(* From a provider's response to the Solana transaction that is signed:    *)
(* the source adapters (solana/sources), the appended fee transfers        *)
(* (solana/sdk_fee.rs, solana/gas_sponsor/mod.rs), the compute budget and  *)
(* the message (solana/executor.rs), and the sponsorship charge written    *)
(* into the compiled message (solana/gas_sponsor/cost.rs).                 *)
(*                                                                         *)
(* An instruction is abstracted to its kind, the number in its data and    *)
(* the parties that sign it.  A native source is an adapter whose list is  *)
(* its own.  The fee amounts themselves are those of SettlementFees.       *)
(***************************************************************************)
EXTENDS Integers, Sequences, FiniteSets, Sublists

CONSTANTS
  Responses,    \* instruction lists a source may return
  Configs,      \* transaction configurations a V1 source may return
  SdkFees,      \* amounts of the SDK's own fee transfer, 0 for none
  Ceiling,      \* max_fee_usdc
  Charges,      \* charges the sponsor's policy may compute
  Units,        \* simulated compute units, -1 when they are missing
  CuMax,        \* CU_LIMIT_MAX
  DefaultCu,    \* DEFAULT_CU_LIMIT
  LoadedMax,    \* MAX_LOADED_ACCOUNTS_DATA_SIZE
  PriorityFees, \* priority_fee_lamports
  MicroPerLamport

Parties == {"wallet", "sponsor", "stranger"}

BudgetKinds   == {"CuLimit", "CuPrice", "Heap", "Loaded", "BadBudget"}
\* SPL token transfers of USDC, alike but for their amounts.
UsdcTransfers == {"SdkUsdc", "Reimburse"}
\* What debits the lamports of the signer of the instruction.
SolSpenders   == {"Ata", "BadAta", "Transfer", "Tip"}
Kinds == BudgetKinds \cup UsdcTransfers \cup SolSpenders
         \cup {"Swap", "Cleanup"}

Instruction == [kind : Kinds, value : Nat, signers : SUBSET Parties]
\* What a provider returns: the other kinds are those of what the SDK appends.
Answered == {ix \in Instruction : ix.kind \notin UsdcTransfers \cup {"Tip"}}
Ix(kind, value, signers) ==
  [kind |-> kind, value |-> value, signers |-> signers]

\* TransactionConfig; 0 stands for a field that is absent.
Config == [limit : Nat, loaded : Nat, heap : Nat, priority : Nat]

ASSUME ConstantsAssumption ==
  /\ Responses \subseteq Seq(Answered)
  /\ Configs \subseteq Config
  /\ SdkFees \subseteq Nat
  /\ Ceiling \in Nat
  /\ Charges \subseteq Nat
  /\ Units \subseteq Nat \cup {-1}
  /\ CuMax \in Nat \ {0}
  /\ DefaultCu \in 1..CuMax
  /\ LoadedMax \in Nat \ {0}
  /\ PriorityFees \subseteq Nat
  /\ MicroPerLamport \in Nat \ {0}

VARIABLES
  stage,     \* how far the swap has come
  request,   \* source, signers and fees, chosen initially
  response,  \* what the source answered, chosen initially
  route,     \* instructions of the PreparedSwap
  index,     \* reimbursement_index
  header,    \* compute budget of the message
  built,     \* instructions as they were compiled
  message,   \* instructions as they are now
  charge     \* the encoded charge

vars == <<stage, request, response, route, index, header, built, message,
          charge>>

V1Sources     == {"Bloxroute", "Relay"}
FeeCollectors == {"Bloxroute", "DFlow", "Relay"}
Sources       == FeeCollectors \cup {"Jupiter", "Native"}

\* SettlementFees says which combinations are prepared at all.
Request ==
  {q \in [source : Sources, sponsored : BOOLEAN, usdc : BOOLEAN,
          sdkFee : SdkFees, providerFee : BOOLEAN, tip : BOOLEAN,
          priority : PriorityFees] :
     /\ q.sponsored => q.usdc
     /\ q.usdc => q.source # "Native"
     /\ q.providerFee => q.source \in FeeCollectors /\ q.sdkFee = 0}

Response == [instructions : Responses, config : Configs]

Header == [limit : 0..CuMax, price : Nat, priority : Nat, loaded : Nat,
           heap : Nat]
NoHeader == [limit |-> 0, price |-> 0, priority |-> 0, loaded |-> 0,
             heap |-> 0]

TypeOK ==
  /\ stage \in {"response", "routed", "prepared", "built", "final", "rejected"}
  /\ request \in Request
  /\ response \in Response
  /\ route \in Seq(Instruction)
  /\ index \in Int
  /\ header \in Header
  /\ built \in Seq(Instruction)
  /\ message \in Seq(Instruction)
  /\ charge \in Nat

Some(list, P(_)) == \E i \in DOMAIN list : P(list[i])
Every(list, P(_)) == \A i \in DOMAIN list : P(list[i])

IsBudget(ix)  == ix.kind \in BudgetKinds
IsCuLimit(ix) == ix.kind = "CuLimit"
Count(list, P(_)) == Cardinality({i \in DOMAIN list : P(list[i])})
\* The list without the instructions of some kinds.
Without(list, kinds) == Kept(list, {i \in DOMAIN list : list[i].kind \notin kinds})

\* The transaction's fee payer.
Payer == IF request.sponsored THEN "sponsor" ELSE "wallet"

IsV1 == request.source \in V1Sources

-----------------------------------------------------------------------------
(* The adapters. *)

\* ApiInstruction::decode: no signer but the wallet and the sponsor, if any.
Decodable(ix) == ix.signers \subseteq {"wallet", Payer}

\* retain_compute_budget: the executor sets limit and price itself.
Retained(list) == Without(list, {"CuLimit", "CuPrice"})
Supported(ix) == ix.kind # "BadBudget"

\* Mutant: the account creations stay with the payer the provider named.
MovedInPlace(ix) == ix

\* move_rent_to_sponsor: the sponsor pays for the associated accounts, ...
Moved(ix) ==
  IF request.sponsored /\ ix.kind = "Ata" THEN Ix("Ata", ix.value, {"sponsor"})
                                          ELSE ix

\* ... and no instruction may spend the user's SOL.
Movable(ix) ==
  request.sponsored =>
    /\ ix.kind # "BadAta"
    /\ ~(ix.kind = "Transfer" /\ "wallet" \in ix.signers /\ ix.value > 0)

\* TransactionConfig::instructions, as budget requests.
ConfigIxs ==
  LET Request1(kind, value) == IF value = 0 THEN <<>> ELSE <<Ix(kind, value, {})>>
  IN  Request1("CuLimit", response.config.limit)
      \o Request1("Loaded", response.config.loaded)
      \o Request1("Heap", response.config.heap)
ConfigSupported == response.config.limit <= CuMax /\ response.config.priority = 0

\* ProviderFee::setup creates the account the provider pays the fee to.
FeeSetup ==
  IF request.providerFee THEN <<Ix("Ata", 1, {Payer})>> ELSE <<>>

Map(list, F(_)) == [i \in DOMAIN list |-> F(list[i])]

BloxrouteRoute == ConfigIxs \o FeeSetup \o Map(response.instructions, Moved)
BloxrouteAccepts ==
  /\ ConfigSupported
  /\ Every(response.instructions, Movable)
  /\ ~Some(response.instructions, IsBudget)
  /\ response.instructions # <<>>
  /\ LET swap == response.instructions[Len(response.instructions)]
     IN  swap.kind = "Swap" /\ "wallet" \in swap.signers

RelayKept == Retained(Map(response.instructions, Moved))
RelayRoute == RelayKept \o ConfigIxs
RelayAccepts ==
  /\ ConfigSupported
  /\ Every(response.instructions, LAMBDA ix : Movable(ix) /\ Supported(ix))
  /\ Some(RelayKept, LAMBDA ix : "wallet" \in ix.signers)

DFlowRoute == FeeSetup \o Retained(response.instructions)
DFlowAccepts ==
  /\ Every(response.instructions, Supported)
  /\ Retained(response.instructions) # <<>>

\* Jupiter's setup, swap, cleanup and other instructions are taken as they are,
\* budget requests among them.
JupiterRoute == response.instructions

\* What a native venue builds asks for no budget.
NativeRoute == Without(response.instructions, BudgetKinds)

Adapted ==
  CASE request.source = "Bloxroute" -> BloxrouteRoute
    [] request.source = "Relay"     -> RelayRoute
    [] request.source = "DFlow"     -> DFlowRoute
    [] request.source = "Jupiter"   -> JupiterRoute
    [] request.source = "Native"    -> NativeRoute

Accepted ==
  /\ Every(response.instructions, Decodable)
  /\ CASE request.source = "Bloxroute" -> BloxrouteAccepts
       [] request.source = "Relay"     -> RelayAccepts
       [] request.source = "DFlow"     -> DFlowAccepts
       [] OTHER                        -> TRUE
  /\ Adapted # <<>>

Reject ==
  /\ stage' = "rejected"
  /\ UNCHANGED <<request, response, route, index, header, built, message,
                 charge>>

Adapt ==
  /\ stage = "response"
  /\ \/ /\ Accepted
        /\ stage' = "routed"
        /\ route' = Adapted
        /\ UNCHANGED <<request, response, index, header, built, message,
                       charge>>
     \/ ~Accepted /\ Reject

-----------------------------------------------------------------------------
(* Fee transfers. *)

\* append_usdc_fee
UsdcFee(kind, amount) ==
  <<Ix("Ata", 1, {Payer}), Ix(kind, amount, {"wallet"})>>

SdkTransfer ==
  IF request.sdkFee = 0 THEN <<>>
  ELSE IF request.usdc THEN UsdcFee("SdkUsdc", request.sdkFee)
  ELSE <<Ix("Transfer", request.sdkFee, {"wallet"})>>

\* append_fees: first the SDK's transfer, then the sponsor's ceiling.
AppendFees ==
  /\ stage = "routed"
  /\ stage' = "prepared"
  /\ route' = route \o SdkTransfer
              \o (IF request.sponsored THEN UsdcFee("Reimburse", Ceiling)
                                       ELSE <<>>)
  /\ UNCHANGED <<request, response, index, header, built, message, charge>>

-----------------------------------------------------------------------------
(* The message. *)

\* Mutant: the budget instructions put in front are not counted.
LastCompiledIndexUnshifted ==
  IF IsV1 THEN Count(route, LAMBDA ix : ~IsBudget(ix))
          ELSE Count(route, LAMBDA ix : ~IsCuLimit(ix))

\* last_compiled_index, counted from 1: the route's last instruction is found
\* behind the two that V0 puts in front.
LastCompiledIndex ==
  IF IsV1 THEN Count(route, LAMBDA ix : ~IsBudget(ix))
          ELSE Count(route, LAMBDA ix : ~IsCuLimit(ix)) + 2

\* RequestedBudget::take: what the route asks for, at most once each.  A value
\* is read as 0 when it is not asked for.
Asked(kind) ==
  LET asking == {i \in DOMAIN route : route[i].kind = kind}
  IN  IF asking = {} THEN 0 ELSE route[CHOOSE i \in asking : TRUE].value
Once(list, kind) == Count(list, LAMBDA ix : ix.kind = kind) <= 1
AskedOnce(kind) == Once(route, kind)

BudgetValid ==
  /\ AskedOnce("CuLimit")
  /\ Every(route, LAMBDA ix : IsCuLimit(ix) => ix.value \in 1..CuMax)
  /\ IsV1 => /\ AskedOnce("Heap") /\ AskedOnce("Loaded")
             /\ ~Some(route, LAMBDA ix : ix.kind \in {"CuPrice", "BadBudget"})

\* The cluster refuses a V0 message with a malformed budget request or with two
\* of a kind.
Processable(list) ==
  Every(list, Supported) /\ \A kind \in BudgetKinds : Once(list, kind)

\* simulate_units has the route executed, with a limit of its own in place of
\* the route's.
Simulates == IsV1 \/ Processable(route)

Larger(a, b)  == IF a >= b THEN a ELSE b
Smaller(a, b) == IF a <= b THEN a ELSE b

\* Mutant: the simulated limit alone counts.
CuLimitSimulated(units) ==
  IF units = -1 THEN DefaultCu ELSE Larger(1, Smaller(CuMax, (units * 12) \div 10))

\* The simulated units and a fifth more, or what the route asks for if that is
\* more.
CuLimit(units) ==
  Larger(IF units = -1 THEN DefaultCu
         ELSE Larger(1, Smaller(CuMax, (units * 12) \div 10)),
         Asked("CuLimit"))

\* Mutant: the price per compute unit is rounded up.
CuPriceRoundedUp(limit) ==
  (request.priority * MicroPerLamport + limit - 1) \div limit

\* V0 has the total priority fee divided over the compute units.
CuPrice(limit) == (request.priority * MicroPerLamport) \div limit

\* Mutant: the tip is the user's.
TipOfUser == IF request.tip THEN <<Ix("Tip", 1, {"wallet"})>> ELSE <<>>

\* The submitter's tip is the fee payer's, behind everything else.
Tip == IF request.tip THEN <<Ix("Tip", 1, {Payer})>> ELSE <<>>

\* The instructions of a V0 message, whose budget is in two of them, and of a
\* V1 message, whose budget is in its header.
Compiled(h) ==
  IF IsV1 THEN Without(route, BudgetKinds) \o Tip
          ELSE <<Ix("CuLimit", h.limit, {}), Ix("CuPrice", h.price, {})>>
               \o Without(route, {"CuLimit"}) \o Tip

Budget(limit) ==
  [limit    |-> limit,
   price    |-> IF IsV1 THEN 0 ELSE CuPrice(limit),
   priority |-> IF IsV1 THEN request.priority ELSE 0,
   loaded   |-> IF ~IsV1 THEN 0
                ELSE IF Asked("Loaded") = 0 THEN LoadedMax ELSE Asked("Loaded"),
   heap     |-> IF IsV1 THEN Asked("Heap") ELSE 0]

\* user_signer_index: the wallet signs, and no one else but the fee payer.
SignersExpected(list) ==
  LET signers == {Payer} \cup UNION {list[i].signers : i \in DOMAIN list}
  IN  "wallet" \in signers /\ signers \subseteq {"wallet", Payer}

\* build_transaction: the budget is taken, the route simulated, the message
\* compiled and its signers checked; any of it can fail.
Build(units) ==
  /\ stage = "prepared"
  /\ BudgetValid /\ Simulates
  /\ LET h == Budget(CuLimit(units))
     IN  /\ SignersExpected(Compiled(h))
         /\ header' = h
         /\ built' = Compiled(h)
         /\ message' = Compiled(h)
  /\ index' = LastCompiledIndex
  /\ stage' = "built"
  /\ UNCHANGED <<request, response, route, charge>>

BuildFails == stage = "prepared" /\ Reject

\* finalize_fee and replace_reimbursement: the message is simulated, and the
\* instruction at the index must be the reserved transfer; without a sponsor
\* the message stays as it is.
Finalize(c) ==
  /\ stage = "built"
  /\ stage' = "final"
  /\ IF request.sponsored
       THEN /\ IsV1 \/ Processable(message)
            /\ index \in DOMAIN message
            /\ message[index].kind \in UsdcTransfers
            /\ message[index].value = Ceiling
            /\ c <= Ceiling
            /\ message' = [message EXCEPT ![index].value = c]
            /\ charge' = c
       ELSE UNCHANGED <<message, charge>>
  /\ UNCHANGED <<request, response, route, index, header, built>>

FinalizeFails == stage = "built" /\ request.sponsored /\ Reject

-----------------------------------------------------------------------------
Init ==
  /\ stage = "response"
  /\ request \in Request
  /\ response \in Response
  /\ request.source \notin V1Sources =>
       response.config = [limit |-> 0, loaded |-> 0, heap |-> 0, priority |-> 0]
  /\ route = <<>>
  /\ index = 0
  /\ header = NoHeader
  /\ built = <<>>
  /\ message = <<>>
  /\ charge = 0

Next ==
  \/ Adapt
  \/ AppendFees
  \/ \E units \in Units : Build(units)
  \/ BuildFails
  \/ \E c \in Charges : Finalize(c)
  \/ FinalizeFails

Spec == Init /\ [][Next]_vars

-----------------------------------------------------------------------------
(* Properties. *)

\* The charge is written into the sponsor's reimbursement and nowhere else,
\* whatever the format, the budget requests, the tip and the amount of the
\* SDK's own transfer: the index is computed before the message is.
ReplacesReimbursement ==
  stage = "final" =>
    /\ DOMAIN message = DOMAIN built
    /\ \A i \in DOMAIN built :
         message[i] = IF built[i].kind = "Reimburse"
                        THEN [built[i] EXCEPT !.value = charge] ELSE built[i]
    /\ Count(message, LAMBDA ix : ix.kind = "Reimburse")
         = IF request.sponsored THEN 1 ELSE 0

\* The message asks for as many compute units as the route did, for the heap and
\* account data the route did, and the cluster takes the requests: V1 has them in
\* its header, V0 has none twice, unless the source brought a price beside the
\* executor's.
BudgetHonoured ==
  stage \in {"built", "final"} =>
    /\ header.limit >= Asked("CuLimit")
    /\ IF IsV1 THEN /\ ~Some(message, IsBudget)
                    /\ header.loaded \in {Asked("Loaded"), LoadedMax} \ {0}
                    /\ header.heap = Asked("Heap")
       ELSE /\ Count(message, IsCuLimit) = 1
            /\ \A kind \in {"Heap", "Loaded"} :
                 Count(message, LAMBDA ix : ix.kind = kind)
                   = Count(route, LAMBDA ix : ix.kind = kind)
            /\ ~Some(route, LAMBDA ix : ix.kind = "CuPrice") => Processable(message)

\* What V0 pays for priority, rounded up by the cluster, stays within the
\* lamports the caller budgets.
PriorityWithinBudget ==
  stage \in {"built", "final"} /\ ~IsV1 =>
    (header.limit * header.price + MicroPerLamport - 1) \div MicroPerLamport
      <= request.priority

\* The message carries the compute budget that the route and the caller asked
\* for, no less and at no higher price.
BudgetCarried == BudgetHonoured /\ PriorityWithinBudget

\* A sponsored bloXroute or Relay swap has no instruction that spends the
\* user's SOL: setups, the SDK's accounts and the tip are the sponsor's.
SponsorPaysSol ==
  stage = "final" /\ request.sponsored /\ IsV1 =>
    \A i \in DOMAIN message :
      message[i].kind \in SolSpenders /\ message[i].value > 0 =>
        "wallet" \notin message[i].signers
=============================================================================
