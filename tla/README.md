# trading_aggregators in TLA+

A verification development of the crate `trading_aggregators`: clients that
quote and execute token swaps on Solana and on an EVM chain (Robinhood Chain),
through aggregators (Jupiter, DFlow, bloXroute, Relay) and through native
markets (Pump.fun, PumpSwap, Uniswap). Source paths below are relative to the
repository's `src/`; line references of every definition are in `PROJECT.json`.

The crate keeps almost no state of its own. What makes it hard is that each
call is a chain of `await`s against things that move meanwhile: chains, price
feeds, providers, signers, submitters, other calls of the same wallet. Nothing
is retried after it was sent, so every ambiguity of a network ends in what the
caller is told. The rest is money arithmetic in which every rounding and every
fee has a direction.

## Inventory

| component | state | operations | interacts with | hard because |
|---|---|---|---|---|
| EVM swap execution (`evm/execution.rs`, `node.rs`, `submit.rs`) | a call's list of submitted hashes | `execute_swap`: age check, fill, nonce, sign, submit, poll receipt | node, signer, submitter, chain | calls of a wallet race for a nonce; ambiguous submissions; timeouts that race receipts |
| EVM sources: Relay (`evm/sources/relay`), Uniswap (`evm/dexes/uniswap`) | none; allowances on chain | `prepare`, `find_market`, `eth_pool` | Relay's API, Uniswap's contracts, CswapRouter | concurrent probes of moving pools; approvals that outlive their call |
| Solana swap execution (`solana/client/mod.rs`, `executor.rs`, `submit.rs`) | none | `swap`, `submit`, confirmation, measuring the output | cluster, signers, submitter | two balance reads around a race; partial failure after sending |
| Gas sponsor (`solana/gas_sponsor`) | policy limits | reserve the ceiling, simulate, price, replace the charge | simulation, price feed, both signers | cost and rate change between simulation and signature |
| Settlement fees (`solana/sdk_fee.rs`, `provider_fee.rs`, `client/routing.rs`) | none | fee before or after routing, checks of the candidate, `append_fees` | all sources, sponsor | several fees of one amount; unsigned subtraction |
| Transaction layout (`solana/sources`, `executor.rs`) | none | accept a provider's instructions, add budget, tip, fees, charge | providers | indices into a list other code extends; a sponsor that pays for what it did not approve |
| Shared lookup tables (`solana/lookup_table.rs`, `examples/create_shared_alt.rs`) | the client's snapshots; a table on chain | create, extend, resume, wait; load, refresh | lookup-table program | crashes and late transactions between runs; indices into stale snapshots |
| Pump markets (`solana/dexes`) | cached fee rates | `find_native_market`, load a curve or pool, quote | the Pump programs | graduation between two reads; torn reads; rounding |
| Provider adapters (`solana/sources`, `evm/sources/relay`) | none | ask, compare the answer with the trade, decode its instructions | providers, routing | each provider takes its fees from another amount, before or after the slippage tolerance; an answer may disagree with the request in one field |
| Aggregator HTTP (`aggregators`, `http.rs`), USD values | none | request and decode; read pools beside the route | providers, cluster | the reads are outside the route's deadline; the rest is I/O and informational numbers |
| Facade, errors | none | re-exports | all | not modelled |

Flow of a Solana trade: `TradingClient::swap` validates the trade, picks a
source, takes the fee (SettlementFees), lets an adapter quote it (PumpMarkets,
or a provider whose quote ProviderQuotes and whose instructions TransactionLayout
check) while pools are read for a USD value, appends transfers,
builds the message (TransactionLayout), and executes it (SolanaSwap), optionally
with shared tables (SharedLookupTables). Flow of an EVM trade: a source prepares
one or more transactions (EvmQuotes with UniswapMarket, EvmAllowances) that `execute_swap` runs
(EvmExecution). The flows meet only in `SwapOutcome`, what both promise.

## Modules

`SwapOutcome` is the abstract specification of a call: transactions are
announced in order, each once and after its predecessors have landed; success
only when everything has landed; nothing is announced after a verdict, while the
last transaction may still land. `EvmExecution` and `SolanaSwap` implement it
(`KeepsPromise`, by `INSTANCE ... WITH`), checked and proved.

`EvmExecution`: one process per call; each value of `pc` is an await. `Start`
takes a prepared swap; `Advance` goes through age check, filling, nonce, signing,
submission and poll, every error return included; `ReceiptFails` is a failed
poll. The environment mines, drops or hides transactions and moves the clock.
A transaction is identified by call, index and nonce, as its hash is. The
history variable `overlapped` holds the calls that ever ran beside another one.

`SolanaSwap`: the same for `swap` and `submit`. The join of the balance read and
the preparation is a set of branches still running. A balance is the set of
swaps whose output it contains, so "the measured output contains the swap's
own" is membership. The sponsor's cost (`netCost`) moves at any moment; each
simulation, the feed's answer and the comparison before the first signer is asked
are steps of their own, so that what is compared (`recost`) may be out of date.
`costAge` and `priceAge` say by how much the charge's cost and rate are.
`Cluster` executes, finalizes or fails what was sent at any time or never.

`SettlementFees`: a trade from the builder calls that configure the client to
the executed transaction, over every answer a provider can give that
`validate_candidate` lets pass.

`ProviderQuotes` puts real adapters into SettlementFees: a provider answers with
the quote it documents, or with one that departs from it in one field, and the
four adapters and `validate_candidate` make their checks. `Receive` replaces
`Route`; that every step is still one of SettlementFees is `ImplementsSettlement`.
The terms an answer echoes (mints, wallet, fee account, version, ...) are names of
which one can be wrong. The pools read for the USD value (`pool_prices`) are
beside the route; `Deadline` is the 15 s of `bounded_route`, after which
`overdue` holds until the call returns.

What a provider documents is taken from how the adapters read it: the platform
fee of a sell comes off the output, the tolerance applies to what is left, and
Relay takes its own fee after that. Relay reports fees on the EVM chain in any
currency, and applies the tolerance before all of them (`mod.rs:121`).

`TransactionLayout`: a provider's list, with what is prepended, filtered,
refused and appended, and the charge written into the compiled message at an
index found again. An instruction is its kind, number and signers. Jupiter's list
is taken whole, compute prices included. `Processable` is the cluster's refusal of
a message that asks for one thing twice, which the simulations report.

`SharedLookupTables`: runs of the program one after the other, killed at any
await, their transactions landing late or expiring, and a client's snapshots. The
authority can retire a table at any time; it is looked up (`Served`) for another
`CoolDown` slots, and stays in the caches of clients that loaded it before.

`UniswapMarket`: discovery (parallel reads, then parallel probes), `eth_pool`
before a trade that names its pool (`ResolvePool`), the checks of that trade,
quotes of v2, v3 and v4 net of the fee, and CswapRouter's answer on pools others
trade in.

`EvmQuotes`: `prepare_swap` of the EVM client, by Uniswap as in UniswapMarket, or
by Relay, whose answers are as documented or wrong in one field;
`sources/relay/mod.rs` checks their terms, amounts, slippage floor and app fee.

`EvmAllowances`: what the prepared transactions of Relay and Uniswap approve and
pay, and what contracts may take, when calls overlap, fail or time out.

`PumpMarkets`: `find_native_market` with its two parallel reads while others
trade, complete and migrate the curve; `load_curve`; `load_pool`, whose account
and two vaults are three reads, of the canonical pool or of one the trade names
(`sidePool`); the fee cache; `compute_quote` of both adapters. `IdlNet` is the
input of the curve program's own formula, as `pumpfun/idl.json` has it.

`Sublists` (`Kept`) is a list without some of its elements, named by position: what
SharedLookupTables and TransactionLayout do where the code filters.

`MC*` modules give these small instances (MCProviderQuotes also of
SettlementFees, MCEvmQuotes also of UniswapMarket). Operators whose comment
begins with "Mutant" are not part of the model: each is a plausible bug of the
definition after it, under which the property named in `PROJECT.json` fails.

## Runs

| run | asks |
|---|---|
| `evm_swaps` | two calls of a wallet, overlapping or not, every submitter: are broadcasts recorded, is the verdict true, is a pending transaction of a call that ran alone safe from later calls, is SwapOutcome kept, and does each call end |
| `evm_stale_quote` (violation) | a quote checked below its age limit is submitted past it when filling or signing takes time |
| `solana_swaps` | two overlapping calls, sponsored or not, over the boundaries of costs, rates, caps and ages: signatures cover the final transaction, the sponsor is paid what was simulated, the estimate has a bounded age when the first signer is asked, statuses are true, the measured output contains the swap's own, SwapOutcome is kept, and each call ends |
| `provider_quotes` | every trade and fee collection, sponsored or not, through a native source and the four providers, honest or wrong in one field: honest answers are taken, accepted ones are quotes SettlementFees allows, budgets, minimums and tolerance are kept, one fee, no underflow |
| `relay_net_answers` (violation) | a Relay answer whose own fee came off after the tolerance is refused on Solana |
| `preparation_deadline` (violation) | the preparation outlasts its 15 s while pools are read for the USD value |
| `transaction_layout` | every source and response: the charge replaces only the reserved transfer, the compute budget is honoured, sponsored routes leave the user's SOL alone |
| `lookup_tables` | two runs, killed anywhere, and a client: an index of a snapshot never names another address, a ready table holds every address, no address twice, refresh is all or nothing, while tables grow and are retired |
| `evm_quotes` | eleven Uniswap pools: quotes are what the router does, slippage holds, the deepest pool is found when nothing moves; Relay with fees in every currency: documented answers are taken, and what is delivered on keeps tolerance and fee |
| `allowances` | two calls in any interleaving and 29 kinds of Relay's answers: allowances and takings are bounded by the trades; a sale that no other call overlapped has the allowance it planned for |
| `pump_markets` | a token that trades and graduates between any two reads: discovery, budgets, quotes |
| `pump_none` (violation) | discovery answers `None` for a token that always had a market |

Runs that have `CHECK_DEADLOCK FALSE` model one trade, or a bounded number of
calls, which may end.

### Bounds

- Two calls suffice for races between calls: each property relates a call to the
  chain, or one call to another. A swap has at most two transactions, as an
  approval and the swap behind it. `MaxNonce` is never met.
- Clocks count ticks up to the limit they are compared with; ages are capped
  there because nothing tells greater ones apart. `ConfirmationTimeout = 1` and
  `Deadline = 1` allow a transaction to land before, at and after the limit.
- Amounts are small and denominators are scaled with them (`BasisPoints` is 3 or
  10): every quotient has all its remainders. The proofs cover the real values.
- `provider_quotes` has amounts to 5, a fee of 0 or 1 and a slippage of 0 or 1 in
  3: fee and tolerance round up, down and not at all, and every field of an answer
  takes every amount. `RelayerFees = {0, 1}`: with and without Relay's own fee.
  Settings that nothing reads have one value (`MCInit`). In `evm_quotes` Relay
  finds outputs to 8 and keeps 1 or 3 in the input or the output.
- `MaxMoves` (2 or 3) bounds what others do to a market during a call: one move
  between each pair of reads that are compared. `pump_markets` needs two for a
  complete graduation.
- Lists of a provider (`MCTransactionLayout`, `MCEvmAllowances`) contain for each
  check of the code an entry that fails it, and the neighbours it could be
  confused with.
- `MaxRuns = 2`, `Capacity = 4`, `ChunkSize = 2`: a run that needs two
  extensions, and one that resumes it at each point, up to a full table.
  `CoolDown = 1`: a retired table is looked up in one more slot, then no longer.

### Fairness

Only `evm_swaps` and `solana_swaps` assume any, for termination (safety does not
depend on it): weak fairness of each call's own next step (RPC and provider
requests have timeouts in `http.rs`, a signer or submitter is assumed to return)
and of the clock. Nothing is assumed of miners, the
cluster or submissions: the calls end because their polls are bounded.

## Proofs

TLAPS proves, for every value of the constants, in the `*Proofs` modules:

- **EvmExecutionProofs**: `TypeOK`, `EveryBroadcastRecorded`, `OnlyLastInDoubt`,
  `OutcomeMatchesChain`, refinement of `SwapOutcome` and `EarlierNotOverwritten`.
  The invariant `IndInv` adds
  what links a call's `pc` to its list: all but the last submitted are mined with
  success, the last is not known to the chain before it is handed over, and a
  result fixes `pc`. Without it the properties are not inductive: a step to the
  next transaction needs the successful receipt of the one before. For the nonces,
  `NonceInv` adds what a call knows since it has read its own: whatever took that
  nonce in the node's pool afterwards came from a call beside it, or from a
  submission that failed or went elsewhere.
- **SolanaSwapProofs**: `TypeOK`, `SignersAgree`, `CostsRecovered`,
  `ReportedIsEncoded`, `StatusMatchesChain`, `ReceivedCountsOwn`,
  `EstimateIsBounded` and the refinement. Its invariant (`CallHolds`) says for each
  await what has been read, charged, signed and sent by then, for example that
  the charge was computed from the cost and rate that are kept, by rounding up.
  `AgeInv` adds that since a second simulation agreed with the first, the cost is
  no older than the rate, whose age is compared at the end: the cost is bounded
  although nothing in the code measures its age.
- **ProviderQuotesProofs**, about SettlementFees: `TypeOK`, `NeverOverspent`,
  `NeverBelowQuote`, `ChargedOnce`, and `ServiceBelowCeiling`. The invariant records
  what each stage's checks have established; lemmas bound a fee by its basis. About
  ProviderQuotes: `ImplementsSettlement`, hence the properties above with real adapters, `SlippageKept` and `HonestAccepted`, for all amounts, rates
  and tolerances. What an adapter accepted is a fact about one answer, while the
  properties speak of the trade after two more fees; the invariant `QuotesInv`
  carries what is needed from the one to the other: the candidate's minimum keeps
  the tolerance of its expected output as long as a candidate is kept.
  Lemmas show that a documented answer passes each check, from the bounds of a
  quotient, and that a reported fee is the rounded share of what it was taken from.
- **PumpMarketsProofs**: `TypeOK`; `BudgetKept` and `NearDocumentedNet` for all
  budgets and rates, `QuoteIsExact` for all reserves, `FoundWasTrue` for all
  interleavings. The arithmetic replaces each quotient by its product with the
  divisor; two fees rounded up exceed the exact ones by less than two units, which
  the one unit the SDK keeps back covers. The branch of `pumpswap` that reduces the
  amount by an excess is shown never to be needed. Discovery's invariant says what
  a read that missed a market shows: that the other market existed, or none, at
  some moment. That of the reads (`RInv`) says which parts of a pool are known to be
  what they were, as long as the pool has not changed since its account was read,
  and that a positive output of the formula is the most the market pays
  (`OutIsMost`). `IdlNetIs` relates the SDK's input of a curve to the documented
  one, which `QuoteIsExact` of a curve's buy is stated by.
- **EvmQuotesProofs**, about both sources: `EvmTypeOK`, `QuoteIsExact`,
  `SlippageHonoured`, `DeepestWhenQuiet`, `RelayTolerance` and `RelayHonestAccepted`. `PoolOutIs` shows that what a pool's product leaves is the
  formula of `v2::quote`, `PortionIs` that quotient and remainder give what the large
  product would. `QuoteInv` states a prepared quote by the reserves it was read
  from, not by those of the pool: others may move the pool and move it back.
  `ProbeInv` ties every probe to the reserves as long as no pool has moved.
- **EvmAllowancesProofs**: `TypeOK`, `WithinTrades`, `ApprovedFirst`,
  `SalesCovered`, for any number of calls. Takings are bounded by a sum over the
  approvals that were mined; the invariant adds that each transaction is mined once,
  that the calls' transactions succeed in order, and that a plan has approvals of
  at most its trade before its swap and ether in its swap only. For `SalesCovered`,
  `Covered` adds that without overlap at most one call is live, and that its swap has
  its allowance as soon as the approvals before it are mined.
- **SharedLookupTablesProofs**: `TypeOK`, `SnapshotsResolve`, `ReadyMeansUsable`,
  `NoDuplicates` and `RefreshKeepsTables`, for lists of every length and any number
  of runs. `RunInv` says what may still land (a transaction of a run in doubt, or the
  one the current run waits for) and that no table of the run holds what is still
  to be sent; `TableInv` that entries are in the order of their slots, so that one
  warm entry makes those before it warm; `ClientInv` that each snapshot is a beginning
  of its table, and where a refresh is. `ReadyMeansUsable` is inductive only with
  `SeenKept`: what was read is still there when the slot is read later.
- **TransactionLayoutProofs**: `TypeOK`, `ReplacesReimbursement`, `BudgetCarried`
  and `SponsorPaysSol`, for answers of every length (a V0 message has one price, and
  is processable, unless the route brought a price of its own). `RouteInv` says which instructions
  a route may hold at each stage (`Provided`, `Allowed`) and that it has one
  reserved transfer exactly if it is sponsored; `BuiltInv` that index and message were
  made from the same route. That an instruction keeps its place among those that
  stay when others are filtered out is proved of `Kept`, once here and once in
  SharedLookupTablesProofs, which do not extend each other.

Lists are proved about without recursion: `Kept` numbers the positions that stay by
how many there are up to each, and where an induction is needed (a position of
each rank, a sum over a finite set) the least counterexample is taken
(`WFMin` with `FS_StrictSubsetOrderingWellFounded`).

The proofs assume only the ASSUMEs of the modules, which TLC evaluates in its
runs.

The runs check one type invariant, that of SettlementFees (`provider_quotes`), which says that no
`u64` subtraction underflows; those of the other modules are proved instead, that of
UniswapMarket as part of `EvmTypeOK`.

Every safety invariant, action property and refinement of the passing runs is a
theorem. Only model-checked: `Termination` of EvmExecution and SolanaSwap, because
TLAPS has no ENABLED and therefore no fairness. The runs that expect a violation
state what is not so, and have nothing to prove.

## Findings

- Quotes can be submitted older than the 60 s of README.md:110: the age is
  checked before the gas, the nonce and the signature are awaited
  (`evm_stale_quote`).
- `find_native_market` can miss a token that graduates within one slot between
  its reads, against `client/mod.rs:168` (`pump_none`). Reading the curve first
  and the pool afterwards would not.
- The two adapters of Relay disagree. The EVM one knows that Relay takes its own
  fee after the tolerance and adds it back (`evm/sources/relay/mod.rs:121`); the
  Solana one compares the minimum with the tolerance of the net output and refuses
  such an answer (`relay_net_answers`). Without a fee of Relay's none is refused,
  which is proved.
- The 15 s of README.md:381 bound the route, but the pool reads for the USD value
  are joined with it outside that bound (`preparation_deadline`): an optional
  number can hold up a finished route, or a failed one.

The models contain some more disagreements, around which the properties of the
passing runs are stated; no run has them as violations:

- A curve's buy is priced with up to one lamport more than the formula of
  `pumpfun/idl.json:924-928`, so that without slippage its limit can be out of reach
  on an unmoved curve. `QuoteIsExact` says of a curve that the quoted output is what
  it pays for the documented input or for one lamport more, and nothing is
  claimed about reaching the limit; the bound of one lamport
  (`NearDocumentedNet`) is checked and proved.
- A compute price among Jupiter's instructions reaches the message: the other
  adapters drop or refuse it, the executor adds its own (`sources/mod.rs:176`), and
  V0 then has two, which the cluster refuses. `BudgetCarried` excepts this case.
  Whether Jupiter sends one is not in the repository.
- `create_shared_alt` calls a table "Ready for any trading wallet" (line 82)
  without looking whether it was retired while the run waited, and
  `lookup_table.rs:74` refuses to load such a table. `ReadyMeansUsable` is about
  tables that are still served, as is `SnapshotsResolve`: a client does not learn
  that a table it has cached was retired.
- `eth_pool` resolves official pools "that `QuoteSource::Uniswap` can trade"
  (`uniswap/mod.rs:84`) without reading the reserves of a v2 pair: an empty one is
  resolved and then refused by `v2.rs:46`. Both steps are in the model, with such a
  pair among the pools, and no property says that they agree.
- `EarlierNotOverwritten` leaves out what the node does not see: a transaction
  that was broadcast elsewhere, timed out and is unknown to the node can lose its
  nonce to a later call, whatever the comment of `node.rs:74` suggests; so can
  those of calls that ran side by side.

And `executor.rs:36` still counts sponsored bloXroute and Relay swaps among the
V0 ones, while the code builds V1.

## Abstractions and what is not modelled

- Keys, addresses, calldata and message bytes are names; signatures are what
  they cover; a rejected or malformed answer is one failing step.
- SolanaSwap: transactions of different calls are distinct; blockhash expiry is a
  transaction that never lands; a price in the future or of zero is a failing
  feed. A submitter that acknowledges is taken to return the transaction's own
  signature. After the first signer is asked the code compares nothing any more:
  the cost can move until execution, and no property says otherwise.
- SharedLookupTables: tables are named by the run that made them; reads are at
  one commitment; funding is part of a run's failure. A retired table can be
  closed after its cool-down; closing is not modelled, the table just stops being
  served.
- TransactionLayout: the simulation's headroom of 20 % is integer arithmetic; the
  cast of the price to u64 is not modelled. `SponsorPaysSol` is about the
  instructions of the message, not about what the programs they call do.
- UniswapMarket: one pair of reserves stands for the liquidity of each version;
  the quoters and CswapRouter are external and follow README.md:198-214; USD
  values and deadlines are left out; moves change only pools the trade can meet.
- EvmAllowances: one token; no nonces or ages; Relay's calldata is opaque, so its
  contracts may take whatever they are allowed. Overlapping sales can exhaust
  each other's allowance: the code does not promise otherwise, so `SalesCovered`
  speaks of histories in which no call was prepared while another ran
  (`overlapped`).
- PumpMarkets: the repository does not document the formula of PumpSwap, which is
  taken to pay by the product of its reserves for the input the SDK prices;
  account lists, encoding and the mint accounts are left out; the
  curve of another mint that a trade names is quoted, as in the code, and is for
  the program to refuse. Integers are unbounded.
- ProviderQuotes: an answer is wrong in one field at most; what a provider does
  afterwards with the instructions it sent is TransactionLayout's; sponsored
  requests differ in their payer only. The `Dex` methods without a fee, for
  `quote`, are the same path.
- EvmQuotes: Relay's router gives at least the minimum of its calldata, which is
  that of the answer. Fees Relay converts to another currency are taken as it
  reports them, as in the code.
- Not modelled: HTTP clients and JSON types (their bounds and errors are a failed
  request), the prices of USD values, errors and re-exports.

## Plan

Written so far, in this order: SwapOutcome, EvmExecution, SolanaSwap,
SettlementFees, SharedLookupTables, TransactionLayout, UniswapMarket,
EvmAllowances, PumpMarkets, ProviderQuotes, EvmQuotes, and the eight proof modules.

To extend the model:
1. PumpMarkets: several calls that share the fee cache; the spot price of a pool
   (`usd_value.rs`).
2. A composition of EvmAllowances with EvmExecution's nonces.

To prove more:
1. The part of termination that is safety: a measure of each call that every step
   of its own lowers and nothing raises.
2. EvmAllowances: what overlapping sales of one token still keep.

Run one check with `tlc -workers 2 -config <run>.cfg <module>` and one proof
module with `tlapm <module>.tla`, in this directory.
