---------------------------- MODULE EvmExecution ----------------------------
(***************************************************************************)
(* Concurrent Client::execute_swap calls of one wallet (evm/execution.rs), *)
(* with the parts of the outside world they race against: the mempool the  *)
(* client's node sees, transactions broadcast where that node does not see *)
(* them, mining, and the clock.                                            *)
(*                                                                         *)
(* A call executes the prepared transactions in order (approvals first,    *)
(* the swap last).  For each one it checks the quote's age, estimates gas  *)
(* and fees, reads the wallet's pending nonce, has the signer sign,        *)
(* records the hash, hands the bytes to the submitter and polls for the    *)
(* receipt.  Every arrow between two control points is an await, so calls  *)
(* interleave there.                                                       *)
(***************************************************************************)
EXTENDS Integers, Sequences

CONSTANTS
  Calls,                \* execute_swap calls sharing the wallet
  MaxTransactions,      \* most transactions one prepared swap has
  MaxNonce,             \* bound on nonces, large enough never to be met
  MaxQuoteAge,          \* MAX_QUOTE_AGE in clock ticks
  ConfirmationTimeout,  \* confirmation_timeout in clock ticks
  Submitters            \* subset of {"node", "elsewhere"}

ASSUME ConstantsAssumption ==
  /\ MaxTransactions \in Nat \ {0}
  /\ MaxNonce \in Nat
  /\ MaxQuoteAge \in Nat \ {0}
  /\ ConfirmationTimeout \in Nat \ {0}
  /\ Submitters \subseteq {"node", "elsewhere"}

VARIABLES
  prepared,      \* per call: number of transactions, submitter, chain ids
  pc,            \* per call: the await it is suspended in
  result,        \* per call: "none" while it runs, then how it ended
  age,           \* per call: ticks since created_at, capped at MaxQuoteAge
  waited,        \* per call: ticks in the current receipt poll
  nonce,         \* per call: nonce of the transaction being filled
  submitted,     \* per call: the `submitted` vector, in order
  accountNonce,  \* next nonce of the wallet the chain will mine
  pool,          \* unmined transactions the client's node knows
  hidden,        \* unmined transactions broadcast out of that node's sight
  succeeded,     \* transactions with a success receipt
  reverted,      \* transactions with a revert receipt
  overlapped     \* history: calls that ever ran beside another one

callVars  == <<prepared, pc, result, age, waited, nonce, submitted>>
chainVars == <<accountNonce, pool, hidden, succeeded, reverted>>
vars == <<callVars, chainVars, overlapped>>

\* A signed transaction, identified as its hash identifies it.
Transaction == [call : Calls, index : 1..MaxTransactions, nonce : 0..MaxNonce]

Prepared == [size      : 1..MaxTransactions,  \* quote.transactions.len()
             submitter : Submitters,
             quoteChain : BOOLEAN,            \* quote.chain_id = C::CHAIN_ID?
             nodeChain : BOOLEAN]             \* the node's chain id is too?

Filling == {"gas", "nonce", "sign", "submit"}
Control == {"idle", "chain", "next", "confirm", "done"} \cup Filling

Errors == {"wrong chain", "expired", "rpc", "sign", "submit", "mismatch",
           "reverted", "timeout"}

TypeOK ==
  /\ prepared \in [Calls -> Prepared]
  /\ pc \in [Calls -> Control]
  /\ result \in [Calls -> {"none", "ok"} \cup Errors]
  /\ age \in [Calls -> 0..MaxQuoteAge]
  /\ waited \in [Calls -> 0..ConfirmationTimeout]
  /\ nonce \in [Calls -> 0..MaxNonce]
  /\ submitted \in [Calls -> Seq(Transaction)]
  /\ accountNonce \in Nat
  /\ pool \subseteq Transaction
  /\ hidden \subseteq Transaction
  /\ succeeded \subseteq Transaction
  /\ reverted \subseteq Transaction
  /\ overlapped \subseteq Calls

-----------------------------------------------------------------------------
(* The node and the chain. *)

Unmined   == pool \cup hidden
Broadcast == Unmined \cup succeeded \cup reverted

\* eth_getTransactionCount(wallet, "pending"): the mined transactions and the
\* gapless run of pending ones the node knows.
IsPendingNonce(n) ==
  /\ n >= accountNonce
  /\ \A t \in pool : t.nonce # n
  /\ \A m \in accountNonce..(n - 1) : \E t \in pool : t.nonce = m

\* The node takes t into its mempool, displacing one with the same nonce.
EnterPool(t) ==
  /\ t.nonce >= accountNonce
  /\ pool' = {u \in pool : u.nonce # t.nonce} \cup {t}

\* A transaction broadcast out of sight reaches the client's node.
Surface(t) ==
  /\ t \in hidden
  /\ EnterPool(t)
  /\ hidden' = hidden \ {t}
  /\ UNCHANGED <<callVars, accountNonce, succeeded, reverted, overlapped>>

\* A block includes t; every other transaction with its nonce is dead.
Mine(t) ==
  /\ t \in Unmined
  /\ t.nonce = accountNonce
  /\ accountNonce' = accountNonce + 1
  /\ pool' = {u \in pool : u.nonce # t.nonce}
  /\ hidden' = hidden \ {t}
  /\ \/ succeeded' = succeeded \cup {t} /\ UNCHANGED reverted
     \/ reverted' = reverted \cup {t} /\ UNCHANGED succeeded
  /\ UNCHANGED <<callVars, overlapped>>

-----------------------------------------------------------------------------
(* execute_swap. *)

Goto(c, next) == pc[c] # next /\ pc' = [pc EXCEPT ![c] = next]

Finish(c, how) ==
  /\ Goto(c, "done")
  /\ result' = [result EXCEPT ![c] = how]

\* The transaction signed last: the one being submitted or confirmed.
Last(c) == submitted[c][Len(submitted[c])]

\* The caller starts the call; the quote's chain is checked before any await.
Start(c) ==
  /\ pc[c] = "idle"
  /\ IF prepared[c].quoteChain
       THEN Goto(c, "chain") /\ UNCHANGED result
       ELSE Finish(c, "wrong chain")
  /\ LET beside == {d \in Calls \ {c} : pc[d] \notin {"idle", "done"}}
     IN  overlapped' = IF beside = {} THEN overlapped
                       ELSE overlapped \cup beside \cup {c}
  /\ UNCHANGED <<prepared, age, waited, nonce, submitted, chainVars>>

\* check_node_chain: eth_chainId answers, or the request fails.
CheckNodeChain(c) ==
  /\ pc[c] = "chain"
  /\ \/ prepared[c].nodeChain /\ Goto(c, "next") /\ UNCHANGED result
     \/ ~prepared[c].nodeChain /\ Finish(c, "wrong chain")
     \/ Finish(c, "rpc")
  /\ UNCHANGED <<prepared, age, waited, nonce, submitted,
                 chainVars, overlapped>>

\* The head of the loop over the prepared transactions.
NextTransaction(c) ==
  /\ pc[c] = "next"
  /\ \/ Len(submitted[c]) = prepared[c].size /\ Finish(c, "ok")
     \/ /\ Len(submitted[c]) < prepared[c].size
        /\ age[c] >= MaxQuoteAge
        /\ Finish(c, "expired")
     \/ /\ Len(submitted[c]) < prepared[c].size
        /\ age[c] < MaxQuoteAge
        /\ Goto(c, "gas") /\ UNCHANGED result
  /\ UNCHANGED <<prepared, age, waited, nonce, submitted,
                 chainVars, overlapped>>

\* fill: the gas limit and the fees, taken from the quote or estimated.
FillGas(c) ==
  /\ pc[c] = "gas"
  /\ \/ Goto(c, "nonce") /\ UNCHANGED result
     \/ Finish(c, "rpc")
  /\ UNCHANGED <<prepared, age, waited, nonce, submitted,
                 chainVars, overlapped>>

\* Mutant: the nonce of the latest block, which counts no pending transaction.
FillLatestNonce(c) ==
  /\ pc[c] = "nonce"
  /\ Goto(c, "sign")
  /\ nonce' = [nonce EXCEPT ![c] = accountNonce]
  /\ UNCHANGED <<prepared, result, age, waited, submitted,
                 chainVars, overlapped>>

\* fill: the nonce is read last.
FillNonce(c) ==
  /\ pc[c] = "nonce"
  /\ \/ /\ Goto(c, "sign") /\ UNCHANGED result
        /\ \E n \in 0..MaxNonce :
             IsPendingNonce(n) /\ nonce' = [nonce EXCEPT ![c] = n]
     \/ Finish(c, "rpc") /\ UNCHANGED nonce
  /\ UNCHANGED <<prepared, age, waited, submitted, chainVars, overlapped>>

\* The signer answers.  Bytes that verify_signed accepts are this very
\* transaction signed by the wallet; its hash is recorded before it is sent.
Sign(c) ==
  /\ pc[c] = "sign"
  /\ \/ /\ Goto(c, "submit") /\ UNCHANGED result
        /\ submitted' = [submitted EXCEPT ![c] = Append(@,
             [call |-> c, index |-> Len(@) + 1, nonce |-> nonce[c]])]
     \/ Finish(c, "sign") /\ UNCHANGED submitted
  /\ UNCHANGED <<prepared, age, waited, nonce, chainVars, overlapped>>

\* The submitter reports the hash: the transaction has been broadcast.
Acknowledged(c) ==
  /\ pc[c] = "submit"
  /\ \/ /\ prepared[c].submitter = "node"
        /\ EnterPool(Last(c)) /\ UNCHANGED hidden
     \/ /\ prepared[c].submitter = "elsewhere"
        /\ hidden' = hidden \cup {Last(c)} /\ UNCHANGED pool
  /\ Goto(c, "confirm")
  /\ waited' = [waited EXCEPT ![c] = 0]
  /\ UNCHANGED <<prepared, result, age, nonce, submitted, accountNonce,
                 succeeded, reverted, overlapped>>

\* Mutant: the hash is recorded only once the submitter has reported it.
SubmitFailsUnrecorded(c) ==
  /\ pc[c] = "submit"
  /\ hidden' \in {hidden, hidden \cup {Last(c)}}
  /\ submitted' = [submitted EXCEPT ![c] = SubSeq(@, 1, Len(@) - 1)]
  /\ Finish(c, "submit")
  /\ UNCHANGED <<prepared, age, waited, nonce, accountNonce, pool, succeeded,
                 reverted, overlapped>>

\* Mutant: a failed submit call is retried with a freshly filled transaction.
SubmitRetries(c) ==
  /\ pc[c] = "submit"
  /\ hidden' \in {hidden, hidden \cup {Last(c)}}
  /\ Goto(c, "gas")
  /\ UNCHANGED <<prepared, result, age, waited, nonce, submitted,
                 accountNonce, pool, succeeded, reverted, overlapped>>

\* The submitter fails, or reports another hash.  Either way the transaction
\* may have been broadcast, and may reach the client's node later.
SubmitFails(c) ==
  /\ pc[c] = "submit"
  /\ hidden' \in {hidden, hidden \cup {Last(c)}}
  /\ \E how \in {"submit", "mismatch"} : Finish(c, how)
  /\ UNCHANGED <<prepared, age, waited, nonce, submitted, accountNonce, pool,
                 succeeded, reverted, overlapped>>

\* Mutant: the timeout bounds each request of the poll, not the whole of it.
PollRestartsTimeout(c) ==
  /\ pc[c] = "confirm"
  /\ \/ /\ Last(c) \in succeeded /\ Goto(c, "next")
        /\ UNCHANGED <<result, waited>>
     \/ Last(c) \in reverted /\ Finish(c, "reverted") /\ UNCHANGED waited
     \/ /\ Last(c) \notin succeeded \cup reverted
        /\ waited' = [waited EXCEPT ![c] = 0]
        /\ UNCHANGED <<pc, result>>
  /\ UNCHANGED <<prepared, age, nonce, submitted, chainVars, overlapped>>

\* confirm: the poll finds a receipt.
ReceiptFound(c) ==
  /\ pc[c] = "confirm"
  /\ \/ Last(c) \in succeeded /\ Goto(c, "next") /\ UNCHANGED result
     \/ Last(c) \in reverted /\ Finish(c, "reverted")
  /\ UNCHANGED <<prepared, age, waited, nonce, submitted,
                 chainVars, overlapped>>

\* confirm: a receipt request fails, which ends the poll.
ReceiptFails(c) ==
  /\ pc[c] = "confirm"
  /\ Finish(c, "rpc")
  /\ UNCHANGED <<prepared, age, waited, nonce, submitted,
                 chainVars, overlapped>>

\* Mutant: a transaction that is not mined in time is taken as confirmed.
TimeoutConfirms(c) ==
  /\ pc[c] = "confirm"
  /\ waited[c] >= ConfirmationTimeout
  /\ Goto(c, "next")
  /\ UNCHANGED <<prepared, result, age, waited, nonce, submitted,
                 chainVars, overlapped>>

\* confirm: the timeout around the poll elapses.
ConfirmTimesOut(c) ==
  /\ pc[c] = "confirm"
  /\ waited[c] >= ConfirmationTimeout
  /\ Finish(c, "timeout")
  /\ UNCHANGED <<prepared, age, waited, nonce, submitted,
                 chainVars, overlapped>>

\* A clock tick; ages saturate at the limits they are compared with.
Tick ==
  /\ age' = [c \in Calls |->
       IF age[c] < MaxQuoteAge THEN age[c] + 1 ELSE age[c]]
  /\ waited' = [c \in Calls |->
       IF pc[c] = "confirm" /\ waited[c] < ConfirmationTimeout
         THEN waited[c] + 1 ELSE waited[c]]
  /\ UNCHANGED <<prepared, pc, result, nonce, submitted,
                 chainVars, overlapped>>

-----------------------------------------------------------------------------
Init ==
  /\ prepared \in [Calls -> Prepared]
  /\ pc = [c \in Calls |-> "idle"]
  /\ result = [c \in Calls |-> "none"]
  /\ age = [c \in Calls |-> 0]
  /\ waited = [c \in Calls |-> 0]
  /\ nonce = [c \in Calls |-> 0]
  /\ submitted = [c \in Calls |-> <<>>]
  /\ accountNonce = 0
  /\ pool = {} /\ hidden = {} /\ succeeded = {} /\ reverted = {}
  /\ overlapped = {}

\* The steps a running call is bound to take once its await resolves.
Advance(c) ==
  \/ CheckNodeChain(c) \/ NextTransaction(c)
  \/ FillGas(c) \/ FillNonce(c) \/ Sign(c)
  \/ Acknowledged(c) \/ SubmitFails(c)
  \/ ReceiptFound(c) \/ ConfirmTimesOut(c)

Environment == Tick \/ \E t \in Unmined : Surface(t) \/ Mine(t)

Next ==
  \/ \E c \in Calls : Start(c) \/ Advance(c) \/ ReceiptFails(c)
  \/ Environment

Spec == Init /\ [][Next]_vars

\* Node, submitter and signer awaits resolve (http.rs bounds the requests) and
\* time passes.  Nothing obliges a block to include a transaction.
Fairness == WF_vars(Tick) /\ \A c \in Calls : WF_vars(Advance(c))

FairSpec == Spec /\ Fairness

-----------------------------------------------------------------------------
(* Properties. *)

\* SwapError.submitted and SwapResult.transaction_hashes name every
\* transaction of the call that is on the network or on the chain, even when
\* the submit call failed and the transaction landed later.
EveryBroadcastRecorded ==
  \A t \in Broadcast :
    /\ t.index \in 1..Len(submitted[t.call])
    /\ submitted[t.call][t.index] = t

\* At most the last recorded transaction is in doubt: whatever the end of the
\* call, all before it are mined and successful, so a swap is never sent
\* before its approvals have taken effect.
OnlyLastInDoubt ==
  \A c \in Calls : \A i \in 1..(Len(submitted[c]) - 1) :
    submitted[c][i] \in succeeded

\* What the caller is told agrees with the chain: success means the whole
\* prepared list is mined and successful, a revert was a revert of the last
\* transaction, an expired quote leaves nothing in doubt, and a wrong chain
\* stopped the call before anything was signed.
OutcomeMatchesChain ==
  \A c \in Calls :
    /\ result[c] = "ok" => Len(submitted[c]) = prepared[c].size
    /\ result[c] \in {"ok", "expired"} =>
         \A i \in 1..Len(submitted[c]) : submitted[c][i] \in succeeded
    /\ result[c] = "reverted" => Last(c) \in reverted
    /\ result[c] = "wrong chain" => submitted[c] = <<>>

\* No transaction of a quote older than the limit reaches the submitter
\* (README: "Quotes expire locally after 60 seconds").
FreshWhenSubmitted ==
  [][\A c \in Calls :
       pc[c] = "submit" /\ pc'[c] # "submit" => age[c] < MaxQuoteAge]_vars

\* An acknowledged transaction that is still unmined does not have its nonce
\* taken by a transaction submitted later (node.rs: "so a still-unmined
\* earlier swap is not overwritten").  Three kinds of transactions are not
\* counted: those whose submit call failed, which the caller was told to check
\* before starting again, those broadcast where the client's node does not see
\* them, and those of calls that ran beside another one, which can read the
\* same nonce.
EarlierNotOverwritten ==
  [][\A c \in Calls :
       pc[c] = "submit" /\ pc'[c] = "confirm" =>
         \A t \in Unmined :
           t # Last(c) /\ t.nonce = Last(c).nonce =>
             \/ result[t.call] \in {"submit", "mismatch"}
             \/ prepared[t.call].submitter = "elsewhere"
             \/ t.call \in overlapped]_vars

\* A started call ends, whatever the chain does: the receipt poll is bounded
\* by the confirmation timeout and nothing is resubmitted.
Termination ==
  \A c \in Calls : pc[c] \notin {"idle", "done"} ~> pc[c] = "done"

\* The promise of SwapOutcome: transactions are announced one at a time, each
\* after the one before has landed, and the verdict is final.
Outcome == INSTANCE SwapOutcome WITH
  size <- [c \in Calls |-> prepared[c].size],
  announced <- [c \in Calls |-> Len(submitted[c])],
  landed <- [c \in Calls |->
               {i \in 1..Len(submitted[c]) : submitted[c][i] \in succeeded}],
  verdict <- [c \in Calls |->
               IF result[c] \in {"none", "ok"} THEN result[c] ELSE "unconfirmed"]

KeepsPromise == Outcome!Spec
=============================================================================
