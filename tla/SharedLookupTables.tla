------------------------- MODULE SharedLookupTables -------------------------
(***************************************************************************)
(* The address lookup table that many wallets share: successive runs of    *)
(* examples/create_shared_alt.rs that create, extend and resume it, the    *)
(* lookup-table program on the cluster, and a trading client that loads,   *)
(* caches and refreshes snapshots of such tables (solana/lookup_table.rs,  *)
(* solana/client/mod.rs).                                                  *)
(*                                                                         *)
(* A run is a process: it can be killed or see an RPC error at every       *)
(* await, and the transaction it was waiting for can still land afterwards *)
(* or expire.  The operator starts the runs one after the other, resuming  *)
(* a table or not.  Tables are named by the run that created them.         *)
(***************************************************************************)
EXTENDS Integers, Sequences, Sublists

CONSTANTS
  CurveAddresses,  \* addresses Pump.fun trades share, in the order listed
  SwapAddresses,   \* addresses PumpSwap trades share
  OldTables,       \* address lists a table from before may hold
  KeyLists,        \* table addresses a client may be configured with
  ChunkSize,       \* EXTEND_CHUNK_SIZE
  Capacity,        \* LOOKUP_TABLE_MAX_ADDRESSES
  Attempts,        \* ACTIVATION_ATTEMPTS
  CoolDown,        \* slots for which a retired table can still be looked up
  MaxRuns,         \* bound on the runs of the program
  MaxSlot          \* bound on the cluster's slots

Keys      == 0..MaxRuns
Elements(s) == {s[i] : i \in DOMAIN s}
Addresses == Elements(CurveAddresses) \cup Elements(SwapAddresses)
             \cup UNION {Elements(o) : o \in OldTables}

ASSUME ConstantsAssumption ==
  /\ CurveAddresses \in Seq(Addresses) /\ SwapAddresses \in Seq(Addresses)
  /\ OldTables # {}
  /\ \A o \in OldTables : o \in Seq(Addresses) /\ Len(o) <= Capacity
  /\ KeyLists \subseteq Seq(Keys)
  /\ ChunkSize \in Nat \ {0}
  /\ Capacity \in Nat
  /\ Attempts \in Nat
  /\ CoolDown \in Nat
  /\ MaxRuns \in Nat
  /\ MaxSlot \in Nat \ {0}

VARIABLES
  slot,       \* current slot of the cluster
  tables,     \* per key: does the table exist, when was it retired, its entries
  inflight,   \* transactions that may still land
  landed,     \* transactions that succeeded
  run,        \* number of the current run, 0 before the first
  pc,         \* what the run is doing
  table,      \* the run's table: {} until it has one
  missing,    \* addresses the run has still to add
  current,    \* the transaction it is waiting for, if any
  attempts,   \* rounds of wait_until_active so far
  seen,       \* entries it read in this round
  ambiguous,  \* runs that ended while a transaction of theirs was in flight
  queue,      \* keys the client has still to load
  loaded,     \* snapshots it has loaded in this operation
  cached      \* shared_lookup_tables

chainVars  == <<slot, tables, inflight, landed>>
runVars    == <<run, pc, table, missing, current, attempts, seen, ambiguous>>
clientVars == <<queue, loaded, cached>>
vars == <<chainVars, runVars, clientVars>>

Never == MaxSlot + 1   \* deactivation_slot of a table that is not retired

Entry    == [address : Addresses, slot : 0..MaxSlot, run : Keys]
Table    == [exists : BOOLEAN, deactivation : 1..Never, entries : Seq(Entry)]
Snapshot == [key : Keys, addresses : Seq(Addresses)]
Tx       == [run : Keys, table : Keys, chunk : Seq(Addresses), left : Nat]

TypeOK ==
  /\ slot \in 1..MaxSlot
  /\ tables \in [Keys -> Table]
  /\ inflight \subseteq Tx /\ landed \subseteq Tx
  /\ run \in Keys
  /\ pc \in {"idle", "survey", "fund", "create", "extend", "sending", "wait",
             "slot", "ready", "failed"}
  /\ table \subseteq Keys
  /\ missing \in Seq(Addresses)
  /\ current \subseteq Tx
  /\ attempts \in 0..Attempts
  /\ seen \in Seq(Entry)
  /\ ambiguous \subseteq Keys
  /\ queue \in Seq(Keys)
  /\ loaded \in Seq(Snapshot)
  /\ cached \in Seq(Snapshot)

AddressesOf(entries) == [i \in DOMAIN entries |-> entries[i].address]

\* The first occurrences in s, in order.
Distinct(s) == Kept(s, {i \in DOMAIN s : \A j \in 1..(i - 1) : s[j] # s[i]})

\* shared_lookup_addresses; the constant ones are counted with the curve's.
Desired == Distinct(CurveAddresses \o SwapAddresses)

-----------------------------------------------------------------------------
(* The cluster. *)

Active(t) == t.deactivation = Never

\* An entry can be looked up from the slot after the one that added it.
Warm(entry) == entry.slot < slot

\* A table is there for lookups until its cool-down ends.
Served(t) == t.exists /\ slot <= t.deactivation + CoolDown

\* The address the cluster finds at index i of table k, if it finds one.
LookedUp(k, i) ==
  LET entries == tables[k].entries
  IN  {entries[j].address : j \in {n \in DOMAIN entries :
         n = i /\ Served(tables[k]) /\ Warm(entries[n])}}

\* CreateLookupTable, and ExtendLookupTable up to the capacity of an active
\* table.
Accepted(tx) ==
  LET t == tables[tx.table]
  IN  IF tx.chunk = <<>> THEN ~t.exists
      ELSE t.exists /\ Active(t) /\ Len(t.entries) + Len(tx.chunk) <= Capacity

Land(tx) ==
  /\ tx \in inflight
  /\ inflight' = inflight \ {tx}
  /\ \/ /\ Accepted(tx)
        /\ LET added == [i \in DOMAIN tx.chunk |->
                 [address |-> tx.chunk[i], slot |-> slot, run |-> tx.run]]
           IN  tables' = [tables EXCEPT ![tx.table] =
                 [exists |-> TRUE, deactivation |-> @.deactivation,
                  entries |-> @.entries \o added]]
        /\ landed' = landed \cup {tx}
     \/ ~Accepted(tx) /\ UNCHANGED <<tables, landed>>
  /\ UNCHANGED <<slot, runVars, clientVars>>

\* The blockhash of a transaction expires before it lands.
Expire(tx) ==
  /\ tx \in inflight
  /\ inflight' = inflight \ {tx}
  /\ UNCHANGED <<slot, tables, landed, runVars, clientVars>>

NextSlot ==
  /\ slot < MaxSlot
  /\ slot' = slot + 1
  /\ UNCHANGED <<tables, inflight, landed, runVars, clientVars>>

\* The authority retires a table.  To close it, which the cool-down precedes,
\* changes no lookup.
Deactivate(k) ==
  /\ tables[k].exists /\ Active(tables[k])
  /\ tables' = [tables EXCEPT ![k].deactivation = slot]
  /\ UNCHANGED <<slot, inflight, landed, runVars, clientVars>>

-----------------------------------------------------------------------------
(* create_shared_alt. *)

Running == pc \notin {"idle", "ready", "failed"}

\* A new process, with --table for a table the operator knows of, or without.
StartRun(existing) ==
  /\ ~Running
  /\ run < MaxRuns
  /\ run' = run + 1
  /\ pc' = "survey"
  /\ table' = existing
  /\ missing' = <<>> /\ current' = {} /\ attempts' = 0 /\ seen' = <<>>
  /\ UNCHANGED <<ambiguous, chainVars, clientVars>>

\* An RPC error, a transaction that is not confirmed, or the process is killed.
RunFails ==
  /\ Running
  /\ pc' = "failed"
  /\ ambiguous' = IF current \cap inflight # {} THEN ambiguous \cup {run}
                                                ELSE ambiguous
  /\ UNCHANGED <<run, table, missing, current, attempts, seen, chainVars,
                 clientVars>>

\* Mutant: everything is added again when a run resumes.
MissingAll(stored) == Desired

\* What is to be added to a table that holds the stored addresses.
Missing(stored) ==
  Kept(Desired, {i \in DOMAIN Desired : Desired[i] \notin Elements(stored)})

\* read_owned_table: what the run's table holds; a new one holds nothing.
IsStored(stored) ==
  IF table = {} THEN stored = <<>>
  ELSE \A k \in table : /\ tables[k].exists /\ Active(tables[k])
                        /\ stored = AddressesOf(tables[k].entries)

StoredLists == {<<>>} \cup {AddressesOf(tables[k].entries) : k \in table}

\* populate: an existing table has to be active, and everything has to fit.
\* Otherwise the run fails.
Survey ==
  /\ pc = "survey"
  /\ \E stored \in StoredLists :
       /\ IsStored(stored)
       /\ Len(stored) + Len(Missing(stored)) <= Capacity
       /\ missing' = Missing(stored)
  /\ pc' = "fund"
  /\ UNCHANGED <<run, table, current, attempts, seen, ambiguous, chainVars,
                 clientVars>>

\* Rent, fees and balance are read, and the balance is enough.
Fund ==
  /\ pc = "fund"
  /\ pc' = IF table = {} THEN "create" ELSE "extend"
  /\ UNCHANGED <<run, table, missing, current, attempts, seen, ambiguous,
                 chainVars, clientVars>>

Send(tx) ==
  /\ inflight' = inflight \cup {tx}
  /\ current' = {tx}
  /\ pc' = "sending"
  /\ UNCHANGED <<run, attempts, seen, ambiguous, slot, tables, landed,
                 clientVars>>

Create ==
  /\ pc = "create"
  /\ table' = {run}
  /\ Send([run |-> run, table |-> run, chunk |-> <<>>, left |-> Len(missing)])
  /\ UNCHANGED missing

\* The next chunk.
Extend ==
  /\ pc = "extend"
  /\ missing # <<>>
  /\ LET n == IF Len(missing) < ChunkSize THEN Len(missing) ELSE ChunkSize
     IN  /\ missing' = SubSeq(missing, n + 1, Len(missing))
         /\ \E k \in table :
              Send([run |-> run, table |-> k, chunk |-> SubSeq(missing, 1, n),
                    left |-> Len(missing) - n])
  /\ UNCHANGED table

\* send_and_confirm_transaction returns; an error is RunFails.
Sent ==
  /\ pc = "sending"
  /\ current \subseteq landed
  /\ pc' = "extend"
  /\ current' = {}
  /\ UNCHANGED <<run, table, missing, attempts, seen, ambiguous, chainVars,
                 clientVars>>

AllSent ==
  /\ pc = "extend"
  /\ missing = <<>>
  /\ pc' = "wait"
  /\ UNCHANGED <<run, table, missing, current, attempts, seen, ambiguous,
                 chainVars, clientVars>>

\* wait_until_active reads the table, and then the slot if nothing is missing.
ReadTable ==
  /\ pc = "wait"
  /\ attempts < Attempts
  /\ \E k \in table : seen' = tables[k].entries
  /\ IF Elements(Desired) \subseteq Elements(AddressesOf(seen'))
       THEN pc' = "slot" /\ UNCHANGED attempts
       ELSE pc' = "wait" /\ attempts' = attempts + 1
  /\ UNCHANGED <<run, table, missing, current, ambiguous, chainVars, clientVars>>

LastExtended(entries) ==
  IF entries = <<>> THEN 0 ELSE entries[Len(entries)].slot

\* Mutant: a table counts as active in the slot that extended it.
ReadSlotEarly ==
  /\ pc = "slot"
  /\ IF slot >= LastExtended(seen)
       THEN pc' = "ready" /\ UNCHANGED attempts
       ELSE pc' = "wait" /\ attempts' = attempts + 1
  /\ UNCHANGED <<run, table, missing, current, seen, ambiguous, chainVars,
                 clientVars>>

ReadSlot ==
  /\ pc = "slot"
  /\ IF slot > LastExtended(seen)
       THEN pc' = "ready" /\ UNCHANGED attempts
       ELSE pc' = "wait" /\ attempts' = attempts + 1
  /\ UNCHANGED <<run, table, missing, current, seen, ambiguous, chainVars,
                 clientVars>>

-----------------------------------------------------------------------------
(* The client. *)

KeysOf(snapshots) == [i \in DOMAIN snapshots |-> snapshots[i].key]

\* with_shared_lookup_table_addresses, once.
Configure(keys) ==
  /\ queue = <<>> /\ loaded = <<>> /\ cached = <<>>
  /\ queue' = Distinct(keys)
  /\ UNCHANGED <<loaded, cached, chainVars, runVars>>

\* refresh_shared_lookup_tables
Refresh ==
  /\ queue = <<>> /\ loaded = <<>> /\ cached # <<>>
  /\ queue' = KeysOf(cached)
  /\ UNCHANGED <<loaded, cached, chainVars, runVars>>

\* Mutant: a table is accepted in the slot that extended it.
UsableWhenActive(t) == t.exists /\ Active(t)

\* decode_lookup_table: the account is a table, not retired and warmed up.
Usable(t) == t.exists /\ Active(t) /\ slot > LastExtended(t.entries)

\* load_address_lookup_table, at one slot.
LoadOne ==
  /\ queue # <<>>
  /\ Usable(tables[Head(queue)])
  /\ queue' = Tail(queue)
  /\ loaded' = Append(loaded, [key |-> Head(queue),
                 addresses |-> AddressesOf(tables[Head(queue)].entries)])
  /\ UNCHANGED <<cached, chainVars, runVars>>

\* Mutant: the tables that could be loaded replace the old snapshots.
LoadFailsPartly ==
  /\ queue # <<>>
  /\ queue' = <<>> /\ loaded' = <<>> /\ cached' = loaded
  /\ UNCHANGED <<chainVars, runVars>>

\* A refused table or an RPC error: what was loaded is dropped.
LoadFails ==
  /\ queue # <<>>
  /\ queue' = <<>> /\ loaded' = <<>>
  /\ UNCHANGED <<cached, chainVars, runVars>>

LoadDone ==
  /\ queue = <<>> /\ loaded # <<>>
  /\ cached' = loaded /\ loaded' = <<>>
  /\ UNCHANGED <<queue, chainVars, runVars>>

-----------------------------------------------------------------------------
OldTable(addresses) ==
  [exists |-> TRUE, deactivation |-> Never,
   entries |-> [i \in DOMAIN addresses |->
                  [address |-> addresses[i], slot |-> 0, run |-> 0]]]

NoTable == [exists |-> FALSE, deactivation |-> Never, entries |-> <<>>]

Init ==
  /\ slot = 1
  /\ \E o \in OldTables :
       tables = [k \in Keys |-> IF k = 0 THEN OldTable(o) ELSE NoTable]
  /\ inflight = {} /\ landed = {}
  /\ run = 0 /\ pc = "idle" /\ table = {} /\ missing = <<>> /\ current = {}
  /\ attempts = 0 /\ seen = <<>> /\ ambiguous = {}
  /\ queue = <<>> /\ loaded = <<>> /\ cached = <<>>

Proceed ==
  \/ Survey \/ Fund \/ Create \/ Extend \/ Sent \/ AllSent
  \/ ReadTable \/ ReadSlot

Cluster ==
  \/ NextSlot
  \/ \E tx \in inflight : Land(tx) \/ Expire(tx)
  \/ \E k \in Keys : Deactivate(k)

Client ==
  \/ \E keys \in KeyLists : Configure(keys)
  \/ Refresh \/ LoadOne \/ LoadFails \/ LoadDone

Next ==
  \/ \E existing \in {{}} \cup {{k} : k \in 0..run} : StartRun(existing)
  \/ Proceed
  \/ RunFails
  \/ Cluster
  \/ Client

Spec == Init /\ [][Next]_vars

-----------------------------------------------------------------------------
(* Properties. *)

\* Whatever is appended to a table later, the cluster finds at every index of a
\* snapshot the client holds the address the snapshot has there, until the table
\* is retired and cooled down, and never another: the client, which does not
\* look at the table again on each trade, never names a wrong account.  It does
\* not learn that a table was retired; then its transactions fail.
SnapshotsResolve ==
  \A s \in Elements(cached) : \A i \in DOMAIN s.addresses :
    /\ LookedUp(s.key, i) \subseteq {s.addresses[i]}
    /\ Served(tables[s.key]) => LookedUp(s.key, i) # {}

\* When the program says the table is ready for any trading wallet, every
\* shared address can be looked up in it, unless it was retired meanwhile.
ReadyMeansUsable ==
  pc = "ready" =>
    \A k \in table : Served(tables[k]) =>
      \A a \in Elements(Desired) :
        \E i \in DOMAIN tables[k].entries : LookedUp(k, i) = {a}

\* No slot of a table is wasted on an address it holds already, unless a run
\* ended without knowing what became of its transaction.
NoDuplicates ==
  \A k \in Keys : LET entries == tables[k].entries IN
    \A i, j \in DOMAIN entries :
      i < j /\ entries[i].address = entries[j].address =>
        \/ entries[j].run = 0
        \/ {entries[i].run, entries[j].run} \cap ambiguous # {}

\* Refreshing, whether it succeeds or fails half-way, neither loses nor
\* repeats nor reorders the client's tables.
RefreshKeepsTables ==
  [][cached # <<>> => KeysOf(cached') = KeysOf(cached)]_vars
=============================================================================
