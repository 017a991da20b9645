---------------------- MODULE SharedLookupTablesProofs ----------------------
(***************************************************************************)
(* Proofs about SharedLookupTables, for any addresses, tables from before, *)
(* chunk size, capacity and number of runs: a snapshot that was cached     *)
(* stays valid, a table that is reported ready is, no address is added     *)
(* twice unless a run ended in doubt, and a refresh is all or nothing.     *)
(*                                                                         *)
(* The first lemmas are about the lists that Sublists keeps.               *)
(***************************************************************************)
EXTENDS SharedLookupTables, FiniteSetTheorems, SequenceTheorems, TLAPS

-----------------------------------------------------------------------------
(* Lists without some of their elements. *)

\* The positions in I are numbered in their order.
LEMMA Ranks ==
  ASSUME NEW n \in Nat, NEW I, I \subseteq 1..n
  PROVE  /\ IsFiniteSet(I) /\ Cardinality(I) \in Nat
         /\ \A p \in I : Rank(I, p) \in 1..Cardinality(I)
         /\ \A p, q \in I : p < q => Rank(I, p) < Rank(I, q)
         /\ \A j \in 1..Cardinality(I) : \E p \in I : Rank(I, p) = j
<1> DEFINE Upto(p) == {q \in I : q <= p}
           c == Cardinality(I)
<1>1. IsFiniteSet(I) /\ c \in Nat /\ \A p \in I : p \in Nat
  <2>1. IsFiniteSet(1..n) /\ I \in SUBSET (1..n)
    BY FS_Interval
  <2>2. IsFiniteSet(I)
    BY <2>1, FS_Subset
  <2> QED
    BY <2>1, <2>2, FS_CardinalityType
<1>2. \A p : /\ Upto(p) \subseteq I /\ IsFiniteSet(Upto(p))
             /\ Cardinality(Upto(p)) \in Nat /\ Cardinality(Upto(p)) <= c
             /\ Rank(I, p) = Cardinality(Upto(p))
  <2> SUFFICES ASSUME NEW p
               PROVE  /\ Upto(p) \subseteq I /\ IsFiniteSet(Upto(p))
                      /\ Cardinality(Upto(p)) \in Nat /\ Cardinality(Upto(p)) <= c
                      /\ Rank(I, p) = Cardinality(Upto(p))
    OBVIOUS
  <2>1. Upto(p) \in SUBSET I /\ Rank(I, p) = Cardinality(Upto(p))
    BY DEF Rank
  <2> HIDE DEF Upto
  <2> QED
    BY <1>1, <2>1, FS_Subset, FS_CardinalityType
<1>3. \A p \in I : p \in Upto(p)
  BY <1>1
<1>4. \A p, q \in I : p < q => Upto(p) \in SUBSET Upto(q) /\ q \notin Upto(p)
  <2> SUFFICES ASSUME NEW p \in I, NEW q \in I, p < q
               PROVE  Upto(p) \in SUBSET Upto(q) /\ q \notin Upto(p)
    OBVIOUS
  <2>1. ASSUME NEW r \in Upto(p) PROVE r \in Upto(q)
    BY <1>1
  <2>2. q \notin Upto(p)
    BY <1>1
  <2> HIDE DEF Upto
  <2> QED
    BY <2>1, <2>2
<1> HIDE DEF Upto
<1>5. \A p \in I : Rank(I, p) \in 1..c
  <2> SUFFICES ASSUME NEW p \in I PROVE Rank(I, p) \in 1..c
    OBVIOUS
  <2>1. Cardinality(Upto(p)) # 0
    BY <1>2, <1>3, FS_EmptySet
  <2> HIDE DEF c
  <2> QED
    BY <1>1, <1>2, <2>1
<1>6. \A p, q \in I : p < q => Rank(I, p) < Rank(I, q)
  <2> SUFFICES ASSUME NEW p \in I, NEW q \in I, p < q
               PROVE  Rank(I, p) < Rank(I, q)
    OBVIOUS
  <2>1. Upto(p) \in SUBSET Upto(q) /\ Upto(p) # Upto(q)
    BY <1>3, <1>4
  <2>2. /\ Cardinality(Upto(p)) <= Cardinality(Upto(q))
        /\ Cardinality(Upto(q)) # Cardinality(Upto(p))
    BY <1>2, <2>1, FS_Subset
  <2> QED
    BY <1>2, <2>2
<1>7. \A j \in 1..c : \E p \in I : Rank(I, p) = j
  <2> DEFINE f == [p \in I |-> Rank(I, p)]
  <2>1. f \in Injection(I, 1..c)
    <3>1. f \in [I -> 1..c]
      BY <1>5
    <3>2. \A p, q \in I : p < q \/ q < p \/ p = q
      BY <1>1
    <3>3. ASSUME NEW p \in I, NEW q \in I, f[p] = f[q] PROVE p = q
      BY <1>2, <1>6, <3>2, <3>3
    <3> QED
      BY <3>1, <3>3 DEF Injection, IsInjective
  <2>2. IsFiniteSet(1..c) /\ Cardinality(1..c) = c
    <3> HIDE DEF c
    <3> QED
      BY <1>1, FS_Interval
  <2>3. f \in Surjection(I, 1..c)
    <3> HIDE DEF f
    <3> QED
      BY <2>1, <2>2, FS_Injection
  <2> QED
    BY <2>3 DEF Surjection
<1> QED
  BY <1>1, <1>5, <1>6, <1>7

\* Where the j-th element kept comes from.
Place(I, j) == CHOOSE p \in I : Rank(I, p) = j

LEMMA KeptPlaces ==
  ASSUME NEW S, NEW s \in Seq(S), NEW I, I \subseteq 1..Len(s)
  PROVE  /\ IsFiniteSet(I) /\ Cardinality(I) \in Nat
         /\ Kept(s, I) \in Seq(S) /\ Len(Kept(s, I)) = Cardinality(I)
         /\ \A j \in 1..Cardinality(I) :
              /\ Place(I, j) \in I /\ Rank(I, Place(I, j)) = j
              /\ Kept(s, I)[j] = s[Place(I, j)]
         /\ \A p \in I : /\ Rank(I, p) \in 1..Cardinality(I)
                         /\ Place(I, Rank(I, p)) = p
<1>1. Len(s) \in Nat /\ \A p \in 1..Len(s) : s[p] \in S
  OBVIOUS
<1>2. /\ IsFiniteSet(I) /\ Cardinality(I) \in Nat
      /\ \A p \in I : Rank(I, p) \in 1..Cardinality(I)
      /\ \A p, q \in I : p < q => Rank(I, p) < Rank(I, q)
      /\ \A j \in 1..Cardinality(I) : \E p \in I : Rank(I, p) = j
  BY <1>1, Ranks
<1>3. \A j \in 1..Cardinality(I) : Place(I, j) \in I /\ Rank(I, Place(I, j)) = j
  BY <1>2 DEF Place
<1>4. ASSUME NEW p \in I, NEW q \in I, Rank(I, p) = Rank(I, q) PROVE p = q
  <2>1. p \in Nat /\ q \in Nat
    BY <1>1
  <2> QED
    BY <1>2, <1>4, <2>1
<1>5. Kept(s, I) = [j \in 1..Cardinality(I) |-> s[Place(I, j)]]
  BY DEF Kept, Place
<1>6. Kept(s, I) \in Seq(S) /\ Len(Kept(s, I)) = Cardinality(I)
  <2> DEFINE c == Cardinality(I)
             k == [j \in 1..c |-> s[Place(I, j)]]
  <2>1. k \in [1..c -> S] /\ c \in Nat
    BY <1>1, <1>2, <1>3
  <2> HIDE DEF k
  <2>2. k \in Seq(S) /\ Len(k) = c
    <3> HIDE DEF c
    <3> QED
      BY <2>1
  <2> QED
    BY <1>5, <2>2 DEF k
<1> QED
  BY <1>2, <1>3, <1>4, <1>5, <1>6

Injective(s) == \A i, j \in DOMAIN s : s[i] = s[j] => i = j

\* Keeping positions loses their order nowhere, and repeats none of them.
LEMMA KeptElements ==
  ASSUME NEW S, NEW s \in Seq(S), NEW I, I \subseteq 1..Len(s)
  PROVE  /\ Kept(s, I) \in Seq(S)
         /\ Elements(Kept(s, I)) = {s[p] : p \in I}
         /\ (\A p, q \in I : s[p] = s[q] => p = q) => Injective(Kept(s, I))
<1> DEFINE k == Kept(s, I)
           c == Cardinality(I)
<1>1. /\ c \in Nat /\ k \in Seq(S) /\ Len(k) = c
      /\ \A j \in 1..c : /\ Place(I, j) \in I /\ Rank(I, Place(I, j)) = j
                         /\ k[j] = s[Place(I, j)]
      /\ \A p \in I : Rank(I, p) \in 1..c /\ Place(I, Rank(I, p)) = p
  <2>1. /\ IsFiniteSet(I) /\ Cardinality(I) \in Nat
        /\ Kept(s, I) \in Seq(S) /\ Len(Kept(s, I)) = Cardinality(I)
        /\ \A j \in 1..Cardinality(I) :
             /\ Place(I, j) \in I /\ Rank(I, Place(I, j)) = j
             /\ Kept(s, I)[j] = s[Place(I, j)]
        /\ \A p \in I : /\ Rank(I, p) \in 1..Cardinality(I)
                        /\ Place(I, Rank(I, p)) = p
    BY KeptPlaces, Zenon
  <2> QED
    BY <2>1, Zenon
<1> HIDE DEF k, c
<1>2. DOMAIN k = 1..c
  BY <1>1
<1>3. Elements(k) = {s[p] : p \in I}
  <2>1. ASSUME NEW j \in 1..c PROVE k[j] \in {s[p] : p \in I}
    BY <1>1
  <2>2. ASSUME NEW p \in I PROVE \E j \in 1..c : k[j] = s[p]
    BY <1>1
  <2> QED
    BY <1>2, <2>1, <2>2 DEF Elements
<1>4. ASSUME \A p, q \in I : s[p] = s[q] => p = q PROVE Injective(k)
  <2> SUFFICES ASSUME NEW i \in 1..c, NEW j \in 1..c, k[i] = k[j] PROVE i = j
    BY <1>2 DEF Injective
  <2>1. Place(I, i) = Place(I, j)
    BY <1>1, <1>4
  <2> QED
    BY <1>1, <2>1
<1> QED
  BY <1>1, <1>3, <1>4 DEF k

\* A Distinct list has the same elements, each of them once.
LEMMA DistinctIs ==
  ASSUME NEW S, NEW s \in Seq(S)
  PROVE  /\ Distinct(s) \in Seq(S) /\ Injective(Distinct(s))
<1> DEFINE I == {i \in DOMAIN s : \A j \in 1..(i - 1) : s[j] # s[i]}
<1>1. I \subseteq 1..Len(s) /\ Len(s) \in Nat
  OBVIOUS
<1>2. ASSUME NEW p \in I, NEW q \in I, s[p] = s[q] PROVE p = q
  <2>1. p \in Nat /\ q \in Nat /\ 1 <= p /\ 1 <= q
    BY <1>1
  <2>2. p \notin 1..(q - 1) /\ q \notin 1..(p - 1)
    BY <1>2
  <2> QED
    BY <2>1, <2>2
<1>3. Distinct(s) = Kept(s, I)
  BY DEF Distinct
<1> HIDE DEF I
<1>4. /\ Kept(s, I) \in Seq(S)
      /\ (\A p, q \in I : s[p] = s[q] => p = q) => Injective(Kept(s, I))
  BY <1>1, KeptElements, Zenon
<1> QED
  BY <1>2, <1>3, <1>4

LEMMA DesiredIs == Desired \in Seq(Addresses) /\ Injective(Desired)
<1>1. CurveAddresses \o SwapAddresses \in Seq(Addresses)
  BY ConstantsAssumption
<1> QED
  BY <1>1, DistinctIs DEF Desired

LEMMA MissingIs ==
  ASSUME NEW stored
  PROVE  /\ Missing(stored) \in Seq(Addresses) /\ Injective(Missing(stored))
         /\ Elements(Missing(stored)) \cap Elements(stored) = {}
<1> DEFINE I == {i \in DOMAIN Desired : Desired[i] \notin Elements(stored)}
<1>1. I \subseteq 1..Len(Desired) /\ \A p, q \in I : Desired[p] = Desired[q] => p = q
  BY DesiredIs DEF Injective
<1>2. \A p \in I : Desired[p] \notin Elements(stored)
  OBVIOUS
<1>3. Missing(stored) = Kept(Desired, I)
  BY DEF Missing
<1> HIDE DEF I
<1>4. /\ Missing(stored) \in Seq(Addresses) /\ Injective(Missing(stored))
      /\ Elements(Missing(stored)) = {Desired[p] : p \in I}
  <2>1. Desired \in Seq(Addresses)
    BY DesiredIs
  <2>2. /\ Kept(Desired, I) \in Seq(Addresses)
        /\ Elements(Kept(Desired, I)) = {Desired[p] : p \in I}
        /\ (\A p, q \in I : Desired[p] = Desired[q] => p = q) => Injective(Kept(Desired, I))
    BY <1>1, <2>1, KeptElements, Zenon
  <2> QED
    BY <1>1, <1>3, <2>2
<1> QED
  BY <1>2, <1>4

-----------------------------------------------------------------------------
(* The inductive invariant. *)

\* A run works on one table at most, its own or one from an earlier run, and
\* waits for one transaction at most, which it has only while it sends it.
RunOk ==
  /\ \A k, l \in table : k = l
  /\ \A k \in table : k <= run
  /\ \A a, b \in current : a = b
  /\ Running => run > 0
  /\ pc \in {"survey", "fund", "create", "extend", "wait", "slot"} => current = {}
  /\ pc \in {"extend", "sending", "wait", "slot", "ready"} => table # {}
  /\ pc = "create" => table = {}
  /\ pc = "slot" => attempts < Attempts

\* What a run sends leaves less and less to be added, so that it never sends the
\* same transaction twice, and names no key of a later run.
Numbered ==
  \A tx \in inflight \cup landed :
    /\ tx.table <= tx.run /\ tx.run <= run
    /\ tx.run = run => /\ pc \notin {"survey", "fund", "create"}
                       /\ tx.left >= Len(missing)

\* What may still land is of a run that ended in doubt, or is what the current
\* run waits for.
InFlight ==
  /\ inflight \cap landed = {}
  /\ \A tx \in inflight :
       \/ tx.run \in ambiguous
       \/ tx \in current /\ tx.run = run /\ tx.table \in table /\ pc = "sending"

\* A key has no entries before its run creates the table.
Untouched ==
  \A k \in Keys :
    k > run \/ (k = run /\ pc \in {"survey", "fund", "create"} /\ table = {})
      => tables[k].entries = <<>>

\* What wait_until_active has read is still there, and a table that is ready
\* has all of it warm.
SeenKept ==
  pc \in {"slot", "ready"} =>
    /\ Elements(Desired) \subseteq Elements(AddressesOf(seen))
    /\ \A k \in table : \A i \in DOMAIN seen :
         i \in DOMAIN tables[k].entries /\ tables[k].entries[i] = seen[i]
    /\ pc = "ready" => \A i \in DOMAIN seen : Warm(seen[i])

\* Table k holds none of the addresses in A, unless by a run that is in doubt.
Free(k, A) ==
  \A i \in DOMAIN tables[k].entries :
    tables[k].entries[i].run \in ambiguous \/ tables[k].entries[i].address \notin A

\* What is still to be added is not there yet, nor what is on its way.
Fresh ==
  /\ pc \in {"fund", "create", "extend", "sending"} =>
       Injective(missing) /\ \A k \in table : Free(k, Elements(missing))
  /\ pc = "sending" =>
       \A tx \in current :
         /\ Injective(tx.chunk)
         /\ Elements(tx.chunk) \cap Elements(missing) = {}
         /\ tx \in inflight => \A k \in table : Free(k, Elements(tx.chunk))

RunInv ==
  RunOk /\ Numbered /\ InFlight /\ Untouched /\ SeenKept /\ Fresh

\* The slots of a table's entries never fall.
SlotsOrdered ==
  \A k \in Keys : LET entries == tables[k].entries IN
    /\ \A i \in DOMAIN entries : entries[i].slot <= slot
    /\ \A i, j \in DOMAIN entries : i <= j => entries[i].slot <= entries[j].slot

TableInv == SlotsOrdered /\ NoDuplicates

\* The client's snapshot s is a beginning of what can be looked up.
Resolves(s) ==
  \A i \in DOMAIN s.addresses :
    /\ i \in DOMAIN tables[s.key].entries
    /\ tables[s.key].entries[i].address = s.addresses[i]
    /\ Warm(tables[s.key].entries[i])

\* A refresh goes through the keys of the snapshots it will replace.
Refreshing ==
  cached # <<>> /\ (queue # <<>> \/ loaded # <<>>) =>
    KeysOf(loaded) \o queue = KeysOf(cached)

ClientInv ==
  /\ \A s \in Elements(loaded) : Resolves(s)
  /\ \A s \in Elements(cached) : Resolves(s)
  /\ Refreshing

IndInv == TypeOK /\ RunInv /\ TableInv /\ ClientInv

LEMMA InitIndInv == Init => IndInv
<1> SUFFICES ASSUME Init PROVE IndInv
  OBVIOUS
<1>1. PICK o \in OldTables :
        tables = [k \in Keys |-> IF k = 0 THEN OldTable(o) ELSE NoTable]
  BY DEF Init
<1>2. 0 \in Keys /\ \A k \in Keys : k \in Int /\ k >= 0
  BY ConstantsAssumption DEF Keys
<1>3. o \in Seq(Addresses)
  BY ConstantsAssumption
<1> DEFINE entries == [i \in 1..Len(o) |-> [address |-> o[i], slot |-> 0, run |-> 0]]
<1>4. /\ entries \in Seq(Entry) /\ DOMAIN entries = 1..Len(o)
      /\ \A i \in 1..Len(o) : entries[i].slot = 0 /\ entries[i].run = 0
  <2>1. \A i \in 1..Len(o) : [address |-> o[i], slot |-> 0, run |-> 0] \in Entry
    BY <1>2, <1>3, ConstantsAssumption DEF Entry
  <2>2. entries \in [1..Len(o) -> Entry] /\ Len(o) \in Nat
    BY <1>3, <2>1
  <2>3. entries \in Seq(Entry)
    <3> HIDE DEF entries
    <3> QED
      BY <2>2
  <2> QED
    BY <2>3
<1>5. OldTable(o) = [exists |-> TRUE, deactivation |-> Never, entries |-> entries]
  <2>1. DOMAIN o = 1..Len(o)
    BY <1>3
  <2> QED
    BY <2>1, Zenon DEF OldTable
<1> HIDE DEF entries
<1>6. \A k \in Keys : /\ tables[k] \in Table
                      /\ tables[k].entries = IF k = 0 THEN entries ELSE <<>>
  BY <1>1, <1>4, <1>5, ConstantsAssumption DEF NoTable, Table, Never
<1>7. TypeOK
  <2>1. tables \in [Keys -> Table]
    BY <1>1, <1>6
  <2>2. slot \in 1..MaxSlot /\ run \in Keys /\ attempts \in 0..Attempts
    BY <1>2, ConstantsAssumption DEF Init
  <2> QED
    BY <2>1, <2>2 DEF Init, TypeOK
<1>8. RunInv
  <2>1. RunOk /\ Numbered /\ InFlight /\ SeenKept /\ Fresh
    BY DEF Init, RunOk, Numbered, InFlight, SeenKept, Fresh, Running
  <2>2. Untouched
    BY <1>2, <1>6 DEF Init, Untouched
  <2> QED
    BY <2>1, <2>2 DEF RunInv
<1>9. SlotsOrdered
  <2> SUFFICES ASSUME NEW k \in Keys, NEW i \in DOMAIN tables[k].entries
               PROVE  tables[k].entries[i].slot = 0
    BY DEF SlotsOrdered, Init
  <2> QED
    BY <1>4, <1>6
<1>10. NoDuplicates
  BY <1>4, <1>6 DEF NoDuplicates
<1>11. ClientInv
  BY DEF Init, ClientInv, Refreshing, Elements
<1> QED
  BY <1>7, <1>8, <1>9, <1>10, <1>11 DEF IndInv, TableInv

-----------------------------------------------------------------------------
(* The client. *)

LEMMA ClientKeepsRest ==
  ASSUME IndInv, UNCHANGED <<chainVars, runVars>>
  PROVE  RunInv' /\ TableInv'
<1>1. UNCHANGED <<slot, tables, inflight, landed, run, pc, table, missing, current,
                  attempts, seen, ambiguous>>
  BY DEF chainVars, runVars
<1>2. RunOk'
  BY <1>1 DEF IndInv, RunInv, RunOk, Running
<1>3. Numbered' /\ InFlight' /\ Untouched'
  BY <1>1 DEF IndInv, RunInv, Numbered, InFlight, Untouched
<1>4. SeenKept'
  BY <1>1 DEF IndInv, RunInv, SeenKept, Warm
<1>5. Fresh'
  BY <1>1 DEF IndInv, RunInv, Fresh, Free
<1>6. SlotsOrdered' /\ NoDuplicates'
  BY <1>1 DEF IndInv, TableInv, SlotsOrdered, NoDuplicates
<1> QED
  BY <1>2, <1>3, <1>4, <1>5, <1>6 DEF RunInv, TableInv

LEMMA KeysOfIs ==
  ASSUME NEW s \in Seq(Snapshot)
  PROVE  /\ KeysOf(s) \in Seq(Keys) /\ Len(KeysOf(s)) = Len(s)
         /\ \A i \in 1..Len(s) : KeysOf(s)[i] = s[i].key
<1> DEFINE keys == [i \in 1..Len(s) |-> s[i].key]
<1>1. keys \in [1..Len(s) -> Keys] /\ Len(s) \in Nat
  <2>1. \A i \in 1..Len(s) : s[i] \in Snapshot
    OBVIOUS
  <2> QED
    BY <2>1 DEF Snapshot
<1>2. KeysOf(s) = keys
  BY DEF KeysOf
<1>3. \A i \in 1..Len(s) : keys[i] = s[i].key
  OBVIOUS
<1> HIDE DEF keys
<1> QED
  BY <1>1, <1>2, <1>3

LEMMA AddressesOfIs ==
  ASSUME NEW entries \in Seq(Entry)
  PROVE  /\ AddressesOf(entries) \in Seq(Addresses)
         /\ Len(AddressesOf(entries)) = Len(entries)
         /\ \A i \in 1..Len(entries) : AddressesOf(entries)[i] = entries[i].address
<1> DEFINE addresses == [i \in 1..Len(entries) |-> entries[i].address]
<1>1. addresses \in [1..Len(entries) -> Addresses] /\ Len(entries) \in Nat
  <2>1. \A i \in 1..Len(entries) : entries[i] \in Entry
    OBVIOUS
  <2> QED
    BY <2>1 DEF Entry
<1>2. AddressesOf(entries) = addresses
  BY DEF AddressesOf
<1>3. \A i \in 1..Len(entries) : addresses[i] = entries[i].address
  OBVIOUS
<1> HIDE DEF addresses
<1> QED
  BY <1>1, <1>2, <1>3

\* A list of a table's entries ends with the latest.
LEMMA Latest ==
  ASSUME IndInv, NEW entries \in Seq(Entry), NEW k \in Keys,
         \A i \in DOMAIN entries : /\ i \in DOMAIN tables[k].entries
                                   /\ tables[k].entries[i] = entries[i],
         slot > LastExtended(entries)
  PROVE  \A i \in DOMAIN entries : Warm(entries[i])
<1> SUFFICES ASSUME NEW i \in DOMAIN entries PROVE entries[i].slot < slot
  BY DEF Warm
<1> DEFINE n == Len(entries)
<1>1. n \in Nat /\ i \in 1..n /\ n \in DOMAIN entries /\ entries # <<>>
  OBVIOUS
<1>2. slot > entries[n].slot
  BY <1>1 DEF LastExtended
<1>3. entries[i].slot <= entries[n].slot
  BY <1>1 DEF IndInv, TableInv, SlotsOrdered
<1>4. /\ entries[i] \in Entry /\ entries[n] \in Entry /\ slot \in 1..MaxSlot
      /\ MaxSlot \in Nat
  BY <1>1, ConstantsAssumption DEF IndInv, TypeOK
<1> HIDE DEF n
<1> QED
  BY <1>2, <1>3, <1>4 DEF Entry

LEMMA ClientKeeps ==
  ASSUME IndInv, Client
  PROVE  IndInv'
<1>1. UNCHANGED <<chainVars, runVars>>
  BY DEF Client, Configure, Refresh, LoadOne, LoadFails, LoadDone
<1>2. UNCHANGED <<slot, tables, inflight, landed, run, pc, table, missing, current,
                  attempts, seen, ambiguous>>
  BY <1>1 DEF chainVars, runVars
<1>3. /\ queue \in Seq(Keys) /\ loaded \in Seq(Snapshot) /\ cached \in Seq(Snapshot)
      /\ tables \in [Keys -> Table]
  BY DEF IndInv, TypeOK
<1>4. \A s : Resolves(s)' = Resolves(s)
  BY <1>2 DEF Resolves, Warm
<1>5. SUFFICES /\ queue' \in Seq(Keys) /\ loaded' \in Seq(Snapshot)
               /\ cached' \in Seq(Snapshot)
               /\ \A s \in Elements(loaded') : Resolves(s)
               /\ \A s \in Elements(cached') : Resolves(s)
               /\ Refreshing'
  <2>1. TypeOK'
    BY <1>2, <1>5 DEF IndInv, TypeOK
  <2>2. ClientInv'
    BY <1>4, <1>5 DEF ClientInv
  <2> QED
    BY <1>1, <2>1, <2>2, ClientKeepsRest DEF IndInv
<1>6. /\ \A s \in Elements(loaded) : Resolves(s)
      /\ \A s \in Elements(cached) : Resolves(s)
      /\ Refreshing
  BY DEF IndInv, ClientInv
<1>7. Elements(<<>>) = {}
  BY DEF Elements
<1>8. CASE \E keys \in KeyLists : Configure(keys)
  <2>1. PICK keys \in KeyLists : Configure(keys)
    BY <1>8
  <2>2. Distinct(keys) \in Seq(Keys)
    BY ConstantsAssumption, DistinctIs
  <2> QED
    BY <1>3, <1>6, <2>1, <2>2 DEF Configure, Refreshing
<1>9. CASE Refresh
  <2>1. KeysOf(cached) \in Seq(Keys) /\ KeysOf(<<>>) = <<>>
    BY <1>3, KeysOfIs DEF KeysOf
  <2>2. KeysOf(loaded') \o queue' = KeysOf(cached')
    BY <1>9, <2>1 DEF Refresh
  <2> QED
    BY <1>3, <1>6, <1>9, <2>1, <2>2 DEF Refresh, Refreshing
<1>10. CASE LoadOne
  <2> DEFINE k == Head(queue)
             entries == tables[k].entries
             new == [key |-> k, addresses |-> AddressesOf(entries)]
  <2>1. /\ queue # <<>> /\ Usable(tables[k]) /\ queue' = Tail(queue)
        /\ loaded' = Append(loaded, new) /\ cached' = cached
    BY <1>10 DEF LoadOne
  <2>2. k \in Keys /\ Tail(queue) \in Seq(Keys)
    BY <1>3, <2>1
  <2>3. entries \in Seq(Entry)
    <3>1. tables[k] \in Table
      BY <1>3, <2>2
    <3> QED
      BY <3>1 DEF Table
  <2>4. /\ AddressesOf(entries) \in Seq(Addresses)
        /\ Len(AddressesOf(entries)) = Len(entries)
        /\ \A i \in 1..Len(entries) : AddressesOf(entries)[i] = entries[i].address
    BY <2>3, AddressesOfIs
  <2>5. new \in Snapshot
    BY <2>2, <2>4 DEF Snapshot
  <2>6. \A i \in DOMAIN entries : Warm(entries[i])
    <3>1. slot > LastExtended(entries)
      BY <2>1 DEF Usable
    <3> QED
      BY <2>2, <2>3, <3>1, Latest
  <2>7. Resolves(new)
    <3>1. new.addresses = AddressesOf(entries) /\ new.key = k
      OBVIOUS
    <3>2. DOMAIN new.addresses = 1..Len(entries) /\ DOMAIN entries = 1..Len(entries)
      BY <2>3, <2>4, <3>1
    <3> HIDE DEF new, k
    <3> QED
      BY <2>4, <2>6, <3>1, <3>2 DEF Resolves
  <2>8. Elements(loaded') = Elements(loaded) \cup {new}
    <3> HIDE DEF new
    <3>1. /\ DOMAIN loaded' = 1..Len(loaded) + 1 /\ DOMAIN loaded = 1..Len(loaded)
          /\ Len(loaded) \in Nat
          /\ loaded'[Len(loaded) + 1] = new
          /\ \A i \in 1..Len(loaded) : loaded'[i] = loaded[i]
      BY <1>3, <2>1, <2>5
    <3>2. \A i \in 1..Len(loaded) + 1 : i \in 1..Len(loaded) \/ i = Len(loaded) + 1
      BY <3>1
    <3>3. 1..Len(loaded) \subseteq 1..Len(loaded) + 1 /\ Len(loaded) + 1 \in 1..Len(loaded) + 1
      BY <3>1
    <3> QED
      BY <3>1, <3>2, <3>3 DEF Elements
  <2>9. KeysOf(loaded') \o queue' = KeysOf(loaded) \o queue
    <3>1. loaded' \in Seq(Snapshot)
      BY <1>3, <2>1, <2>5
    <3>2. KeysOf(loaded') = Append(KeysOf(loaded), k)
      <4> DEFINE n == Len(loaded)
      <4>1. /\ n \in Nat /\ Len(loaded') = n + 1
            /\ loaded'[n + 1].key = k
            /\ \A i \in 1..n : loaded'[i] = loaded[i]
        BY <1>3, <2>1, <2>5
      <4>2. /\ KeysOf(loaded) \in Seq(Keys) /\ Len(KeysOf(loaded)) = n
            /\ \A i \in 1..n : KeysOf(loaded)[i] = loaded[i].key
        BY <1>3, KeysOfIs
      <4>3. /\ KeysOf(loaded') \in Seq(Keys) /\ Len(KeysOf(loaded')) = n + 1
            /\ \A i \in 1..n + 1 : KeysOf(loaded')[i] = loaded'[i].key
        BY <3>1, <4>1, KeysOfIs
      <4> HIDE DEF n, k
      <4> QED
        BY <2>2, <4>1, <4>2, <4>3
    <3>3. KeysOf(loaded) \in Seq(Keys)
      BY <1>3, KeysOfIs
    <3>4. queue = <<k>> \o Tail(queue)
      BY <1>3, <2>1
    <3> HIDE DEF k
    <3>5. /\ Append(KeysOf(loaded), k) = KeysOf(loaded) \o <<k>>
          /\ <<k>> \in Seq(Keys)
      BY <2>2, <3>3, AppendIsConcat
    <3>6. (KeysOf(loaded) \o <<k>>) \o Tail(queue) = KeysOf(loaded) \o (<<k>> \o Tail(queue))
      BY <2>2, <3>3, <3>5, ConcatAssociative
    <3> QED
      BY <2>1, <3>2, <3>4, <3>5, <3>6
  <2>10. Refreshing'
    BY <1>6, <2>1, <2>9 DEF Refreshing
  <2> HIDE DEF k, new
  <2> QED
    BY <1>3, <1>6, <2>1, <2>2, <2>5, <2>7, <2>8, <2>10
<1>11. CASE LoadFails
  BY <1>3, <1>6, <1>7, <1>11 DEF LoadFails, Refreshing
<1>12. CASE LoadDone
  BY <1>3, <1>6, <1>7, <1>12 DEF LoadDone, Refreshing
<1> QED
  BY <1>8, <1>9, <1>10, <1>11, <1>12 DEF Client

-----------------------------------------------------------------------------
(* The runs. *)

LEMMA RunKeepsRest ==
  ASSUME IndInv, UNCHANGED <<slot, tables, clientVars>>, ambiguous \subseteq ambiguous'
  PROVE  TableInv' /\ ClientInv'
<1>1. UNCHANGED <<queue, loaded, cached>>
  BY DEF clientVars
<1>2. SlotsOrdered' /\ NoDuplicates'
  BY DEF IndInv, TableInv, SlotsOrdered, NoDuplicates
<1>3. \A s : Resolves(s)' = Resolves(s)
  BY DEF Resolves, Warm
<1>4. ClientInv'
  BY <1>1, <1>3 DEF IndInv, ClientInv, Refreshing
<1> QED
  BY <1>2, <1>4 DEF TableInv

\* A step of a run that reads the cluster at most.
LEMMA QuietStep ==
  ASSUME IndInv, UNCHANGED <<run, ambiguous, chainVars, clientVars>>,
         pc' \in {"idle", "survey", "fund", "create", "extend", "sending", "wait",
                  "slot", "ready", "failed"},
         attempts' \in 0..Attempts, seen' \in Seq(Entry), missing' \in Seq(Addresses),
         UNCHANGED table, current' \subseteq current
  PROVE  TypeOK' /\ TableInv' /\ ClientInv'
<1>1. UNCHANGED <<slot, tables, inflight, landed, queue, loaded, cached>>
  BY DEF chainVars, clientVars
<1>2. TypeOK'
  BY <1>1 DEF IndInv, TypeOK
<1>3. TableInv' /\ ClientInv'
  BY <1>1, RunKeepsRest
<1> QED
  BY <1>2, <1>3

LEMMA Runs ==
  ASSUME IndInv
  PROVE  /\ run \in Nat /\ run <= MaxRuns /\ run \in Keys /\ MaxRuns \in Nat
         /\ \A k \in Keys : k \in Nat /\ k <= MaxRuns
         /\ \A tx \in inflight \cup landed \cup current :
              tx.run \in Nat /\ tx.table \in Keys /\ tx.chunk \in Seq(Addresses)
              /\ tx.left \in Nat
         /\ \A k \in Keys : tables[k] \in Table /\ tables[k].entries \in Seq(Entry)
<1>1. \A k \in Keys : k \in Nat /\ k <= MaxRuns
  BY ConstantsAssumption DEF Keys
<1>2. \A tx \in inflight \cup landed \cup current : tx \in Tx
  BY DEF IndInv, TypeOK
<1>3. \A k \in Keys : tables[k] \in Table
  BY DEF IndInv, TypeOK
<1> QED
  BY <1>1, <1>2, <1>3, ConstantsAssumption DEF IndInv, TypeOK, Tx, Table

LEMMA StartRunKeeps ==
  ASSUME IndInv, NEW existing \in {{}} \cup {{k} : k \in 0..run}, StartRun(existing)
  PROVE  IndInv'
<1>1. /\ ~Running /\ run < MaxRuns /\ run' = run + 1 /\ pc' = "survey"
      /\ table' = existing /\ missing' = <<>> /\ current' = {} /\ attempts' = 0
      /\ seen' = <<>> /\ ambiguous' = ambiguous
      /\ UNCHANGED <<slot, tables, inflight, landed, queue, loaded, cached>>
  BY DEF StartRun, chainVars, clientVars
<1>2. /\ run \in Nat /\ MaxRuns \in Nat /\ run + 1 \in Keys
      /\ \A k \in Keys : k \in Nat
  BY <1>1, Runs, ConstantsAssumption DEF Keys
<1>3. existing \subseteq Keys /\ (\A k, l \in existing : k = l) /\ \A k \in existing : k <= run
  BY <1>2, Runs DEF Keys
<1>4. TypeOK'
  <2>1. 0 \in 0..Attempts
    BY ConstantsAssumption
  <2> QED
    BY <1>1, <1>2, <1>3, <2>1 DEF IndInv, TypeOK
<1>5. RunOk'
  BY <1>1, <1>2, <1>3 DEF RunOk, Running
<1>6. Numbered'
  BY <1>1, <1>2, Runs DEF IndInv, RunInv, Numbered
<1>7. InFlight'
  BY <1>1 DEF IndInv, RunInv, InFlight, Running
<1>8. Untouched'
  BY <1>1, <1>2 DEF IndInv, RunInv, Untouched
<1>9. SeenKept' /\ Fresh'
  BY <1>1 DEF SeenKept, Fresh
<1>10. TableInv' /\ ClientInv'
  BY <1>1, RunKeepsRest DEF clientVars
<1> QED
  BY <1>4, <1>5, <1>6, <1>7, <1>8, <1>9, <1>10 DEF IndInv, RunInv

\* A run that ends while its transaction may still land is in doubt from then on.
LEMMA RunFailsKeeps ==
  ASSUME IndInv, RunFails
  PROVE  IndInv'
<1>1. /\ Running /\ pc' = "failed"
      /\ UNCHANGED <<slot, tables, inflight, landed, queue, loaded, cached, run,
                     table, missing, current, attempts, seen>>
      /\ ambiguous' = IF current \cap inflight # {} THEN ambiguous \cup {run}
                                                    ELSE ambiguous
  BY DEF RunFails, chainVars, clientVars
<1>2. ambiguous \subseteq ambiguous' /\ ambiguous' \subseteq Keys
  BY <1>1, Runs DEF IndInv, TypeOK
<1>3. TypeOK'
  BY <1>1, <1>2 DEF IndInv, TypeOK
<1>4. RunOk'
  BY <1>1 DEF IndInv, RunInv, RunOk, Running
<1>5. Numbered'
  BY <1>1 DEF IndInv, RunInv, Numbered
<1>6. InFlight'
  BY <1>1 DEF IndInv, RunInv, InFlight
<1>7. Untouched'
  BY <1>1 DEF IndInv, RunInv, Untouched
<1>8. SeenKept' /\ Fresh'
  BY <1>1 DEF SeenKept, Fresh
<1>9. TableInv' /\ ClientInv'
  BY <1>1, <1>2, RunKeepsRest DEF clientVars
<1> QED
  BY <1>3, <1>4, <1>5, <1>6, <1>7, <1>8, <1>9 DEF IndInv, RunInv

\* What is missing was not in the table when the run looked.
LEMMA SurveyKeeps ==
  ASSUME IndInv, Survey
  PROVE  IndInv'
<1>1. /\ pc = "survey" /\ pc' = "fund"
      /\ UNCHANGED <<run, table, current, attempts, seen, ambiguous, chainVars, clientVars>>
      /\ UNCHANGED <<slot, tables, inflight, landed>>
  BY DEF Survey, chainVars
<1>2. PICK stored \in StoredLists : IsStored(stored) /\ missing' = Missing(stored)
  BY DEF Survey
<1>3. /\ missing' \in Seq(Addresses) /\ Injective(missing')
      /\ Elements(missing') \cap Elements(stored) = {}
  BY <1>2, MissingIs
<1>4. TypeOK' /\ TableInv' /\ ClientInv'
  BY <1>1, <1>3, QuietStep DEF IndInv, TypeOK
<1>5. RunOk'
  BY <1>1 DEF IndInv, RunInv, RunOk, Running
<1>6. Numbered'
  BY <1>1 DEF IndInv, RunInv, Numbered
<1>7. InFlight' /\ Untouched'
  BY <1>1 DEF IndInv, RunInv, InFlight, Untouched
<1>8. SeenKept'
  BY <1>1 DEF SeenKept
<1>9. Fresh'
  <2> SUFFICES ASSUME NEW k \in table, NEW i \in DOMAIN tables[k].entries
               PROVE  tables[k].entries[i].address \notin Elements(missing')
    BY <1>1, <1>3 DEF Fresh, Free
  <2>1. stored = AddressesOf(tables[k].entries)
    BY <1>2 DEF IsStored
  <2>2. k \in Keys /\ tables[k].entries \in Seq(Entry)
    BY Runs DEF IndInv, TypeOK
  <2>3. i \in DOMAIN stored /\ stored[i] = tables[k].entries[i].address
    BY <2>1, <2>2, AddressesOfIs
  <2>4. tables[k].entries[i].address \in Elements(stored)
    BY <2>3 DEF Elements
  <2> QED
    BY <1>3, <2>4
<1> QED
  BY <1>4, <1>5, <1>6, <1>7, <1>8, <1>9 DEF IndInv, RunInv

LEMMA FundKeeps ==
  ASSUME IndInv, Fund
  PROVE  IndInv'
<1>1. /\ pc = "fund" /\ pc' = IF table = {} THEN "create" ELSE "extend"
      /\ UNCHANGED <<run, table, missing, current, attempts, seen, ambiguous, chainVars,
                     clientVars>>
      /\ UNCHANGED <<slot, tables, inflight, landed>>
  BY DEF Fund, chainVars
<1>2. TypeOK' /\ TableInv' /\ ClientInv'
  BY <1>1, QuietStep DEF IndInv, TypeOK
<1>3. RunOk'
  BY <1>1 DEF IndInv, RunInv, RunOk, Running
<1>4. Numbered'
  BY <1>1 DEF IndInv, RunInv, Numbered
<1>5. InFlight' /\ Untouched'
  BY <1>1 DEF IndInv, RunInv, InFlight, Untouched
<1>6. SeenKept'
  BY <1>1 DEF SeenKept
<1>7. Fresh'
  BY <1>1 DEF IndInv, RunInv, Fresh, Free
<1> QED
  BY <1>2, <1>3, <1>4, <1>5, <1>6, <1>7 DEF IndInv, RunInv

LEMMA SentKeeps ==
  ASSUME IndInv, Sent \/ AllSent
  PROVE  IndInv'
<1>1. /\ \/ pc = "sending" /\ pc' = "extend" /\ current' = {} /\ current \subseteq landed
         \/ pc = "extend" /\ pc' = "wait" /\ current' = current
      /\ UNCHANGED <<run, table, missing, attempts, seen, ambiguous, chainVars, clientVars>>
      /\ UNCHANGED <<slot, tables, inflight, landed>>
  BY DEF Sent, AllSent, chainVars
<1>2. TypeOK' /\ TableInv' /\ ClientInv'
  BY <1>1, QuietStep DEF IndInv, TypeOK
<1>3. RunOk'
  BY <1>1 DEF IndInv, RunInv, RunOk, Running
<1>4. Numbered'
  BY <1>1 DEF IndInv, RunInv, Numbered
<1>5. InFlight'
  BY <1>1 DEF IndInv, RunInv, InFlight
<1>6. Untouched'
  BY <1>1 DEF IndInv, RunInv, Untouched
<1>7. SeenKept'
  BY <1>1 DEF SeenKept
<1>8. Fresh'
  BY <1>1 DEF IndInv, RunInv, Fresh, Free
<1> QED
  BY <1>2, <1>3, <1>4, <1>5, <1>6, <1>7, <1>8 DEF IndInv, RunInv

LEMMA ReadKeeps ==
  ASSUME IndInv, ReadTable \/ ReadSlot
  PROVE  IndInv'
<1>1. /\ pc \in {"wait", "slot"} /\ pc' \in {"wait", "slot", "ready"}
      /\ UNCHANGED <<run, table, missing, current, ambiguous, chainVars, clientVars>>
      /\ UNCHANGED <<slot, tables, inflight, landed>>
  BY DEF ReadTable, ReadSlot, chainVars
<1>2. Running /\ pc \notin {"survey", "fund", "create", "sending", "extend"}
  BY <1>1 DEF Running
<1>3. RunOk' /\ Numbered' /\ InFlight' /\ Untouched' /\ Fresh'
  <2>1. RunOk'
    BY <1>1, <1>2 DEF IndInv, RunInv, RunOk, Running, ReadTable, ReadSlot
  <2>2. Numbered' /\ InFlight' /\ Untouched' /\ Fresh'
    BY <1>1 DEF IndInv, RunInv, Numbered, InFlight, Untouched, Fresh
  <2> QED
    BY <2>1, <2>2
<1>4. \A k \in table : k \in Keys /\ tables[k].entries \in Seq(Entry)
  BY Runs DEF IndInv, TypeOK
<1>5. attempts \in 0..Attempts /\ Attempts \in Nat
  BY ConstantsAssumption DEF IndInv, TypeOK
<1>6. CASE ReadTable
  <2>1. PICK k \in table : seen' = tables[k].entries
    BY <1>6 DEF ReadTable
  <2>2. /\ attempts < Attempts
        /\ IF Elements(Desired) \subseteq Elements(AddressesOf(seen'))
             THEN pc' = "slot" /\ attempts' = attempts
             ELSE pc' = "wait" /\ attempts' = attempts + 1
    BY <1>6 DEF ReadTable
  <2>3. TypeOK' /\ TableInv' /\ ClientInv'
    <3>1. attempts' \in 0..Attempts
      BY <1>5, <2>2
    <3>2. seen' \in Seq(Entry) /\ missing' \in Seq(Addresses) /\ current' \subseteq current
      BY <1>1, <1>4, <2>1 DEF IndInv, TypeOK
    <3> QED
      BY <1>1, <3>1, <3>2, QuietStep
  <2>4. SeenKept'
    <3>1. \A l \in table : l = k
      BY DEF IndInv, RunInv, RunOk
    <3> QED
      BY <1>1, <2>1, <2>2, <3>1 DEF SeenKept
  <2> QED
    BY <1>3, <2>3, <2>4 DEF IndInv, RunInv
<1>7. CASE ReadSlot
  <2>1. /\ pc = "slot" /\ seen' = seen
        /\ IF slot > LastExtended(seen)
             THEN pc' = "ready" /\ attempts' = attempts
             ELSE pc' = "wait" /\ attempts' = attempts + 1
    BY <1>7 DEF ReadSlot
  <2>2. TypeOK' /\ TableInv' /\ ClientInv'
    <3>1. attempts' \in 0..Attempts
      BY <1>5, <2>1 DEF IndInv, RunInv, RunOk
    <3>2. seen' \in Seq(Entry) /\ missing' \in Seq(Addresses) /\ current' \subseteq current
      BY <1>1, <2>1 DEF IndInv, TypeOK
    <3> QED
      BY <1>1, <3>1, <3>2, QuietStep
  <2>3. SeenKept'
    <3> SUFFICES ASSUME slot > LastExtended(seen)
                 PROVE  \A i \in DOMAIN seen : Warm(seen[i])
      BY <1>1, <2>1 DEF IndInv, RunInv, SeenKept, Warm
    <3>1. PICK k \in table : TRUE
      BY <2>1 DEF IndInv, RunInv, RunOk
    <3>2. \A i \in DOMAIN seen : /\ i \in DOMAIN tables[k].entries
                                 /\ tables[k].entries[i] = seen[i]
      BY <2>1 DEF IndInv, RunInv, SeenKept
    <3> QED
      BY <1>4, <3>2, Latest DEF IndInv, TypeOK
  <2> QED
    BY <1>3, <2>2, <2>3 DEF IndInv, RunInv
<1> QED
  BY <1>6, <1>7

\* What a run sends is new, and the rest of what is missing is less than before.
LEMMA SendKeeps ==
  ASSUME IndInv, NEW tx \in Tx, Send(tx), UNCHANGED <<run, slot, tables, landed>>,
         pc \in {"create", "extend"},
         tx.run = run, tx.table <= run,
         table' \subseteq Keys, \A k, l \in table' : k = l, tx.table \in table',
         missing' \in Seq(Addresses), Len(missing') <= Len(missing),
         tx.left = Len(missing'),
         pc = "extend" => Len(missing') < Len(missing),
         Injective(missing'), Injective(tx.chunk),
         Elements(tx.chunk) \cap Elements(missing') = {},
         \A k \in table' : Free(k, Elements(missing')) /\ Free(k, Elements(tx.chunk))
  PROVE  IndInv'
<1>1. /\ inflight' = inflight \cup {tx} /\ current' = {tx} /\ pc' = "sending"
      /\ UNCHANGED <<attempts, seen, ambiguous, clientVars, queue, loaded, cached>>
  BY DEF Send, clientVars
<1>2. TypeOK'
  BY <1>1 DEF IndInv, TypeOK
<1>3. run > 0 /\ current = {} /\ run \in Nat
  BY Runs DEF IndInv, RunInv, RunOk, Running
<1>4. /\ missing \in Seq(Addresses) /\ Len(missing) \in Nat /\ Len(missing') \in Nat
      /\ tx.left \in Nat
  BY DEF IndInv, TypeOK, Tx
<1>5. RunOk'
  BY <1>1, <1>3 DEF RunOk, Running
<1>6. \A s \in inflight \cup landed :
        /\ s.table <= s.run /\ s.run <= run
        /\ s.run = run => pc # "create" /\ s.left >= Len(missing) /\ s.left \in Nat
  BY Runs DEF IndInv, RunInv, Numbered
<1>7. Numbered'
  <2> SUFFICES ASSUME NEW s \in inflight' \cup landed'
               PROVE  /\ s.table <= s.run /\ s.run <= run
                      /\ s.run = run => s.left >= Len(missing')
    BY <1>1 DEF Numbered
  <2>1. CASE s = tx
    BY <1>3, <1>4, <2>1
  <2>2. CASE s # tx
    <3>1. s \in inflight \cup landed
      BY <1>1, <2>2
    <3> QED
      BY <1>4, <1>6, <3>1
  <2> QED
    BY <2>1, <2>2
<1>8. InFlight'
  <2>1. tx \notin landed
    BY <1>4, <1>6
  <2>2. \A s \in inflight : s.run \in ambiguous
    BY DEF IndInv, RunInv, InFlight
  <2> QED
    BY <1>1, <2>1, <2>2 DEF IndInv, RunInv, InFlight
<1>9. Untouched'
  <2> SUFFICES ASSUME NEW k \in Keys, k > run PROVE tables[k].entries = <<>>
    BY <1>1 DEF Untouched
  <2> QED
    BY DEF IndInv, RunInv, Untouched
<1>10. SeenKept'
  BY <1>1 DEF SeenKept
<1>11. Fresh'
  BY <1>1 DEF Fresh, Free
<1>12. TableInv' /\ ClientInv'
  BY <1>1, RunKeepsRest
<1> QED
  BY <1>2, <1>5, <1>7, <1>8, <1>9, <1>10, <1>11, <1>12 DEF IndInv, RunInv

LEMMA CreateKeeps ==
  ASSUME IndInv, Create
  PROVE  IndInv'
<1> DEFINE tx == [run |-> run, table |-> run, chunk |-> <<>>, left |-> Len(missing)]
<1>1. /\ pc = "create" /\ table' = {run} /\ missing' = missing
      /\ Send(tx) /\ UNCHANGED <<run, slot, tables, landed>>
  BY DEF Create, Send
<1>2. /\ missing \in Seq(Addresses) /\ Len(missing) \in Nat /\ run \in Keys /\ run \in Nat
      /\ table = {} /\ Injective(missing)
  BY <1>1, Runs DEF IndInv, TypeOK, RunInv, RunOk, Fresh
<1>3. tables[run].entries = <<>>
  BY <1>1, <1>2 DEF IndInv, RunInv, Untouched
<1>4. \A A : Free(run, A)
  BY <1>3 DEF Free
<1>5. /\ tx \in Tx /\ tx.run = run /\ tx.table = run /\ tx.chunk = <<>>
      /\ tx.left = Len(missing)
  BY <1>2 DEF Tx
<1>6. Injective(<<>>) /\ Elements(<<>>) = {}
  BY DEF Injective, Elements
<1> HIDE DEF tx
<1> QED
  BY <1>1, <1>2, <1>4, <1>5, <1>6, SendKeeps

LEMMA ExtendKeeps ==
  ASSUME IndInv, Extend
  PROVE  IndInv'
<1> DEFINE n == IF Len(missing) < ChunkSize THEN Len(missing) ELSE ChunkSize
           chunk == SubSeq(missing, 1, n)
           rest == SubSeq(missing, n + 1, Len(missing))
<1>1. /\ pc = "extend" /\ missing # <<>> /\ missing' = rest /\ table' = table
  BY DEF Extend
<1>2. PICK k \in table :
        Send([run |-> run, table |-> k, chunk |-> chunk, left |-> Len(missing) - n])
  BY DEF Extend
<1>3. /\ missing \in Seq(Addresses) /\ Len(missing) \in Nat /\ Len(missing) > 0
      /\ \A i \in 1..Len(missing) : missing[i] \in Addresses
  BY <1>1 DEF IndInv, TypeOK
<1>4. n \in Nat /\ 1 <= n /\ n <= Len(missing)
  BY <1>3, ConstantsAssumption
<1> HIDE DEF n
<1>5. /\ chunk \in Seq(Addresses) /\ Len(chunk) = n
      /\ \A i \in 1..n : chunk[i] = missing[i]
      /\ rest \in Seq(Addresses) /\ Len(rest) = Len(missing) - n
      /\ \A i \in 1..Len(missing) - n : rest[i] = missing[n + i]
  BY <1>3, <1>4
<1> HIDE DEF chunk, rest
<1> DEFINE tx == [run |-> run, table |-> k, chunk |-> chunk, left |-> Len(missing) - n]
<1>6. /\ Injective(missing)
      /\ \A i, j \in 1..Len(missing) : missing[i] = missing[j] => i = j
      /\ \A l \in table : Free(l, Elements(missing))
      /\ k \in Keys /\ k <= run /\ table \subseteq Keys /\ \A l, m \in table : l = m
  BY <1>1, <1>3 DEF IndInv, RunInv, RunOk, Fresh, TypeOK, Injective
<1>7. /\ DOMAIN chunk = 1..n /\ DOMAIN rest = 1..Len(missing) - n
      /\ DOMAIN missing = 1..Len(missing)
      /\ \A i \in 1..n : i \in 1..Len(missing)
      /\ \A i \in 1..Len(missing) - n : n + i \in 1..Len(missing) /\ n + i \notin 1..n
  BY <1>3, <1>4, <1>5
<1>8. Elements(chunk) \subseteq Elements(missing) /\ Elements(rest) \subseteq Elements(missing)
  BY <1>5, <1>7 DEF Elements
<1>9. Injective(chunk)
  BY <1>5, <1>6, <1>7 DEF Injective
<1>10. Injective(rest)
  <2> SUFFICES ASSUME NEW i \in 1..Len(missing) - n, NEW j \in 1..Len(missing) - n,
                      rest[i] = rest[j]
               PROVE  i = j
    BY <1>7 DEF Injective
  <2>1. n + i = n + j
    BY <1>5, <1>6, <1>7
  <2> QED
    BY <1>3, <1>4, <2>1
<1>11. Elements(chunk) \cap Elements(rest) = {}
  <2> SUFFICES ASSUME NEW i \in 1..n, NEW j \in 1..Len(missing) - n, chunk[i] = rest[j]
               PROVE  FALSE
    BY <1>7 DEF Elements
  <2>1. i = n + j
    BY <1>5, <1>6, <1>7
  <2> QED
    BY <1>7, <2>1
<1>12. \A l \in table : Free(l, Elements(rest)) /\ Free(l, Elements(chunk))
  BY <1>6, <1>8 DEF Free
<1>13. /\ tx \in Tx /\ tx.run = run /\ tx.table = k /\ tx.chunk = chunk
       /\ tx.left = Len(missing) - n
  <2>1. Len(missing) - n \in Nat
    BY <1>3, <1>4
  <2> QED
    BY <1>5, <1>6, <2>1, Runs DEF Tx
<1>14. Send(tx) /\ UNCHANGED <<run, slot, tables, landed>>
  BY <1>2 DEF Send
<1>15. Len(rest) < Len(missing) /\ Len(rest) <= Len(missing)
  BY <1>3, <1>4, <1>5
<1> HIDE DEF tx
<1> QED
  BY <1>1, <1>2, <1>5, <1>6, <1>9, <1>10, <1>11, <1>12, <1>13, <1>14, <1>15, SendKeeps

-----------------------------------------------------------------------------
(* The cluster. *)

LEMMA ExpireKeeps ==
  ASSUME IndInv, NEW tx \in inflight, Expire(tx)
  PROVE  IndInv'
<1>1. /\ inflight' = inflight \ {tx}
      /\ UNCHANGED <<slot, tables, landed, run, pc, table, missing, current, attempts, seen,
                     ambiguous, queue, loaded, cached, clientVars>>
  BY DEF Expire, runVars, clientVars
<1>2. TypeOK'
  BY <1>1 DEF IndInv, TypeOK
<1>3. RunOk'
  BY <1>1 DEF IndInv, RunInv, RunOk, Running
<1>4. Numbered' /\ InFlight' /\ Untouched'
  BY <1>1 DEF IndInv, RunInv, Numbered, InFlight, Untouched
<1>5. SeenKept'
  BY <1>1 DEF IndInv, RunInv, SeenKept, Warm
<1>6. Fresh'
  BY <1>1 DEF IndInv, RunInv, Fresh, Free
<1>7. TableInv' /\ ClientInv'
  BY <1>1, RunKeepsRest
<1> QED
  BY <1>2, <1>3, <1>4, <1>5, <1>6, <1>7 DEF IndInv, RunInv

\* Entries are only added, and time does not go back: what a client or a run has
\* read stays true.
LEMMA GrowthKeeps ==
  ASSUME IndInv, slot' \in Int, slot <= slot', UNCHANGED <<runVars, clientVars>>,
         \A k \in Keys : \A i \in DOMAIN tables[k].entries :
           /\ i \in DOMAIN tables'[k].entries
           /\ tables'[k].entries[i] = tables[k].entries[i]
  PROVE  RunOk' /\ SeenKept' /\ ClientInv'
<1>1. UNCHANGED <<run, pc, table, missing, current, attempts, seen, ambiguous, queue,
                  loaded, cached>>
  BY DEF runVars, clientVars
<1>2. RunOk'
  BY <1>1 DEF IndInv, RunInv, RunOk, Running
<1>3. slot \in Int
  BY DEF IndInv, TypeOK
<1>4. ASSUME NEW e \in Entry, Warm(e) PROVE Warm(e)'
  <2>1. e.slot \in Int
    BY ConstantsAssumption DEF Entry
  <2> QED
    BY <1>3, <1>4, <2>1 DEF Warm
<1>5. SeenKept'
  <2>1. ASSUME NEW i \in DOMAIN seen, Warm(seen[i]) PROVE Warm(seen[i])'
    <3>1. seen[i] \in Entry
      BY DEF IndInv, TypeOK
    <3>2. seen[i].slot \in Int
      BY <3>1, ConstantsAssumption DEF Entry
    <3> QED
      BY <1>1, <1>3, <2>1, <3>2 DEF Warm
  <2> QED
    BY <1>1, <2>1 DEF IndInv, TypeOK, RunInv, SeenKept
<1>6. ASSUME NEW s \in Snapshot, Resolves(s) PROVE Resolves(s)'
  <2> SUFFICES ASSUME NEW i \in DOMAIN s.addresses
               PROVE  /\ i \in DOMAIN tables'[s.key].entries
                      /\ tables'[s.key].entries[i].address = s.addresses[i]
                      /\ tables'[s.key].entries[i].slot < slot'
    BY DEF Resolves, Warm
  <2>1. s.key \in Keys
    BY DEF Snapshot
  <2>2. /\ i \in DOMAIN tables[s.key].entries
        /\ tables[s.key].entries[i].address = s.addresses[i]
        /\ tables[s.key].entries[i].slot < slot
    BY <1>6 DEF Resolves, Warm
  <2>3. tables[s.key].entries[i].slot \in Int
    <3>1. tables[s.key].entries[i] \in Entry
      BY <2>1, <2>2, Runs
    <3> QED
      BY <3>1, ConstantsAssumption DEF Entry
  <2> QED
    BY <1>3, <2>1, <2>2, <2>3
<1>7. ClientInv'
  <2>1. Elements(loaded) \subseteq Snapshot /\ Elements(cached) \subseteq Snapshot
    BY DEF Elements, IndInv, TypeOK
  <2>2. /\ \A s \in Elements(loaded) : Resolves(s)'
        /\ \A s \in Elements(cached) : Resolves(s)'
    BY <1>6, <2>1 DEF IndInv, ClientInv
  <2> QED
    BY <1>1, <2>2 DEF IndInv, ClientInv, Refreshing
<1> QED
  BY <1>2, <1>5, <1>7

\* A new slot, or a table that is retired.
LEMMA QuietClusterKeeps ==
  ASSUME IndInv, slot' \in 1..MaxSlot, slot <= slot',
         UNCHANGED <<inflight, landed, runVars, clientVars>>,
         tables' \in [Keys -> Table],
         \A k \in Keys : tables'[k].entries = tables[k].entries
  PROVE  IndInv'
<1>1. UNCHANGED <<run, pc, table, missing, current, attempts, seen, ambiguous, queue,
                  loaded, cached>>
  BY DEF runVars, clientVars
<1>2. slot \in Int /\ slot' \in Int
  BY ConstantsAssumption DEF IndInv, TypeOK
<1>3. TypeOK'
  BY <1>1 DEF IndInv, TypeOK
<1>4. RunOk' /\ SeenKept' /\ ClientInv'
  BY <1>2, GrowthKeeps
<1>5. Numbered' /\ InFlight' /\ Untouched'
  BY <1>1 DEF IndInv, RunInv, Numbered, InFlight, Untouched
<1>6. Fresh'
  <2>1. \A k \in table : k \in Keys
    BY DEF IndInv, TypeOK
  <2> QED
    BY <1>1, <2>1 DEF IndInv, RunInv, Fresh, Free
<1>7. SlotsOrdered'
  <2> SUFFICES ASSUME NEW k \in Keys, NEW i \in DOMAIN tables[k].entries
               PROVE  tables[k].entries[i].slot <= slot'
    BY DEF IndInv, TableInv, SlotsOrdered
  <2>1. tables[k].entries[i] \in Entry
    BY Runs
  <2>2. tables[k].entries[i].slot \in Int
    BY <2>1, ConstantsAssumption DEF Entry
  <2>3. tables[k].entries[i].slot <= slot
    BY DEF IndInv, TableInv, SlotsOrdered
  <2> QED
    BY <1>2, <2>2, <2>3
<1>8. NoDuplicates'
  BY <1>1 DEF IndInv, TableInv, NoDuplicates
<1> QED
  BY <1>3, <1>4, <1>5, <1>6, <1>7, <1>8 DEF IndInv, RunInv, TableInv

LEMMA NextSlotKeeps ==
  ASSUME IndInv, NextSlot
  PROVE  IndInv'
<1>1. /\ slot' = slot + 1 /\ slot < MaxSlot
      /\ UNCHANGED <<tables, inflight, landed, runVars, clientVars>>
  BY DEF NextSlot
<1>2. slot' \in 1..MaxSlot /\ slot <= slot' /\ tables' \in [Keys -> Table]
  BY <1>1, ConstantsAssumption DEF IndInv, TypeOK
<1> QED
  BY <1>1, <1>2, QuietClusterKeeps

LEMMA DeactivateKeeps ==
  ASSUME IndInv, NEW k \in Keys, Deactivate(k)
  PROVE  IndInv'
<1>1. /\ tables' = [tables EXCEPT ![k].deactivation = slot]
      /\ UNCHANGED <<slot, inflight, landed, runVars, clientVars>>
  BY DEF Deactivate
<1>2. tables \in [Keys -> Table] /\ slot \in 1..MaxSlot
  BY DEF IndInv, TypeOK
<1>3. \A l \in Keys : tables'[l] \in Table /\ tables'[l].entries = tables[l].entries
  <2>1. slot \in 1..Never
    BY <1>2, ConstantsAssumption DEF Never
  <2> QED
    BY <1>1, <1>2, <2>1 DEF Table
<1>4. tables' \in [Keys -> Table]
  BY <1>1, <1>2, <1>3
<1>5. slot' \in 1..MaxSlot /\ slot <= slot'
  BY <1>1, <1>2, ConstantsAssumption
<1> QED
  BY <1>1, <1>3, <1>4, <1>5, QuietClusterKeeps

LEMMA ListOf ==
  ASSUME NEW S, NEW n \in Nat, NEW f \in [1..n -> S]
  PROVE  f \in Seq(S) /\ Len(f) = n
OBVIOUS

LEMMA Joined ==
  ASSUME NEW S, NEW s \in Seq(S), NEW t \in Seq(S)
  PROVE  s \o t \in Seq(S) /\ Len(s \o t) = Len(s) + Len(t)
OBVIOUS

\* What an accepted transaction does to the tables.
LEMMA LandedEntries ==
  ASSUME IndInv, NEW tx \in inflight, Accepted(tx), Land(tx)
  PROVE  LET old == tables[tx.table].entries
             new == tables'[tx.table].entries
         IN  /\ tables' \in [Keys -> Table]
             /\ \A k \in Keys : k # tx.table => tables'[k] = tables[k]
             /\ old \in Seq(Entry) /\ Len(old) \in Nat /\ Len(tx.chunk) \in Nat
             /\ new \in Seq(Entry) /\ Len(new) = Len(old) + Len(tx.chunk)
             /\ \A i \in 1..Len(old) : new[i] = old[i]
             /\ \A m \in 1..Len(tx.chunk) :
                  /\ new[Len(old) + m].address = tx.chunk[m]
                  /\ new[Len(old) + m].slot = slot
                  /\ new[Len(old) + m].run = tx.run
<1> DEFINE added == [i \in 1..Len(tx.chunk) |->
             [address |-> tx.chunk[i], slot |-> slot, run |-> tx.run]]
           old == tables[tx.table].entries
           n == Len(tx.chunk)
<1>1. /\ tx.table \in Keys /\ tx.run \in Keys /\ tx.chunk \in Seq(Addresses)
      /\ DOMAIN tx.chunk = 1..Len(tx.chunk) /\ n \in Nat
      /\ \A i \in 1..Len(tx.chunk) : tx.chunk[i] \in Addresses
  <2>1. tx \in Tx
    BY DEF IndInv, TypeOK
  <2> QED
    BY <2>1 DEF Tx
<1>2. /\ tables \in [Keys -> Table] /\ slot \in 0..MaxSlot
      /\ tables[tx.table] \in Table
      /\ old \in Seq(Entry) /\ Len(old) \in Nat
  <2>1. tables \in [Keys -> Table] /\ slot \in 0..MaxSlot
    BY ConstantsAssumption DEF IndInv, TypeOK
  <2>2. tables[tx.table] \in Table
    BY <1>1, <2>1
  <2>3. old \in Seq(Entry)
    BY <2>2 DEF Table
  <2> HIDE DEF old
  <2>4. Len(old) \in Nat
    BY <2>3
  <2> QED
    BY <2>1, <2>2, <2>3, <2>4
<1>3. \A i \in 1..n : /\ added[i] \in Entry /\ added[i].address = tx.chunk[i]
                      /\ added[i].slot = slot /\ added[i].run = tx.run
  BY <1>1, <1>2 DEF Entry
<1>4. added \in Seq(Entry) /\ Len(added) = n
  <2>1. added \in [1..n -> Entry]
    BY <1>3
  <2>2. n \in Nat
    BY <1>1
  <2> HIDE DEF added, n
  <2>3. added \in Seq(Entry) /\ Len(added) = n
    BY <2>1, <2>2, ListOf
  <2> QED
    BY <2>3
<1>5. tables' = [tables EXCEPT ![tx.table] =
        [exists |-> TRUE, deactivation |-> @.deactivation,
         entries |-> @.entries \o added]]
  <2>1. tables' = [tables EXCEPT ![tx.table] =
          [exists |-> TRUE, deactivation |-> @.deactivation, entries |-> @.entries \o
             [i \in DOMAIN tx.chunk |->
                [address |-> tx.chunk[i], slot |-> slot, run |-> tx.run]]]]
    BY Zenon DEF Land
  <2> QED
    BY <1>1, <2>1, Zenon
<1> HIDE DEF added
<1>6. /\ tables'[tx.table] = [exists |-> TRUE,
                              deactivation |-> tables[tx.table].deactivation,
                              entries |-> old \o added]
      /\ \A k \in Keys : k # tx.table => tables'[k] = tables[k]
      /\ DOMAIN tables' = Keys /\ tables' = [k \in Keys |-> tables'[k]]
  BY <1>1, <1>2, <1>5
<1>7. /\ old \o added \in Seq(Entry) /\ Len(old \o added) = Len(old) + n
      /\ \A i \in 1..Len(old) : (old \o added)[i] = old[i]
      /\ \A m \in 1..n : (old \o added)[Len(old) + m] = added[m]
  <2> HIDE DEF old
  <2>1. old \o added \in Seq(Entry) /\ Len(old \o added) = Len(old) + n
    BY <1>2, <1>4, Joined
  <2>2. ASSUME NEW i \in 1..Len(old) PROVE (old \o added)[i] = old[i]
    BY <1>2, <1>4
  <2>3. ASSUME NEW m \in 1..n PROVE (old \o added)[Len(old) + m] = added[m]
    BY <1>1, <1>2, <1>4
  <2> QED
    BY <2>1, <2>2, <2>3
<1>8. tables'[tx.table] \in Table /\ tables'[tx.table].entries = old \o added
  <2>1. tables[tx.table].deactivation \in 1..Never
    BY <1>2 DEF Table
  <2> HIDE DEF old
  <2>2. \A a \in 1..Never, e \in Seq(Entry) :
          [exists |-> TRUE, deactivation |-> a, entries |-> e] \in Table
    BY DEF Table
  <2>3. tables'[tx.table].entries = old \o added
    BY <1>6
  <2> QED
    BY <1>6, <1>7, <2>1, <2>2, <2>3, Zenon
<1>9. /\ tables' \in [Keys -> Table]
      /\ \A k \in Keys : k # tx.table => tables'[k] = tables[k]
  BY <1>2, <1>6, <1>8
<1>10. ASSUME NEW m \in 1..n
       PROVE  /\ (old \o added)[Len(old) + m].address = tx.chunk[m]
              /\ (old \o added)[Len(old) + m].slot = slot
              /\ (old \o added)[Len(old) + m].run = tx.run
  <2>1. (old \o added)[Len(old) + m] = added[m]
    BY <1>7
  <2> HIDE DEF old, n
  <2> QED
    BY <1>3, <2>1
<1> HIDE DEF old
<1>11. /\ tables' \in [Keys -> Table]
       /\ \A k \in Keys : k # tx.table => tables'[k] = tables[k]
       /\ old \in Seq(Entry) /\ Len(old) \in Nat /\ Len(tx.chunk) \in Nat
  BY <1>1, <1>2, <1>9
<1>12. LET new == tables'[tx.table].entries
       IN  /\ new \in Seq(Entry) /\ Len(new) = Len(old) + Len(tx.chunk)
           /\ \A i \in 1..Len(old) : new[i] = old[i]
           /\ \A m \in 1..Len(tx.chunk) :
                /\ new[Len(old) + m].address = tx.chunk[m]
                /\ new[Len(old) + m].slot = slot
                /\ new[Len(old) + m].run = tx.run
  BY <1>7, <1>8, <1>10
<1> QED
  BY <1>11, <1>12 DEF old

LEMMA LandKeeps ==
  ASSUME IndInv, NEW tx \in inflight, Land(tx)
  PROVE  IndInv'
<1>1. CASE ~Accepted(tx)
  <2>1. Expire(tx)
    BY <1>1 DEF Land, Expire
  <2> QED
    BY <2>1, ExpireKeeps
<1>2. CASE Accepted(tx)
  <2> DEFINE old == tables[tx.table].entries
             new == tables'[tx.table].entries
             o == Len(old)
             c == Len(tx.chunk)
  <2>1. /\ inflight' = inflight \ {tx} /\ landed' = landed \cup {tx}
        /\ UNCHANGED <<slot, run, pc, table, missing, current, attempts, seen, ambiguous,
                       queue, loaded, cached>>
        /\ UNCHANGED <<runVars, clientVars>>
    BY <1>2 DEF Land, runVars, clientVars
  <2>2. /\ tx \in Tx /\ tx.table \in Keys /\ tx.run \in Keys
        /\ DOMAIN tx.chunk = 1..c
        /\ table \subseteq Keys
    BY DEF IndInv, TypeOK, Tx
  <2>3. /\ tables' \in [Keys -> Table]
        /\ \A k \in Keys : k # tx.table => tables'[k] = tables[k]
        /\ old \in Seq(Entry) /\ o \in Nat /\ c \in Nat
        /\ new \in Seq(Entry) /\ Len(new) = o + c
        /\ \A i \in 1..o : new[i] = old[i]
        /\ \A m \in 1..c : /\ new[o + m].address = tx.chunk[m]
                           /\ new[o + m].slot = slot
                           /\ new[o + m].run = tx.run
    BY <1>2, LandedEntries, Zenon
  <2> HIDE DEF old, new, c
  <2>4. /\ DOMAIN old = 1..o /\ DOMAIN new = 1..(o + c)
        /\ \A i \in 1..(o + c) :
             (i \in 1..o /\ new[i] = old[i]) \/ \E m \in 1..c : i = o + m
    <3>1. DOMAIN old = 1..o /\ DOMAIN new = 1..(o + c)
      BY <2>3
    <3> HIDE DEF o
    <3>2. ASSUME NEW i \in 1..(o + c), i \notin 1..o PROVE \E m \in 1..c : i = o + m
      <4>1. i - o \in 1..c /\ i = o + (i - o)
        BY <2>3, <3>2
      <4> QED
        BY <4>1
    <3> QED
      BY <2>3, <3>1, <3>2
  <2> HIDE DEF o
  <2>5. /\ TypeOK
        /\ RunOk /\ Numbered /\ InFlight /\ Untouched /\ Fresh
        /\ SlotsOrdered /\ NoDuplicates
    BY DEF IndInv, RunInv, TableInv
  \* A transaction is of a run in doubt, or what the current run waits for.
  <2>6. \/ tx.run \in ambiguous
        \/ /\ tx \in current /\ tx.run = run /\ pc = "sending"
           /\ \A k \in table : k = tx.table
           /\ \A other \in current : other = tx
           /\ Injective(tx.chunk) /\ Elements(tx.chunk) \cap Elements(missing) = {}
           /\ Free(tx.table, Elements(tx.chunk))
    BY <2>5 DEF InFlight, RunOk, Fresh
  <2>7. \A k \in Keys : \A i \in DOMAIN tables[k].entries :
          /\ i \in DOMAIN tables'[k].entries
          /\ tables'[k].entries[i] = tables[k].entries[i]
    <3>1. \A i \in 1..o : i \in 1..(o + c) /\ new[i] = old[i]
      BY <2>3
    <3> QED
      BY <2>3, <2>4, <3>1 DEF old, new
  <2>8. slot \in Int
    BY DEF IndInv, TypeOK
  <2>9. TypeOK'
    BY <2>1, <2>2, <2>3 DEF IndInv, TypeOK
  <2>10. RunOk' /\ SeenKept' /\ ClientInv'
    <3>1. slot' \in Int /\ slot <= slot'
      BY <2>1, <2>8
    <3> QED
      BY <2>1, <2>7, <3>1, GrowthKeeps
  <2>11. Numbered' /\ InFlight'
    BY <2>1, <2>5 DEF Numbered, InFlight
  <2>12. Untouched'
    <3> SUFFICES ASSUME NEW k \in Keys,
                        k > run \/ (k = run /\ pc \in {"survey", "fund", "create"} /\ table = {})
                 PROVE  tables'[k].entries = <<>>
      BY <2>1 DEF Untouched
    <3>1. k # tx.table
      <4>1. /\ tx.table <= tx.run /\ tx.run <= run
            /\ tx.run = run => pc \notin {"survey", "fund", "create"}
        BY <2>5 DEF Numbered
      <4>2. tx.table \in Int /\ tx.run \in Int /\ run \in Int /\ k \in Int
        BY <2>2, ConstantsAssumption DEF Keys, IndInv, TypeOK
      <4> QED
        BY <4>1, <4>2
    <3> QED
      BY <2>3, <2>5, <3>1 DEF Untouched
  \* What the transaction added is of a run in doubt, or is what its chunk holds.
  <2>13. ASSUME NEW A, NEW k \in table, Free(k, A),
                tx.run \in ambiguous \/ Elements(tx.chunk) \cap A = {}
         PROVE  Free(k, A)'
    <3>1. CASE k # tx.table
      BY <2>1, <2>2, <2>3, <2>13, <3>1 DEF Free
    <3>2. CASE k = tx.table
      <4> SUFFICES ASSUME NEW i \in 1..(o + c)
                   PROVE  new[i].run \in ambiguous \/ new[i].address \notin A
        BY <2>1, <2>4, <3>2 DEF Free, new
      <4>1. CASE i \in 1..o /\ new[i] = old[i]
        BY <2>4, <2>13, <3>2, <4>1 DEF Free, old
      <4>2. CASE \E m \in 1..c : i = o + m
        <5>1. PICK m \in 1..c : i = o + m
          BY <4>2
        <5>2. new[i].address \in Elements(tx.chunk) /\ new[i].run = tx.run
          BY <2>2, <2>3, <5>1 DEF Elements
        <5> QED
          BY <2>13, <5>2
      <4> QED
        BY <2>4, <4>1, <4>2
    <3> QED
      BY <3>1, <3>2
  <2>14. Fresh'
    <3>1. ASSUME pc \in {"fund", "create", "extend", "sending"}, NEW k \in table
          PROVE  Free(k, Elements(missing))'
      <4>1. Free(k, Elements(missing))
        BY <2>5, <3>1 DEF Fresh
      <4> DEFINE A == Elements(missing)
      <4>2. Free(k, A) /\ (tx.run \in ambiguous \/ Elements(tx.chunk) \cap A = {})
        BY <2>6, <4>1
      <4>3. A' = A
        BY <2>1 DEF Elements
      <4> HIDE DEF A
      <4>4. Free(k, A)'
        BY <2>13, <4>2, <4>3 DEF Free
      <4> QED
        BY <4>4 DEF A
    <3>2. ASSUME pc = "sending", NEW other \in current, other \in inflight \ {tx}, NEW k \in table
          PROVE  Free(k, Elements(other.chunk))'
      <4>1. Free(k, Elements(other.chunk)) /\ tx.run \in ambiguous
        BY <2>5, <2>6, <3>2 DEF Fresh
      <4> QED
        BY <2>13, <4>1
    <3> QED
      BY <2>1, <2>5, <3>1, <3>2 DEF Fresh
  <2>15. SlotsOrdered'
    <3> SUFFICES ASSUME NEW k \in Keys
                 PROVE  /\ \A i \in DOMAIN tables'[k].entries : tables'[k].entries[i].slot <= slot
                        /\ \A i, j \in DOMAIN tables'[k].entries :
                             i <= j => tables'[k].entries[i].slot <= tables'[k].entries[j].slot
      BY <2>1 DEF SlotsOrdered
    <3>1. CASE k # tx.table
      BY <2>3, <2>5, <3>1 DEF SlotsOrdered
    <3>2. CASE k = tx.table
      <4>1. /\ \A i \in 1..o : old[i].slot <= slot
            /\ \A i, j \in 1..o : i <= j => old[i].slot <= old[j].slot
        BY <2>2, <2>4, <2>5 DEF SlotsOrdered, old
      <4>2. \A i \in 1..(o + c) : new[i].slot <= slot
        <5> SUFFICES ASSUME NEW i \in 1..(o + c) PROVE new[i].slot <= slot
          OBVIOUS
        <5>1. CASE i \in 1..o /\ new[i] = old[i]
          BY <4>1, <5>1
        <5>2. CASE \E m \in 1..c : i = o + m
          <6>1. PICK m \in 1..c : i = o + m
            BY <5>2
          <6>2. new[i].slot = slot
            BY <2>3, <6>1
          <6> QED
            BY <2>8, <6>2
        <5> QED
          BY <2>4, <5>1, <5>2
      <4>3. ASSUME NEW i \in 1..(o + c), NEW j \in 1..(o + c), i <= j
            PROVE  new[i].slot <= new[j].slot
        <5>1. CASE j \in 1..o /\ new[j] = old[j]
          <6>1. i \in 1..o
            BY <2>3, <4>3, <5>1
          <6> QED
            BY <2>3, <4>1, <4>3, <5>1, <6>1
        <5>2. CASE \E m \in 1..c : j = o + m
          <6>1. new[j].slot = slot
            BY <2>3, <5>2
          <6> QED
            BY <4>2, <6>1
        <5> QED
          BY <2>4, <5>1, <5>2
      <4> QED
        BY <2>4, <3>2, <4>2, <4>3 DEF new
    <3> QED
      BY <3>1, <3>2
  <2>16. NoDuplicates'
    <3> SUFFICES ASSUME NEW k \in Keys,
                        NEW i \in DOMAIN tables'[k].entries, NEW j \in DOMAIN tables'[k].entries,
                        i < j, tables'[k].entries[i].address = tables'[k].entries[j].address
                 PROVE  \/ tables'[k].entries[j].run = 0
                        \/ {tables'[k].entries[i].run, tables'[k].entries[j].run}
                             \cap ambiguous # {}
      BY <2>1 DEF NoDuplicates
    <3>1. CASE k # tx.table
      BY <2>3, <2>5, <3>1 DEF NoDuplicates
    <3>2. CASE k = tx.table
      <4>1. /\ i \in 1..(o + c) /\ j \in 1..(o + c) /\ i < j
            /\ new[i].address = new[j].address
        BY <2>4, <3>2 DEF new
      <4> SUFFICES new[j].run = 0 \/ {new[i].run, new[j].run} \cap ambiguous # {}
        BY <3>2 DEF new
      <4>2. CASE j \in 1..o
        <5>1. i \in 1..o
          BY <2>3, <4>1, <4>2
        <5> QED
          <6>1. new[i] = old[i] /\ new[j] = old[j] /\ old[i].address = old[j].address
            BY <2>3, <4>1, <4>2, <5>1
          <6>2. old[j].run = 0 \/ {old[i].run, old[j].run} \cap ambiguous # {}
            BY <2>2, <2>4, <2>5, <4>1, <4>2, <5>1, <6>1 DEF NoDuplicates, old
          <6> QED
            BY <6>1, <6>2
      <4>3. CASE j \notin 1..o
        <5>1. PICK m \in 1..c : j = o + m
          BY <2>4, <4>1, <4>3
        <5>2. new[j].run = tx.run /\ new[j].address = tx.chunk[m] /\ m \in DOMAIN tx.chunk
          BY <2>2, <2>3, <5>1
        <5>3. CASE tx.run \in ambiguous
          BY <5>2, <5>3
        <5>4. CASE tx.run \notin ambiguous
          <6>1. Injective(tx.chunk) /\ Free(tx.table, Elements(tx.chunk))
            BY <2>6, <5>4
          <6>2. CASE i \in 1..o /\ new[i] = old[i]
            <7>1. old[i].address \in Elements(tx.chunk)
              BY <4>1, <5>2, <6>2 DEF Elements
            <7> QED
              BY <2>4, <6>1, <6>2, <7>1 DEF Free, old
          <6>3. CASE \E l \in 1..c : i = o + l
            <7>1. PICK l \in 1..c : i = o + l
              BY <6>3
            <7>2. tx.chunk[l] = tx.chunk[m] /\ l \in DOMAIN tx.chunk
              BY <2>2, <2>3, <4>1, <5>2, <7>1
            <7>3. l = m
              BY <5>2, <6>1, <7>2 DEF Injective
            <7> QED
              BY <2>3, <4>1, <5>1, <7>1, <7>3
          <6> QED
            BY <2>4, <4>1, <6>2, <6>3
        <5> QED
          BY <5>3, <5>4
      <4> QED
        BY <4>2, <4>3
    <3> QED
      BY <3>1, <3>2
  <2> QED
    BY <2>9, <2>10, <2>11, <2>12, <2>14, <2>15, <2>16 DEF IndInv, RunInv, TableInv
<1> QED
  BY <1>1, <1>2

-----------------------------------------------------------------------------
(* The theorems. *)

LEMMA NextKeeps ==
  ASSUME IndInv, [Next]_vars
  PROVE  IndInv'
<1>1. CASE \E existing \in {{}} \cup {{k} : k \in 0..run} : StartRun(existing)
  BY <1>1, StartRunKeeps
<1>2. CASE Survey
  BY <1>2, SurveyKeeps
<1>3. CASE Fund
  BY <1>3, FundKeeps
<1>4. CASE Create
  BY <1>4, CreateKeeps
<1>5. CASE Extend
  BY <1>5, ExtendKeeps
<1>6. CASE Sent \/ AllSent
  BY <1>6, SentKeeps
<1>7. CASE ReadTable \/ ReadSlot
  BY <1>7, ReadKeeps
<1>8. CASE RunFails
  BY <1>8, RunFailsKeeps
<1>9. CASE NextSlot
  BY <1>9, NextSlotKeeps
<1>10. CASE \E tx \in inflight : Land(tx) \/ Expire(tx)
  BY <1>10, LandKeeps, ExpireKeeps
<1>11. CASE \E k \in Keys : Deactivate(k)
  BY <1>11, DeactivateKeeps
<1>12. CASE Client
  BY <1>12, ClientKeeps
<1>13. CASE UNCHANGED vars
  <2>1. /\ UNCHANGED <<slot, inflight, landed, runVars, clientVars>>
        /\ tables' = tables
    BY <1>13 DEF vars, chainVars
  <2>2. slot' \in 1..MaxSlot /\ slot <= slot' /\ tables' \in [Keys -> Table]
    BY <2>1, ConstantsAssumption DEF IndInv, TypeOK
  <2> QED
    BY <2>1, <2>2, QuietClusterKeeps
<1> QED
  BY <1>1, <1>2, <1>3, <1>4, <1>5, <1>6, <1>7, <1>8, <1>9, <1>10, <1>11, <1>12, <1>13
     DEF Next, Proceed, Cluster

LEMMA Invariance == Spec => []IndInv
<1>1. IndInv /\ [Next]_vars => IndInv'
  BY NextKeeps
<1> QED
  BY <1>1, InitIndInv, PTL DEF Spec

\* Every variable stays in its type: in particular no table's entries, and no
\* snapshot's, are ever anything but addresses that were meant to be in a table.
THEOREM TypeCorrect == Spec => []TypeOK
<1>1. IndInv => TypeOK
  BY DEF IndInv
<1> QED
  BY <1>1, Invariance, PTL

\* What the cluster finds at an index of a table.
LEMMA LookedUpIs ==
  ASSUME NEW k \in Keys, NEW i \in DOMAIN tables[k].entries,
         Warm(tables[k].entries[i])
  PROVE  /\ LookedUp(k, i) \subseteq {tables[k].entries[i].address}
         /\ Served(tables[k]) => LookedUp(k, i) = {tables[k].entries[i].address}
BY DEF LookedUp

\* The cluster finds at an index of a cached snapshot the snapshot's address, or
\* nothing once the table was retired and cooled down, whatever is appended to
\* the table or becomes of it (load_address_lookup_table refuses a table that
\* has not warmed up; tables only grow).
THEOREM CachedNeverMisleads == Spec => []SnapshotsResolve
<1>1. ASSUME IndInv PROVE SnapshotsResolve
  <2> SUFFICES ASSUME NEW s \in Elements(cached), NEW i \in DOMAIN s.addresses
               PROVE  /\ LookedUp(s.key, i) \subseteq {s.addresses[i]}
                      /\ Served(tables[s.key]) => LookedUp(s.key, i) # {}
    BY DEF SnapshotsResolve
  <2>1. /\ i \in DOMAIN tables[s.key].entries
        /\ tables[s.key].entries[i].address = s.addresses[i]
        /\ Warm(tables[s.key].entries[i])
    BY <1>1 DEF IndInv, ClientInv, Resolves
  <2>2. s.key \in Keys
    <3>1. s \in Snapshot
      BY <1>1 DEF IndInv, TypeOK, Elements
    <3> QED
      BY <3>1 DEF Snapshot
  <2> QED
    BY <2>1, <2>2, LookedUpIs
<1> QED
  BY <1>1, Invariance, PTL

\* What wait_until_active reports ready has every shared address, and each can
\* be looked up while the table is served, although the program reads the table
\* and the slot in two requests.
THEOREM ReadyIsUsable == Spec => []ReadyMeansUsable
<1>1. ASSUME IndInv PROVE ReadyMeansUsable
  <2> SUFFICES ASSUME pc = "ready", NEW k \in table, Served(tables[k]),
                      NEW a \in Elements(Desired)
               PROVE  \E i \in DOMAIN tables[k].entries : LookedUp(k, i) = {a}
    BY DEF ReadyMeansUsable
  <2>1. /\ Elements(Desired) \subseteq Elements(AddressesOf(seen))
        /\ \A i \in DOMAIN seen : /\ i \in DOMAIN tables[k].entries
                                  /\ tables[k].entries[i] = seen[i]
                                  /\ Warm(seen[i])
    BY <1>1 DEF IndInv, RunInv, SeenKept
  <2>2. PICK i \in DOMAIN seen : seen[i].address = a
    BY <2>1 DEF Elements, AddressesOf
  <2>3. /\ i \in DOMAIN tables[k].entries /\ Warm(tables[k].entries[i])
        /\ tables[k].entries[i].address = a
    BY <2>1, <2>2
  <2>4. k \in Keys
    BY <1>1 DEF IndInv, TypeOK
  <2> QED
    BY <2>3, <2>4, LookedUpIs
<1> QED
  BY <1>1, Invariance, PTL

\* No address is added to a table that has it already, however the runs are
\* killed and resumed: only a run that ended while its transaction could still
\* land can cause a repetition.
THEOREM NothingTwice == Spec => []NoDuplicates
<1>1. IndInv => NoDuplicates
  BY DEF IndInv, TableInv
<1> QED
  BY <1>1, Invariance, PTL

\* A refresh, complete or failed half-way, loses, repeats and reorders none of
\* the client's tables.
THEOREM RefreshIsAtomic == Spec => RefreshKeepsTables
<1>1. ASSUME IndInv, [Next]_vars
      PROVE  [cached # <<>> => KeysOf(cached') = KeysOf(cached)]_vars
  <2>1. cached' = cached \/ LoadDone \/ \E keys \in KeyLists : Configure(keys)
    BY <1>1 DEF Next, Proceed, Cluster, Client, StartRun, Survey, Fund, Create, Extend,
         Sent, AllSent, ReadTable, ReadSlot, RunFails, NextSlot, Land, Expire, Deactivate,
         Send, Refresh, LoadOne, LoadFails, vars, clientVars
  <2>2. CASE LoadDone /\ cached # <<>>
    <3>1. /\ queue = <<>> /\ cached' = loaded
          /\ KeysOf(loaded) \o queue = KeysOf(cached)
      BY <1>1, <2>2 DEF LoadDone, IndInv, ClientInv, Refreshing
    <3>2. KeysOf(loaded) \in Seq(Keys)
      BY <1>1, KeysOfIs DEF IndInv, TypeOK
    <3>3. KeysOf(loaded) \o <<>> = KeysOf(loaded)
      BY <3>2
    <3> QED
      BY <3>1, <3>3
  <2> QED
    BY <2>1, <2>2 DEF Configure
<1> QED
  BY <1>1, Invariance, PTL DEF Spec, RefreshKeepsTables
=============================================================================
