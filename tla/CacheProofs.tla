---------------------------- MODULE CacheProofs ----------------------------
(***************************************************************************)
(* Proofs about Cache, for every accepted configuration, every trace and   *)
(* every initial value of the FIFO counter.  The invariant is a property   *)
(* of each set by itself, so the lemmas speak of one set before and after  *)
(* a hit or a miss.                                                        *)
(***************************************************************************)
EXTENDS Cache, Sequences, FiniteSetTheorems, TLAPS, WellFoundedInduction

CleanIn(set) ==
  \A i \in DOMAIN set.slots :
    set.slots[i].dirty => ~config.write_through /\ i \in Valid(set)

SetInv(set) ==
  /\ set \in Set
  /\ DistinctIn(set)
  /\ config.is_lru => OrderedIn(set)
  /\ CleanIn(set)

ConfigOK == config \in CacheConfig /\ Accepted(config)

(* Every access is counted as a hit or a miss, and the trace is short.     *)
SumsOf(a) ==
  /\ a.load_hits + a.load_misses = a.total_loads
  /\ a.store_hits + a.store_misses = a.total_stores
  /\ a.total_loads + a.total_stores <= MaxAccesses

IInv ==
  /\ TypeOK
  /\ SumsOf(stats)
  /\ \A s \in SetIndex(config) : SetInv(sets[s])

-----------------------------------------------------------------------------
(* Every non-empty set of numbers has a least one.                         *)
LEMMA LeastNumber ==
  ASSUME NEW T \in SUBSET Nat, T # {}
  PROVE  \E m \in T : \A n \in T : m <= n
<1>1. PICK m \in T : \A n \in T : ~ (<<n, m>> \in OpToRel(<, Nat))
  BY NatLessThanWellFounded, WFMin
<1>2. \A n \in T : ~ (n < m)
  BY <1>1 DEF OpToRel
<1> QED
  BY <1>2

LEMMA ConfigBounds ==
  ASSUME ConfigOK
  PROVE  /\ config.num_sets \in Nat \ {0}
         /\ config.num_blocks \in 1 .. (Word - 1)
         /\ config.block_size \in Nat /\ config.block_size >= 4
         /\ config.is_lru \in BOOLEAN /\ config.write_through \in BOOLEAN
         /\ config.write_allocate \in BOOLEAN
         /\ SetSpan(config) \in Nat
<1>1. /\ config.num_sets \in 0 .. (Word - 1) /\ config.num_sets > 0
      /\ config.num_blocks \in 0 .. (Word - 1) /\ config.num_blocks > 0
      /\ config.block_size \in 0 .. (Word - 1) /\ config.block_size >= 4
      /\ Word \in Nat /\ Word > 100
  BY GeometryAssumption DEF ConfigOK, CacheConfig, Accepted, is_power_of_2, PowerOf2
<1>2. config.num_sets * config.block_size \in Nat
  BY <1>1
<1>3. SetSpan(config) \in Nat
  BY <1>1, <1>2 DEF SetSpan
<1> QED
  BY <1>1, <1>3 DEF ConfigOK, CacheConfig

(* The parts of an address are in range.                                   *)
LEMMA AddressParts ==
  ASSUME ConfigOK, SetSpan(config) # 0, NEW address \in Addresses
  PROVE  /\ get_index(config, address) \in SetIndex(config)
         /\ get_tag(config, address) \in 0 .. (Word - 1)
<1>1. address \in Nat /\ address < Word /\ Word \in Nat
  BY GeometryAssumption
<1> DEFINE block == address \div config.block_size
           span == SetSpan(config)
           n == config.num_sets
<1>2. block \in Nat
  BY <1>1, ConfigBounds
<1>3. n \in Nat \ {0} /\ span \in Nat \ {0}
  BY ConfigBounds
<1> HIDE DEF block, span, n
<1>4. block % n \in 0 .. (n - 1)
  BY <1>2, <1>3
<1>5. address \div span \in Nat /\ address \div span <= address
  BY <1>1, <1>3
<1> QED
  BY <1>1, <1>4, <1>5 DEF get_index, get_tag, SetIndex, block, span, n

(* find_victim_slot() of a full set finds a slot that no other is evicted  *)
(* before.                                                                 *)
LEMMA VictimExists ==
  ASSUME ConfigOK, NEW set \in Set, IsFull(set)
  PROVE  \E i \in Valid(set) : \A j \in Valid(set) : EvictedBefore(set.slots, i, j)
<1> DEFINE V == Valid(set)
           order(i) == set.slots[i].access_order
           key(i) == IF config.is_lru THEN Word - order(i) ELSE order(i)
           K == { key(i) : i \in V }
<1>1. /\ 0 \in V /\ V \subseteq Nat
      /\ \A i \in V : order(i) \in 0 .. (Word - 1)
      /\ Word \in Nat
  BY ConfigBounds, GeometryAssumption DEF Valid, IsFull, Set, Slot
<1>2. \A i \in V : key(i) \in Nat
  BY <1>1
<1>3. PICK k \in K : \A n \in K : k <= n
  <2>1. K \in SUBSET Nat /\ K # {}
    BY <1>1, <1>2
  <2> QED
    BY <2>1, LeastNumber
<1> DEFINE M == { i \in V : key(i) = k }
<1>4. PICK i \in M : \A j \in M : i <= j
  <2>1. M \in SUBSET Nat /\ M # {}
    BY <1>1, <1>3
  <2> QED
    BY <2>1, LeastNumber
<1>5. ASSUME NEW j \in V PROVE EvictedBefore(set.slots, i, j)
  <2>1. i \in V /\ key(i) = k /\ key(i) <= key(j)
    BY <1>3, <1>4
  <2>2. CASE order(i) = order(j)
    <3>1. j \in M
      BY <2>1, <2>2
    <3> QED
      BY <1>4, <2>2, <3>1 DEF EvictedBefore
  <2>3. CASE order(i) # order(j)
    BY <1>1, <2>1, <2>3 DEF EvictedBefore
  <2> QED
    BY <2>2, <2>3
<1> QED
  BY <1>4, <1>5

LEMMA VictimProperties ==
  ASSUME ConfigOK, NEW set \in Set
  PROVE  LET i == find_victim_slot(set) IN
         /\ i \in 0 .. (config.num_blocks - 1)
         /\ IsFull(set) =>
              i \in Valid(set) /\ \A j \in Valid(set) : EvictedBefore(set.slots, i, j)
         /\ ~IsFull(set) => i = set.valid_count
<1>1. CASE IsFull(set)
  BY <1>1, VictimExists DEF find_victim_slot, IsFull, Valid
<1>2. CASE ~IsFull(set)
  BY <1>2, ConfigBounds DEF find_victim_slot, IsFull, Set
<1> QED
  BY <1>1, <1>2

-----------------------------------------------------------------------------
(* A store to a slot in use changes nothing but its dirty flag.            *)
LEMMA WrittenKeepsInv ==
  ASSUME ConfigOK, NEW set, SetInv(set), NEW i \in Valid(set)
  PROVE  SetInv(Written(set, i))
<1> DEFINE new == Written(set, i)
           d == set.slots[i].dirty \/ ~config.write_through
<1>1. /\ set.slots \in [0 .. (config.num_blocks - 1) -> Slot]
      /\ set.valid_count \in 0 .. config.num_blocks
      /\ set.fifo_counter \in Nat
      /\ Valid(set) \subseteq 0 .. (config.num_blocks - 1)
  BY ConfigBounds DEF SetInv, Set, Valid
<1>2. /\ new.slots = [set.slots EXCEPT ![i] = [set.slots[i] EXCEPT !.dirty = d]]
      /\ new.valid_count = set.valid_count
      /\ new.fifo_counter = set.fifo_counter
      /\ new = [slots |-> new.slots, valid_count |-> new.valid_count,
                fifo_counter |-> new.fifo_counter]
  BY DEF Written, SetInv, Set
<1>3. d \in BOOLEAN /\ (d => set.slots[i].dirty \/ ~config.write_through)
  OBVIOUS
<1>4. set.slots[i] \in Slot
  BY <1>1
<1> HIDE DEF d, new
<1>5. /\ [set.slots[i] EXCEPT !.dirty = d] \in Slot
      /\ [set.slots[i] EXCEPT !.dirty = d].tag = set.slots[i].tag
      /\ [set.slots[i] EXCEPT !.dirty = d].dirty = d
      /\ [set.slots[i] EXCEPT !.dirty = d].access_order = set.slots[i].access_order
  BY <1>3, <1>4 DEF Slot
<1>6. /\ new.slots \in [0 .. (config.num_blocks - 1) -> Slot]
      /\ \A j \in 0 .. (config.num_blocks - 1) :
           /\ new.slots[j].tag = set.slots[j].tag
           /\ new.slots[j].access_order = set.slots[j].access_order
           /\ new.slots[j].dirty = IF j = i THEN d ELSE set.slots[j].dirty
  BY <1>1, <1>2, <1>5
<1>7. Valid(new) = Valid(set) /\ DOMAIN new.slots = DOMAIN set.slots
  BY <1>1, <1>2, <1>6 DEF Valid
<1>8. new \in Set
  BY <1>1, <1>2, <1>6 DEF Set
<1>9. DistinctIn(new)
  BY <1>1, <1>6, <1>7 DEF SetInv, DistinctIn
<1>10. config.is_lru => OrderedIn(new)
  BY <1>1, <1>2, <1>6, <1>7 DEF SetInv, OrderedIn
<1>11. CleanIn(new)
  BY <1>1, <1>3, <1>6, <1>7 DEF SetInv, CleanIn
<1> QED
  BY <1>8, <1>9, <1>10, <1>11 DEF SetInv, new

(* A hit leaves the tags where they are and renumbers the orders.          *)
LEMMA RenewedKeepsInv ==
  ASSUME ConfigOK, NEW set, SetInv(set), NEW i \in Valid(set)
  PROVE  SetInv(Renewed(set, i))
<1>1. CASE ~config.is_lru
  BY <1>1 DEF Renewed
<1>2. CASE config.is_lru
  <2> DEFINE new == Renewed(set, i)
             ref == set.slots[i].access_order
  <2>1. /\ set.slots \in [0 .. (config.num_blocks - 1) -> Slot]
        /\ set.valid_count \in 0 .. config.num_blocks
        /\ set.fifo_counter \in Nat
        /\ Valid(set) \subseteq 0 .. (config.num_blocks - 1)
        /\ config.num_blocks \in Nat
    BY ConfigBounds DEF SetInv, Set, Valid
  <2>2. /\ new.valid_count = set.valid_count
        /\ new.fifo_counter = set.fifo_counter
        /\ new = [slots |-> new.slots, valid_count |-> new.valid_count,
                  fifo_counter |-> new.fifo_counter]
    BY <1>2 DEF Renewed, SetInv, Set
  <2>3. new.slots = [j \in 0 .. (config.num_blocks - 1) |->
          IF j = i THEN [set.slots[j] EXCEPT !.access_order = 0]
          ELSE IF j < set.valid_count /\ set.slots[j].access_order < ref
          THEN [set.slots[j] EXCEPT !.access_order = @ + 1] ELSE set.slots[j]]
    BY <1>2, <2>1 DEF Renewed, update_lru, SetInv, Set
  <2>4. \A j \in 0 .. (config.num_blocks - 1) :
          /\ new.slots[j] \in Slot
          /\ new.slots[j].tag = set.slots[j].tag
          /\ new.slots[j].dirty = set.slots[j].dirty
    <3> SUFFICES ASSUME NEW j \in 0 .. (config.num_blocks - 1)
                 PROVE  /\ new.slots[j] \in Slot
                        /\ new.slots[j].tag = set.slots[j].tag
                        /\ new.slots[j].dirty = set.slots[j].dirty
      OBVIOUS
    <3> DEFINE old == set.slots[j]
    <3>1. old \in Slot /\ ref \in 0 .. (Word - 1) /\ Word \in Nat
      BY <2>1, GeometryAssumption DEF Slot
    <3>2. \/ new.slots[j] = [old EXCEPT !.access_order = 0]
          \/ /\ old.access_order < ref
             /\ new.slots[j] = [old EXCEPT !.access_order = old.access_order + 1]
          \/ new.slots[j] = old
      BY <2>3
    <3> HIDE DEF old, ref, new
    <3>3. /\ [old EXCEPT !.access_order = 0] \in Slot
          /\ old.access_order < ref => old.access_order + 1 \in 0 .. (Word - 1)
      BY <3>1, GeometryAssumption DEF Slot
    <3>4. old.access_order < ref =>
            [old EXCEPT !.access_order = old.access_order + 1] \in Slot
      BY <3>1, <3>3 DEF Slot
    <3>5. new.slots[j] \in Slot /\ new.slots[j].tag = old.tag /\ new.slots[j].dirty = old.dirty
      BY <3>1, <3>2, <3>3, <3>4 DEF Slot
    <3> QED
      BY <3>5 DEF old
  <2>5. new \in Set
    BY <2>1, <2>2, <2>3, <2>4 DEF Set
  <2>6. Valid(new) = Valid(set) /\ DOMAIN new.slots = DOMAIN set.slots
    BY <2>1, <2>2, <2>3 DEF Valid
  <2>7. DistinctIn(new) /\ CleanIn(new)
    BY <2>1, <2>4, <2>6 DEF SetInv, DistinctIn, CleanIn
  <2>8. OrderedIn(new)
    <3>1. \A j \in Valid(set) :
            /\ set.slots[j].access_order \in Nat
            /\ set.slots[j].access_order < set.valid_count
            /\ new.slots[j].access_order =
                 IF j = i THEN 0
                 ELSE IF set.slots[j].access_order < ref THEN set.slots[j].access_order + 1
                 ELSE set.slots[j].access_order
      BY <1>2, <2>1, <2>3 DEF SetInv, OrderedIn, Slot, Valid
    <3>2. \A j, k \in Valid(set) :
            set.slots[j].access_order = set.slots[k].access_order => j = k
      BY <1>2 DEF SetInv, OrderedIn
    <3>3. ref \in Nat /\ ref < set.valid_count /\ set.valid_count \in Nat
      BY <2>1, <3>1
    <3>4. \A j \in Valid(set) : new.slots[j].access_order < set.valid_count
      BY <3>1, <3>3
    <3>5. ASSUME NEW j \in Valid(set), NEW k \in Valid(set),
                 new.slots[j].access_order = new.slots[k].access_order
          PROVE  j = k
      BY <3>1, <3>2, <3>3, <3>5
    <3> QED
      BY <2>2, <2>6, <3>4, <3>5 DEF OrderedIn
  <2> QED
    BY <2>5, <2>7, <2>8 DEF SetInv
<1> QED
  BY <1>1, <1>2

(* A miss overwrites the victim with a block the set does not hold yet,    *)
(* and renumbers the others.                                               *)
LEMMA FilledKeepsInv ==
  ASSUME ConfigOK, NEW set, SetInv(set),
         NEW tag \in 0 .. (Word - 1), ~Hit(set, tag),
         NEW dirty \in BOOLEAN, dirty => ~config.write_through
  PROVE  SetInv(Filled(set, tag, dirty))
<1> DEFINE new == Filled(set, tag, dirty)
           v == find_victim_slot(set)
           n == config.num_blocks
           count == CountAfterFill(set)
           order(j) == set.slots[j].access_order
<1>1. /\ set \in Set
      /\ set.slots \in [0 .. (n - 1) -> Slot]
      /\ set.valid_count \in 0 .. n
      /\ set.fifo_counter \in Nat
      /\ n \in 1 .. (Word - 1)
      /\ Word \in Nat
  BY ConfigBounds, GeometryAssumption DEF SetInv, Set
<1>2. /\ v \in 0 .. (n - 1)
      /\ IsFull(set) =>
           v \in Valid(set) /\ \A j \in Valid(set) : EvictedBefore(set.slots, v, j)
      /\ ~IsFull(set) => v = set.valid_count
  BY <1>1, VictimProperties
<1>3. /\ count \in 0 .. n
      /\ (0 .. (count - 1)) = Valid(set) \cup {v}
  BY <1>1, <1>2 DEF IsFull, Valid, CountAfterFill
<1> HIDE DEF v, n, count
<1>4. new.valid_count = count /\ DOMAIN new = {"slots", "valid_count", "fifo_counter"}
  BY <1>1 DEF Filled, Set, count
<1>5. Valid(new) = Valid(set) \cup {v}
  BY <1>3, <1>4 DEF Valid
<1>6. /\ new.slots \in [0 .. (n - 1) -> Slot]
      /\ new.slots[v].tag = tag /\ new.slots[v].dirty = dirty
      /\ \A j \in 0 .. (n - 1) : j # v =>
           new.slots[j].tag = set.slots[j].tag /\ new.slots[j].dirty = set.slots[j].dirty
      /\ new.fifo_counter \in Nat
  <2>1. CASE config.is_lru
    <3>1. new.slots = [j \in 0 .. (n - 1) |->
            IF j = v THEN [tag |-> tag, dirty |-> dirty, access_order |-> 0]
            ELSE IF j < count /\ order(j) < n
            THEN [set.slots[j] EXCEPT !.access_order = @ + 1] ELSE set.slots[j]]
      BY <1>1, <1>2, <2>1 DEF Filled, update_lru, Set, v, n, count
    <3>2. new.fifo_counter = set.fifo_counter
      BY <1>1, <2>1 DEF Filled, Set
    <3>3. [tag |-> tag, dirty |-> dirty, access_order |-> 0] \in Slot
      BY <1>1 DEF Slot
    <3>4. ASSUME NEW j \in 0 .. (n - 1), order(j) < n
          PROVE  /\ [set.slots[j] EXCEPT !.access_order = @ + 1] \in Slot
                 /\ [set.slots[j] EXCEPT !.access_order = @ + 1].tag = set.slots[j].tag
                 /\ [set.slots[j] EXCEPT !.access_order = @ + 1].dirty = set.slots[j].dirty
      <4>1. set.slots[j] \in Slot
        BY <1>1
      <4>2. order(j) \in Nat
        BY <4>1 DEF Slot
      <4>3. order(j) + 1 \in 0 .. (Word - 1)
        BY <1>1, <3>4, <4>2
      <4> QED
        BY <4>1, <4>3 DEF Slot
    <3>5. \A j \in 0 .. (n - 1) : set.slots[j] \in Slot
      BY <1>1
    <3> HIDE DEF new
    <3> QED
      BY <1>1, <1>2, <3>1, <3>2, <3>3, <3>4, <3>5
  <2>2. CASE ~config.is_lru
    <3> DEFINE block == [tag |-> tag, dirty |-> dirty,
                         access_order |-> set.fifo_counter % Word]
    <3>1. new.slots = [set.slots EXCEPT ![v] = block]
      BY <1>1, <2>2 DEF Filled, Set, v
    <3>2. new.fifo_counter = set.fifo_counter + 1
      BY <1>1, <2>2 DEF Filled, Set
    <3>3. set.fifo_counter % Word \in 0 .. (Word - 1)
      BY <1>1
    <3>4. block \in Slot /\ block.tag = tag /\ block.dirty = dirty
      BY <3>3 DEF Slot
    <3> HIDE DEF new, block
    <3> QED
      BY <1>1, <1>2, <3>1, <3>2, <3>4
  <2> QED
    BY <2>1, <2>2
<1>7. new \in Set
  <2>1. new = [slots |-> new.slots, valid_count |-> new.valid_count,
               fifo_counter |-> new.fifo_counter]
    BY <1>1 DEF Filled, Set
  <2> QED
    BY <1>3, <1>4, <1>6, <2>1 DEF Set, n
<1>8. Valid(set) \subseteq 0 .. (n - 1)
  BY <1>1 DEF Valid
<1>9. \A j \in Valid(set) : set.slots[j].tag # tag
  BY DEF Hit
<1>10. DistinctIn(new)
  <2>1. \A i, j \in Valid(set) : set.slots[i].tag = set.slots[j].tag => i = j
    BY DEF SetInv, DistinctIn
  <2> HIDE DEF new
  <2> QED
    BY <1>5, <1>6, <1>8, <1>9, <2>1 DEF DistinctIn
<1>11. CleanIn(new)
  <2>1. \A i \in 0 .. (n - 1) : set.slots[i].dirty => ~config.write_through /\ i \in Valid(set)
    BY <1>1 DEF SetInv, CleanIn
  <2> HIDE DEF new
  <2> QED
    BY <1>5, <1>6, <2>1 DEF CleanIn
<1>12. ASSUME config.is_lru PROVE OrderedIn(new)
  <2>1. /\ \A j \in Valid(set) : order(j) \in Nat /\ order(j) < set.valid_count
        /\ \A j, k \in Valid(set) : order(j) = order(k) => j = k
    BY <1>1, <1>8, <1>12 DEF SetInv, OrderedIn, Slot
  <2>2. /\ new.slots[v].access_order = 0
        /\ \A j \in Valid(set) : j # v => new.slots[j].access_order = order(j) + 1
    <3>1. new.slots = [j \in 0 .. (n - 1) |->
            IF j = v THEN [tag |-> tag, dirty |-> dirty, access_order |-> 0]
            ELSE IF j < count /\ order(j) < n
            THEN [set.slots[j] EXCEPT !.access_order = @ + 1] ELSE set.slots[j]]
      BY <1>1, <1>2, <1>12 DEF Filled, update_lru, Set, v, n, count
    <3>2. \A j \in Valid(set) : j < count /\ order(j) < n
      BY <1>1, <1>3, <2>1 DEF Valid
    <3>3. \A j \in Valid(set) : set.slots[j] \in Slot
      BY <1>1, <1>8
    <3> HIDE DEF new
    <3> QED
      BY <1>2, <1>8, <3>1, <3>2, <3>3 DEF Slot
  <2>3. \A j \in Valid(set) : j # v => order(j) + 1 < count
    <3>1. CASE IsFull(set)
      <4>1. \A j \in Valid(set) : j # v => order(j) < order(v)
        BY <1>2, <1>12, <2>1, <3>1 DEF EvictedBefore
      <4>2. order(v) \in Nat /\ order(v) < set.valid_count /\ count = set.valid_count
        BY <1>2, <2>1, <3>1 DEF count, CountAfterFill
      <4> QED
        BY <1>1, <2>1, <4>1, <4>2
    <3>2. CASE ~IsFull(set)
      BY <1>1, <2>1, <3>2 DEF count, CountAfterFill
    <3> QED
      BY <3>1, <3>2
  <2>4. count \in Nat /\ count > 0
    BY <1>3, <1>2, <1>1
  <2> HIDE DEF new
  <2>5. \A i \in Valid(new) : new.slots[i].access_order < new.valid_count
    BY <1>4, <1>5, <2>2, <2>3, <2>4
  <2>6. \A i, j \in Valid(new) :
          new.slots[i].access_order = new.slots[j].access_order => i = j
    BY <1>5, <2>1, <2>2
  <2> QED
    BY <2>5, <2>6 DEF OrderedIn
<1> QED
  BY <1>7, <1>10, <1>11, <1>12 DEF SetInv

-----------------------------------------------------------------------------
LEMMA InitInv == Init => IInv
<1> SUFFICES ASSUME Init PROVE IInv
  OBVIOUS
<1>1. ConfigOK
  BY DEF Init, ConfigOK
<1>2. PICK garbage \in FifoCounters :
        sets = [s \in SetIndex(config) |-> NewSet(config.num_blocks, garbage)]
  BY DEF Init
<1> DEFINE new == NewSet(config.num_blocks, garbage)
<1>3. NewSlot \in Slot
  BY GeometryAssumption DEF NewSlot, Slot
<1>4. new \in Set
  BY <1>1, <1>3, ConfigBounds, CacheAssumption DEF NewSet, Set
<1>5. Valid(new) = {}
  BY DEF NewSet, Valid
<1>6. SetInv(new)
  BY <1>4, <1>5 DEF SetInv, DistinctIn, OrderedIn, CleanIn, NewSet, NewSlot
<1>7. TypeOK
  <2>1. 0 \in Counter
    BY GeometryAssumption DEF Counter
  <2> QED
    BY <1>1, <1>2, <1>4, <2>1 DEF Init, TypeOK, ConfigOK, CacheStats
<1>8. SumsOf(stats)
  BY CacheAssumption, GeometryAssumption DEF Init, SumsOf
<1> QED
  BY <1>2, <1>6, <1>7, <1>8 DEF IInv

(* A step that replaces one set by one that keeps the set's invariant.     *)
LEMMA OneSetChanges ==
  ASSUME IInv, NEW s \in SetIndex(config), NEW new, SetInv(new),
         sets' = [sets EXCEPT ![s] = new], stats' \in CacheStats, SumsOf(stats'),
         UNCHANGED <<config, crashed>>
  PROVE  IInv'
<1>1. new \in Set
  BY DEF SetInv
<1>2. /\ TypeOK /\ \A x \in SetIndex(config) : SetInv(sets[x])
      /\ sets \in [SetIndex(config) -> Set]
  BY DEF IInv, TypeOK
<1>3. \A x \in SetIndex(config) : sets'[x] = IF x = s THEN new ELSE sets[x]
  BY <1>2
<1>4. \A x \in SetIndex(config) : SetInv(sets'[x])
  BY <1>2, <1>3
<1>5. \A x : SetInv(x)' <=> SetInv(x)
  BY DEF SetInv, Set, DistinctIn, OrderedIn, CleanIn
<1>6. TypeOK'
  BY <1>1, <1>2 DEF TypeOK, Set
<1> QED
  BY <1>4, <1>6 DEF IInv, SumsOf, SetInv, Set, DistinctIn, OrderedIn, CleanIn

(* Counting a load or a store keeps the counters in 32 bits, and their     *)
(* sums right.                                                             *)
LEMMA CountingKeepsNumbers ==
  ASSUME NEW a \in CacheStats, SumsOf(a), a.total_loads + a.total_stores < MaxAccesses,
         NEW n \in Nat
  PROVE  /\ LET b == [a EXCEPT !.total_loads = @ + 1, !.load_hits = @ + 1, !.total_cycles = @ + n]
            IN  b \in CacheStats /\ SumsOf(b)
         /\ LET b == [a EXCEPT !.total_loads = @ + 1, !.load_misses = @ + 1, !.total_cycles = @ + n]
            IN  b \in CacheStats /\ SumsOf(b)
         /\ LET b == [a EXCEPT !.total_stores = @ + 1, !.store_hits = @ + 1, !.total_cycles = @ + n]
            IN  b \in CacheStats /\ SumsOf(b)
         /\ LET b == [a EXCEPT !.total_stores = @ + 1, !.store_misses = @ + 1, !.total_cycles = @ + n]
            IN  b \in CacheStats /\ SumsOf(b)
<1>1. /\ a.total_loads \in Nat /\ a.total_stores \in Nat
      /\ a.load_hits \in Nat /\ a.load_misses \in Nat
      /\ a.store_hits \in Nat /\ a.store_misses \in Nat
      /\ a.total_cycles + n \in Nat
  BY DEF CacheStats, Counter
<1>2. /\ SumsOf(a) /\ a.total_loads + a.total_stores < MaxAccesses
      /\ MaxAccesses \in Nat /\ MaxAccesses <= Word - 1 /\ Word \in Nat
  BY CacheAssumption, GeometryAssumption
<1>3. ASSUME NEW b, b = [a EXCEPT !.total_loads = @ + 1, !.load_hits = @ + 1, !.total_cycles = @ + n]
      PROVE  b \in CacheStats /\ SumsOf(b)
  <2>1. /\ b.total_loads = a.total_loads + 1 /\ b.load_hits = a.load_hits + 1
        /\ b.total_stores = a.total_stores /\ b.load_misses = a.load_misses
        /\ b.store_hits = a.store_hits /\ b.store_misses = a.store_misses
    BY <1>3 DEF CacheStats
  <2>2. a.total_loads + 1 \in Counter /\ a.load_hits + 1 \in Counter
    BY <1>1, <1>2 DEF SumsOf, Counter
  <2>3. b \in CacheStats
    BY <1>3, <1>1, <2>2 DEF CacheStats
  <2>4. SumsOf(b)
    BY <1>1, <1>2, <2>1 DEF SumsOf
  <2> QED
    BY <2>3, <2>4
<1>4. ASSUME NEW b, b = [a EXCEPT !.total_loads = @ + 1, !.load_misses = @ + 1, !.total_cycles = @ + n]
      PROVE  b \in CacheStats /\ SumsOf(b)
  <2>1. /\ b.total_loads = a.total_loads + 1 /\ b.load_misses = a.load_misses + 1
        /\ b.total_stores = a.total_stores /\ b.load_hits = a.load_hits
        /\ b.store_hits = a.store_hits /\ b.store_misses = a.store_misses
    BY <1>4 DEF CacheStats
  <2>2. a.total_loads + 1 \in Counter /\ a.load_misses + 1 \in Counter
    BY <1>1, <1>2 DEF SumsOf, Counter
  <2>3. b \in CacheStats
    BY <1>4, <1>1, <2>2 DEF CacheStats
  <2>4. SumsOf(b)
    BY <1>1, <1>2, <2>1 DEF SumsOf
  <2> QED
    BY <2>3, <2>4
<1>5. ASSUME NEW b, b = [a EXCEPT !.total_stores = @ + 1, !.store_hits = @ + 1, !.total_cycles = @ + n]
      PROVE  b \in CacheStats /\ SumsOf(b)
  <2>1. /\ b.total_stores = a.total_stores + 1 /\ b.store_hits = a.store_hits + 1
        /\ b.total_loads = a.total_loads /\ b.store_misses = a.store_misses
        /\ b.load_hits = a.load_hits /\ b.load_misses = a.load_misses
    BY <1>5 DEF CacheStats
  <2>2. a.total_stores + 1 \in Counter /\ a.store_hits + 1 \in Counter
    BY <1>1, <1>2 DEF SumsOf, Counter
  <2>3. b \in CacheStats
    BY <1>5, <1>1, <2>2 DEF CacheStats
  <2>4. SumsOf(b)
    BY <1>1, <1>2, <2>1 DEF SumsOf
  <2> QED
    BY <2>3, <2>4
<1>6. ASSUME NEW b, b = [a EXCEPT !.total_stores = @ + 1, !.store_misses = @ + 1, !.total_cycles = @ + n]
      PROVE  b \in CacheStats /\ SumsOf(b)
  <2>1. /\ b.total_stores = a.total_stores + 1 /\ b.store_misses = a.store_misses + 1
        /\ b.total_loads = a.total_loads /\ b.store_hits = a.store_hits
        /\ b.load_hits = a.load_hits /\ b.load_misses = a.load_misses
    BY <1>6 DEF CacheStats
  <2>2. a.total_stores + 1 \in Counter /\ a.store_misses + 1 \in Counter
    BY <1>1, <1>2 DEF SumsOf, Counter
  <2>3. b \in CacheStats
    BY <1>6, <1>1, <2>2 DEF CacheStats
  <2>4. SumsOf(b)
    BY <1>1, <1>2, <2>1 DEF SumsOf
  <2> QED
    BY <2>3, <2>4
<1> QED
  BY <1>3, <1>4, <1>5, <1>6

LEMMA StepInv == IInv /\ [Next]_vars => IInv'
<1> SUFFICES ASSUME IInv, [Next]_vars PROVE IInv'
  OBVIOUS
<1>1. /\ ConfigOK /\ stats \in CacheStats /\ SumsOf(stats)
      /\ \A s \in SetIndex(config) : SetInv(sets[s])
  BY DEF IInv, TypeOK, ConfigOK
<1>2. LoadTransfer \in Nat /\ SaveTransfer \in Nat
  <2>1. 100 * config.block_size \in Nat
    BY <1>1, ConfigBounds
  <2>2. (100 * config.block_size) % Word \in Nat
    BY <2>1, GeometryAssumption
  <2> QED
    BY <2>1, <2>2 DEF LoadTransfer, SaveTransfer
<1>3. ASSUME Ready, NEW address \in Addresses
      PROVE  /\ get_index(config, address) \in SetIndex(config)
             /\ get_tag(config, address) \in 0 .. (Word - 1)
  BY <1>1, <1>3, AddressParts DEF Ready
<1>4. ASSUME NEW set, NEW tag, SetInv(set), Hit(set, tag)
      PROVE  find_hit(set, tag) \in Valid(set)
  <2> DEFINE T == { i \in Valid(set) : set.slots[i].tag = tag }
  <2>1. T \in SUBSET Nat /\ T # {}
    BY <1>4 DEF Hit, Valid
  <2>2. \E m \in T : \A i \in T : m <= i
    BY <2>1, LeastNumber
  <2> QED
    BY <2>2 DEF find_hit
<1>5. ASSUME NEW address \in Addresses, LoadHit(address) PROVE IInv'
  <2> DEFINE s == get_index(config, address)
             i == find_hit(sets[s], get_tag(config, address))
  <2>1. s \in SetIndex(config) /\ i \in Valid(sets[s]) /\ SetInv(sets[s])
    BY <1>1, <1>3, <1>4, <1>5 DEF LoadHit
  <2>2. SetInv(Renewed(sets[s], i))
    BY <1>1, <2>1, RenewedKeepsInv
  <2>3. sets' = [sets EXCEPT ![s] = Renewed(sets[s], i)]
    BY <1>5, <2>1 DEF LoadHit, IInv, TypeOK
  <2>4. stats' \in CacheStats /\ SumsOf(stats') /\ UNCHANGED <<config, crashed>>
    BY <1>1, <1>5, CountingKeepsNumbers DEF LoadHit, Ready
  <2> QED
    BY <2>1, <2>2, <2>3, <2>4, OneSetChanges
<1>6. ASSUME NEW address \in Addresses, LoadMiss(address) PROVE IInv'
  <2> DEFINE s == get_index(config, address)
             tag == get_tag(config, address)
  <2>1. /\ s \in SetIndex(config) /\ tag \in 0 .. (Word - 1) /\ SetInv(sets[s])
        /\ ~Hit(sets[s], tag)
    BY <1>1, <1>3, <1>6 DEF LoadMiss
  <2>2. SetInv(Filled(sets[s], tag, FALSE))
    BY <1>1, <2>1, FilledKeepsInv
  <2>3. sets' = [sets EXCEPT ![s] = Filled(sets[s], tag, FALSE)]
    BY <1>6, <2>1 DEF LoadMiss, IInv, TypeOK
  <2>4. stats' \in CacheStats /\ SumsOf(stats') /\ UNCHANGED <<config, crashed>>
    <3>1. LoadMissCycles(sets[s]) \in Nat
      BY <1>2 DEF LoadMissCycles
    <3>2. stats' \in CacheStats /\ SumsOf(stats')
      BY <1>1, <1>6, <3>1, CountingKeepsNumbers DEF LoadMiss, Ready
    <3> QED
      BY <1>6, <3>2 DEF LoadMiss
  <2> QED
    BY <2>1, <2>2, <2>3, <2>4, OneSetChanges
<1>7. ASSUME NEW address \in Addresses, SaveHit(address) PROVE IInv'
  <2> DEFINE s == get_index(config, address)
             i == find_hit(sets[s], get_tag(config, address))
             written == Written(sets[s], i)
  <2>1. s \in SetIndex(config) /\ i \in Valid(sets[s]) /\ SetInv(sets[s])
    BY <1>1, <1>3, <1>4, <1>7 DEF SaveHit
  <2>2. SetInv(written)
    BY <1>1, <2>1, WrittenKeepsInv
  <2>3. Valid(written) = Valid(sets[s])
    BY <2>1 DEF Valid, SetInv, Set, Written
  <2>4. SetInv(Renewed(written, i))
    BY <1>1, <2>1, <2>2, <2>3, RenewedKeepsInv
  <2>5. sets' = [sets EXCEPT ![s] = Renewed(written, i)]
    BY <1>7, <2>1 DEF SaveHit, IInv, TypeOK
  <2>6. stats' \in CacheStats /\ SumsOf(stats') /\ UNCHANGED <<config, crashed>>
    <3>1. SaveHitCycles \in Nat
      BY DEF SaveHitCycles
    <3>2. stats' \in CacheStats /\ SumsOf(stats')
      BY <1>1, <1>7, <3>1, CountingKeepsNumbers DEF SaveHit, Ready
    <3> QED
      BY <1>7, <3>2 DEF SaveHit
  <2> QED
    BY <2>1, <2>4, <2>5, <2>6, OneSetChanges
<1>8. ASSUME NEW address \in Addresses, SaveMissAround(address) PROVE IInv'
  <2>1. stats' \in CacheStats /\ SumsOf(stats') /\ UNCHANGED <<config, sets, crashed>>
    BY <1>1, <1>8, CountingKeepsNumbers DEF SaveMissAround, Ready
  <2> QED
    BY <2>1 DEF IInv, TypeOK, SumsOf, SetInv, Set, DistinctIn, OrderedIn, CleanIn
<1>9. ASSUME NEW address \in Addresses, SaveMissAllocate(address) PROVE IInv'
  <2> DEFINE s == get_index(config, address)
             tag == get_tag(config, address)
             dirty == ~config.write_through
  <2>1. /\ s \in SetIndex(config) /\ tag \in 0 .. (Word - 1) /\ SetInv(sets[s])
        /\ ~Hit(sets[s], tag)
    BY <1>1, <1>3, <1>9 DEF SaveMissAllocate
  <2>2. SetInv(Filled(sets[s], tag, dirty))
    BY <1>1, <2>1, ConfigBounds, FilledKeepsInv
  <2>3. sets' = [sets EXCEPT ![s] = Filled(sets[s], tag, dirty)]
    BY <1>9, <2>1 DEF SaveMissAllocate, IInv, TypeOK
  <2>4. stats' \in CacheStats /\ SumsOf(stats') /\ UNCHANGED <<config, crashed>>
    <3>1. SaveMissCycles(sets[s]) \in Nat
      BY <1>2 DEF SaveMissCycles
    <3>2. stats' \in CacheStats /\ SumsOf(stats')
      BY <1>1, <1>9, <3>1, CountingKeepsNumbers DEF SaveMissAllocate, Ready
    <3> QED
      BY <1>9, <3>2 DEF SaveMissAllocate
  <2> QED
    BY <2>1, <2>2, <2>3, <2>4, OneSetChanges
<1>10. CASE DivideByZero
  <2>1. /\ stats' \in CacheStats /\ SumsOf(stats') /\ crashed' \in BOOLEAN
        /\ UNCHANGED <<config, sets>>
    BY <1>1, <1>10 DEF DivideByZero
  <2> QED
    BY <2>1 DEF IInv, TypeOK, SumsOf, SetInv, Set, DistinctIn, OrderedIn, CleanIn
<1>11. CASE UNCHANGED vars
  BY <1>11 DEF vars, IInv, TypeOK, SumsOf, SetInv, Set, DistinctIn, OrderedIn, CleanIn
<1> QED
  BY <1>5, <1>6, <1>7, <1>8, <1>9, <1>10, <1>11 DEF Next

(* Types, tags, orders and dirty bits of every set stay as they should be  *)
(* through every hit and every miss.                                       *)
THEOREM InductiveInvariant == Spec => []IInv
BY InitInv, StepInv, PTL DEF Spec

-----------------------------------------------------------------------------
(* Counters, tags, orders and counts stay in range: no uint32_t counter of *)
(* accesses wraps on a trace of fewer than 2^32, no access_order overflows *)
(* under LRU, valid_count never exceeds the number of slots.               *)
THEOREM TypeCorrect == Spec => []TypeOK
<1>1. IInv => TypeOK
  BY DEF IInv
<1> QED
  BY <1>1, InductiveInvariant, PTL

(* find_hit() never has two slots to choose from.                          *)
THEOREM TagsAreDistinct == Spec => []DistinctTags
<1>1. IInv => DistinctTags
  BY DEF IInv, SetInv, DistinctTags
<1> QED
  BY <1>1, InductiveInvariant, PTL

(* The LRU orders of every set stay a numbering from 0 without ties.       *)
THEOREM LruOrdersHold == Spec => []LruOrders
<1>1. IInv => LruOrders
  BY DEF IInv, SetInv, LruOrders
<1> QED
  BY <1>1, InductiveInvariant, PTL

(* Nothing is ever written back that memory has already.                   *)
THEOREM CleanBlocks == Spec => []CleanWhenSynced
<1>1. IInv => CleanWhenSynced
  BY DEF IInv, SetInv, CleanIn, CleanWhenSynced
<1> QED
  BY <1>1, InductiveInvariant, PTL

-----------------------------------------------------------------------------
(* Multiplication and division of natural numbers.                         *)
LEMMA ProductOrder ==
  ASSUME NEW a \in Nat, NEW x \in Nat, NEW y \in Nat
  PROVE  /\ a * x \in Nat
         /\ a * (x + y) = (a * x) + (a * y)
         /\ x <= y => a * x <= a * y
         /\ x < y => (a * x) + a <= a * y
<1>1. a * x \in Nat /\ a * y \in Nat /\ a * (x + y) = (a * x) + (a * y)
  OBVIOUS
<1>2. ASSUME x <= y PROVE a * x <= a * y
  <2>1. y - x \in Nat /\ y = x + (y - x)
    BY <1>2
  <2>2. a * (y - x) \in Nat /\ a * (x + (y - x)) = (a * x) + (a * (y - x))
    BY <2>1
  <2> QED
    BY <1>1, <2>1, <2>2
<1>3. ASSUME x < y PROVE (a * x) + a <= a * y
  <2>1. y - (x + 1) \in Nat /\ y = (x + 1) + (y - (x + 1))
    BY <1>3
  <2>2. a * (y - (x + 1)) \in Nat
        /\ a * ((x + 1) + (y - (x + 1))) = (a * (x + 1)) + (a * (y - (x + 1)))
        /\ a * (x + 1) = (a * x) + a
    BY <2>1
  <2> QED
    BY <1>1, <2>1, <2>2
<1> QED
  BY <1>1, <1>2, <1>3

LEMMA Division ==
  ASSUME NEW n \in Nat, NEW v \in Nat \ {0}
  PROVE  /\ n \div v \in Nat /\ n % v \in 0 .. (v - 1)
         /\ n = (v * (n \div v)) + (n % v)
  BY SMT

LEMMA DivisionUnique ==
  ASSUME NEW v \in Nat \ {0}, NEW q \in Nat, NEW r \in 0 .. (v - 1)
  PROVE  ((v * q) + r) \div v = q /\ ((v * q) + r) % v = r
<1> DEFINE n == (v * q) + r
           p == n \div v
           s == n % v
<1>1. n \in Nat /\ v * q \in Nat
  BY ProductOrder
<1>2. p \in Nat /\ s \in 0 .. (v - 1) /\ n = (v * p) + s
  BY <1>1, Division
<1> HIDE DEF p, s
<1>3. v * p \in Nat
  BY <1>2, ProductOrder
<1>4. ~(p < q)
  <2>1. p < q => (v * p) + v <= v * q
    BY <1>2, ProductOrder
  <2> QED
    BY <1>1, <1>2, <1>3, <2>1
<1>5. ~(q < p)
  <2>1. q < p => (v * q) + v <= v * p
    BY <1>2, ProductOrder
  <2> QED
    BY <1>1, <1>2, <1>3, <2>1
<1>6. p = q
  BY <1>2, <1>4, <1>5
<1>7. s = r
  BY <1>1, <1>2, <1>6
<1> QED
  BY <1>6, <1>7 DEF p, s

LEMMA MultipleHasNoRest ==
  ASSUME NEW v \in Nat \ {0}, NEW q \in Nat
  PROVE  (v * q) % v = 0
<1>1. ((v * q) + 0) % v = 0
  BY DivisionUnique
<1> QED
  BY <1>1, ProductOrder

(* Half of a power of two, other than 1, is one.                           *)
LEMMA Half ==
  ASSUME NEW n \in Nat, PowerOf2(n), n # 1
  PROVE  \E h \in Nat \ {0} : n = 2 * h /\ PowerOf2(h) /\ h < n
<1>1. n \in 2 .. n /\ n % n = 0
  BY DEF PowerOf2
<1>2. n % 2 = 0
  BY <1>1 DEF PowerOf2
<1> DEFINE h == n \div 2
<1>3. h \in Nat \ {0} /\ n = 2 * h /\ h < n
  BY <1>1, <1>2
<1>4. PowerOf2(h)
  <2> HIDE DEF h
  <2> SUFFICES ASSUME NEW d \in 2 .. h, h % d = 0
               PROVE  d % 2 = 0
    BY <1>3 DEF PowerOf2
  <2> DEFINE q == h \div d
  <2>1. d \in Nat \ {0} /\ q \in Nat /\ h = d * q
    <3>1. h \in Nat /\ d \in Nat \ {0}
      BY <1>3
    <3>2. h \div d \in Nat /\ h = (d * (h \div d)) + (h % d)
      BY <3>1, Division
    <3>3. d * (h \div d) \in Nat
      BY <3>1, <3>2, ProductOrder
    <3> QED
      BY <3>1, <3>2, <3>3
  <2> HIDE DEF q
  <2>2. n = d * (2 * q) /\ 2 * q \in Nat
    BY <1>3, <2>1
  <2>3. n % d = 0
    BY <2>1, <2>2, MultipleHasNoRest
  <2>4. d \in 2 .. n
    BY <1>3
  <2> QED
    BY <2>3, <2>4 DEF PowerOf2
<1> QED
  BY <1>3, <1>4

(* The product of two powers of two is a multiple of every power of two    *)
(* that does not exceed it: the least one that this is not so of would     *)
(* have a half that it is not so of either.                                *)
LEMMA PowersDivide ==
  ASSUME NEW w \in Nat, PowerOf2(w), NEW n \in Nat, PowerOf2(n), NEW m \in Nat, PowerOf2(m),
         w <= n * m
  PROVE  (n * m) % w = 0
<1> DEFINE Multiple(v, k, l) == \E c \in Nat : k * l = v * c
           Wrong(v) == PowerOf2(v) /\ \E k, l \in Nat :
                         PowerOf2(k) /\ PowerOf2(l) /\ v <= k * l /\ ~Multiple(v, k, l)
           T == { v \in Nat : Wrong(v) }
<1>1. T = {}
  <2> SUFFICES ASSUME T # {} PROVE FALSE
    OBVIOUS
  <2>1. PICK v \in T : \A u \in T : v <= u
    <3>1. T \in SUBSET Nat
      OBVIOUS
    <3> HIDE DEF T
    <3> QED
      BY <3>1, LeastNumber
  <2>2. v \in Nat /\ PowerOf2(v)
    BY <2>1
  <2>3. PICK k \in Nat, l \in Nat :
          PowerOf2(k) /\ PowerOf2(l) /\ v <= k * l /\ ~Multiple(v, k, l)
    BY <2>1
  <2>4. k * l \in Nat
    BY ProductOrder
  <2>5. v # 1
    <3>1. k * l = 1 * (k * l)
      BY <2>4
    <3> QED
      BY <2>3, <2>4, <3>1
  <2>6. PICK h \in Nat \ {0} : v = 2 * h /\ PowerOf2(h) /\ h < v
    BY <2>2, <2>5, Half
  <2>7. \A a, b \in Nat : PowerOf2(a) /\ PowerOf2(b) /\ h <= a * b => Multiple(h, a, b)
    <3>1. h \notin T
      <4> HIDE DEF Wrong
      <4>1. h \in Nat /\ ~(v <= h)
        BY <2>2, <2>6
      <4> HIDE DEF T
      <4> QED
        BY <2>1, <4>1
    <3>2. ~Wrong(h)
      <4> HIDE DEF Wrong
      <4> QED
        BY <2>6, <3>1
    <3> QED
      BY <2>6, <3>2
  <2>8. CASE k # 1
    <3>1. PICK g \in Nat \ {0} : k = 2 * g /\ PowerOf2(g)
      BY <2>3, <2>8, Half
    <3>2. g * l \in Nat /\ k * l = 2 * (g * l)
      BY <3>1
    <3>3. h <= g * l
      BY <2>3, <2>6, <3>2
    <3>4. PICK c \in Nat : g * l = h * c
      BY <2>3, <2>7, <3>1, <3>3
    <3>5. k * l = v * c
      BY <2>6, <3>2, <3>4
    <3> QED
      BY <2>3, <3>5
  <2>9. CASE k = 1 /\ l # 1
    <3>1. PICK g \in Nat \ {0} : l = 2 * g /\ PowerOf2(g)
      BY <2>3, <2>9, Half
    <3>2. k * g \in Nat /\ k * l = 2 * (k * g)
      BY <2>9, <3>1
    <3>3. h <= k * g
      BY <2>3, <2>6, <3>2
    <3>4. PICK c \in Nat : k * g = h * c
      BY <2>3, <2>7, <3>1, <3>3
    <3>5. k * l = v * c
      BY <2>6, <3>2, <3>4
    <3> QED
      BY <2>3, <3>5
  <2>10. CASE k = 1 /\ l = 1
    <3>1. k * l = 1
      BY <2>10
    <3> QED
      BY <2>2, <2>3, <2>5, <3>1 DEF PowerOf2
  <2> QED
    BY <2>8, <2>9, <2>10
<1>2. Multiple(w, n, m)
  <2>1. ~Wrong(w)
    <3> HIDE DEF Wrong
    <3> QED
      BY <1>1
  <2> QED
    BY <2>1
<1>3. PICK c \in Nat : n * m = w * c
  BY <1>2
<1>4. w \in Nat \ {0}
  BY DEF PowerOf2
<1> QED
  BY <1>3, <1>4, MultipleHasNoRest

(* The sets span less than the address space, or their span wraps to 0.    *)
LEMMA SpanIsProduct ==
  ASSUME ConfigOK
  PROVE  IF config.num_sets * config.block_size < Word
         THEN SetSpan(config) = config.num_sets * config.block_size /\ SetSpan(config) # 0
         ELSE SetSpan(config) = 0
<1> DEFINE n == config.num_sets
           b == config.block_size
<1>1. n \in Nat \ {0} /\ b \in Nat \ {0} /\ Word \in Nat /\ Word > 100
  BY ConfigBounds, GeometryAssumption
<1>2. PowerOf2(n) /\ PowerOf2(b) /\ PowerOf2(Word)
  BY GeometryAssumption DEF ConfigOK, Accepted, is_power_of_2
<1>3. SetSpan(config) = (n * b) % Word
  BY DEF SetSpan
<1> HIDE DEF n, b
<1>4. n * b \in Nat
  BY <1>1, ProductOrder
<1>5. n * b # 0
  <2>1. 0 < b => (n * 0) + n <= n * b
    BY <1>1, ProductOrder
  <2>2. n * 0 = 0
    BY <1>1
  <2> QED
    BY <1>1, <1>4, <2>1, <2>2
<1>6. CASE n * b < Word
  <2> DEFINE p == n * b
  <2>1. p \in Nat /\ p < Word
    BY <1>4, <1>6
  <2> HIDE DEF p
  <2>2. p % Word = p
    BY <1>1, <2>1
  <2> QED
    BY <1>3, <1>5, <1>6, <2>2 DEF n, b, p
<1>7. CASE ~(n * b < Word)
  <2>1. Word <= n * b
    BY <1>1, <1>4, <1>7
  <2>2. (n * b) % Word = 0
    BY <1>1, <1>2, <2>1, PowersDivide
  <2> QED
    BY <1>3, <1>7, <2>2 DEF n, b
<1> QED
  BY <1>6, <1>7 DEF n, b

(* Dividing by the span is dividing by the block size and then by the      *)
(* number of sets.                                                         *)
LEMMA TagOfBlock ==
  ASSUME NEW n \in Nat \ {0}, NEW b \in Nat \ {0}, NEW a \in Nat
  PROVE  a \div (n * b) = (a \div b) \div n
<1> DEFINE q == a \div b
           r == a % b
           t == q \div n
           i == q % n
<1>1. q \in Nat /\ r \in 0 .. (b - 1) /\ a = (b * q) + r
  BY Division
<1>2. t \in Nat /\ i \in 0 .. (n - 1) /\ q = (n * t) + i
  <2> HIDE DEF q
  <2> QED
    BY <1>1, Division
<1> HIDE DEF q, r, t, i
<1>3. i \in Nat /\ n * t \in Nat /\ b * q = (b * (n * t)) + (b * i)
  <2>1. i \in Nat /\ n * t \in Nat
    BY <1>2, ProductOrder
  <2> QED
    BY <1>2, <2>1, ProductOrder
<1>4. b * (n * t) = (n * b) * t
  BY <1>2
<1>5. b * i \in Nat /\ (b * i) + b <= b * n
  BY <1>2, <1>3, ProductOrder
<1>6. n * b = b * n /\ n * b \in Nat
  BY ProductOrder
<1> DEFINE v == n * b
           s == (b * i) + r
<1>7. s \in 0 .. (v - 1) /\ v \in Nat \ {0}
  BY <1>1, <1>5, <1>6
<1>8. a = (v * t) + s
  <2>1. (b * (n * t)) \in Nat
    BY <1>3, ProductOrder
  <2> QED
    BY <1>1, <1>3, <1>4, <1>5, <2>1
<1> HIDE DEF v, s
<1>9. a \div v = t
  BY <1>2, <1>7, <1>8, DivisionUnique
<1> QED
  BY <1>9 DEF v, t, q

(* Tag and set index together say which block of memory an address is in,  *)
(* for every accepted configuration; and the simulator dies of the         *)
(* division only when the sets span the address space or more.             *)
THEOREM SplitIsExactAlways == Spec => []SplitIsExact
<1>1. ASSUME ConfigOK, SetSpan(config) # 0, NEW x \in Addresses, NEW y \in Addresses
      PROVE  (/\ get_tag(config, x) = get_tag(config, y)
              /\ get_index(config, x) = get_index(config, y))
             <=> x \div config.block_size = y \div config.block_size
  <2> DEFINE n == config.num_sets
             b == config.block_size
  <2>1. n \in Nat \ {0} /\ b \in Nat \ {0} /\ SetSpan(config) = n * b
    BY <1>1, ConfigBounds, SpanIsProduct
  <2>2. x \in Nat /\ y \in Nat
    BY GeometryAssumption
  <2>3. /\ get_tag(config, x) = x \div (n * b) /\ get_tag(config, y) = y \div (n * b)
        /\ get_index(config, x) = (x \div b) % n /\ get_index(config, y) = (y \div b) % n
    BY <2>1 DEF get_tag, get_index
  <2> HIDE DEF n, b
  <2>4. x \div (n * b) = (x \div b) \div n /\ y \div (n * b) = (y \div b) \div n
    BY <2>1, <2>2, TagOfBlock
  <2> DEFINE p == x \div b
             q == y \div b
  <2>5. p \in Nat /\ q \in Nat
    BY <2>1, <2>2, Division
  <2> HIDE DEF p, q
  <2>6. p = (n * (p \div n)) + (p % n) /\ q = (n * (q \div n)) + (q % n)
    BY <2>1, <2>5, Division
  <2> QED
    BY <2>3, <2>4, <2>6 DEF p, q, b
<1> DEFINE Dead == crashed => SetSpan(config) = 0
<1>2. Init => Dead
  BY DEF Init
<1>3. Dead /\ [Next]_vars => Dead'
  BY DEF Next, LoadHit, LoadMiss, SaveHit, SaveMissAround, SaveMissAllocate, DivideByZero, vars, SetSpan
<1>4. IInv /\ Dead => SplitIsExact
  <2> SUFFICES ASSUME IInv, Dead PROVE SplitIsExact
    OBVIOUS
  <2>1. ConfigOK
    BY DEF IInv, TypeOK, ConfigOK
  <2>2. crashed => config.num_sets * config.block_size >= Word
    <3>1. config.num_sets * config.block_size \in Nat /\ Word \in Nat
      BY <2>1, ConfigBounds, ProductOrder, GeometryAssumption
    <3> QED
      BY <2>1, <3>1, SpanIsProduct
  <2> QED
    BY <1>1, <2>1, <2>2 DEF SplitIsExact
<1> HIDE DEF Dead
<1> QED
  BY <1>2, <1>3, <1>4, InductiveInvariant, PTL DEF Spec

-----------------------------------------------------------------------------
(* What the operations of a set do to the dirty flags of its slots.        *)
SlotIndex == 0 .. (config.num_blocks - 1)

LEMMA RenewedKeepsFlags ==
  ASSUME ConfigOK, NEW set \in Set, NEW i \in SlotIndex
  PROVE  \A j \in SlotIndex : Renewed(set, i).slots[j].dirty = set.slots[j].dirty
<1>1. set.slots \in [SlotIndex -> Slot] /\ DOMAIN set = {"slots", "valid_count", "fifo_counter"}
  BY DEF Set, SlotIndex
<1> DEFINE updated == update_lru(set.slots, set.valid_count, set.slots[i].access_order)
<1>2. /\ DOMAIN updated = SlotIndex
      /\ \A j \in SlotIndex : updated[j].dirty = set.slots[j].dirty
  BY <1>1 DEF update_lru, Slot
<1>3. i \in SlotIndex /\ DOMAIN updated[i] = {"tag", "dirty", "access_order"}
  BY <1>1 DEF update_lru, Slot
<1> HIDE DEF updated
<1>4. \A j \in SlotIndex : [updated EXCEPT ![i].access_order = 0][j].dirty = updated[j].dirty
  BY <1>2, <1>3
<1>5. config.is_lru => Renewed(set, i).slots = [updated EXCEPT ![i].access_order = 0]
  BY <1>1 DEF Renewed, updated
<1>6. ~config.is_lru => Renewed(set, i) = set
  BY DEF Renewed
<1> QED
  BY <1>2, <1>4, <1>5, <1>6

LEMMA FilledChangesOneFlag ==
  ASSUME ConfigOK, NEW set \in Set, NEW tag, NEW dirty \in BOOLEAN
  PROVE  LET v == find_victim_slot(set) IN
         /\ v \in SlotIndex
         /\ Filled(set, tag, dirty).slots[v].dirty = dirty
         /\ \A j \in SlotIndex \ {v} : Filled(set, tag, dirty).slots[j].dirty = set.slots[j].dirty
<1> DEFINE v == find_victim_slot(set)
<1>1. set.slots \in [SlotIndex -> Slot] /\ DOMAIN set = {"slots", "valid_count", "fifo_counter"}
  BY DEF Set, SlotIndex
<1>2. v \in SlotIndex
  BY VictimProperties DEF SlotIndex
<1> HIDE DEF v
<1> DEFINE updated == update_lru(set.slots, CountAfterFill(set), config.num_blocks)
           lru == [tag |-> tag, dirty |-> dirty, access_order |-> 0]
           fifo == [tag |-> tag, dirty |-> dirty, access_order |-> set.fifo_counter % Word]
<1>3. /\ DOMAIN updated = SlotIndex
      /\ \A j \in SlotIndex : updated[j].dirty = set.slots[j].dirty
  BY <1>1 DEF update_lru, Slot
<1>4. lru.dirty = dirty /\ fifo.dirty = dirty
  OBVIOUS
<1> HIDE DEF updated, lru, fifo
<1>5. /\ config.is_lru => Filled(set, tag, dirty).slots = [updated EXCEPT ![v] = lru]
      /\ ~config.is_lru => Filled(set, tag, dirty).slots = [set.slots EXCEPT ![v] = fifo]
  BY <1>1 DEF Filled, v, updated, lru, fifo
<1>6. \A j \in SlotIndex \ {v} :
         /\ [updated EXCEPT ![v] = lru][j] = updated[j]
         /\ [set.slots EXCEPT ![v] = fifo][j] = set.slots[j]
  BY <1>1, <1>3
<1>7. [updated EXCEPT ![v] = lru][v] = lru /\ [set.slots EXCEPT ![v] = fifo][v] = fifo
  BY <1>1, <1>2, <1>3
<1> QED
  BY <1>2, <1>3, <1>4, <1>5, <1>6, <1>7 DEF v

LEMMA WrittenChangesOneFlag ==
  ASSUME ConfigOK, NEW set \in Set, NEW i \in SlotIndex
  PROVE  /\ Written(set, i) \in Set
         /\ Written(set, i).slots[i].dirty = (set.slots[i].dirty \/ ~config.write_through)
         /\ \A j \in SlotIndex \ {i} : Written(set, i).slots[j].dirty = set.slots[j].dirty
<1> DEFINE d == set.slots[i].dirty \/ ~config.write_through
           slots == [set.slots EXCEPT ![i].dirty = d]
<1>1. set.slots \in [SlotIndex -> Slot] /\ DOMAIN set = {"slots", "valid_count", "fifo_counter"}
      /\ d \in BOOLEAN
  BY ConfigBounds DEF Set, SlotIndex, Slot
<1>2. Written(set, i) = [set EXCEPT !.slots = slots]
  BY DEF Written
<1> HIDE DEF d
<1>3. DOMAIN set.slots[i] = {"tag", "dirty", "access_order"}
  BY <1>1 DEF Slot
<1>4. slots \in [SlotIndex -> Slot]
  BY <1>1 DEF Slot
<1>5. slots[i].dirty = d /\ \A j \in SlotIndex \ {i} : slots[j] = set.slots[j]
  BY <1>1, <1>3
<1> HIDE DEF slots
<1>6. Written(set, i).slots = slots
  BY <1>1, <1>2
<1>7. Written(set, i) \in Set
  BY <1>1, <1>2, <1>4 DEF Set, SlotIndex
<1> QED
  BY <1>5, <1>6, <1>7 DEF d

(* The number of dirty blocks when one flag of one set changes.            *)
Count(flag) == IF flag THEN 1 ELSE 0

LEMMA PlacesFinite ==
  ASSUME ConfigOK
  PROVE  IsFiniteSet(SetIndex(config) \X SlotIndex)
<1>1. IsFiniteSet(SetIndex(config)) /\ IsFiniteSet(SlotIndex)
  <2>1. 0 \in Int /\ config.num_sets - 1 \in Int /\ config.num_blocks - 1 \in Int
    BY ConfigBounds
  <2> QED
    BY <2>1, FS_Interval DEF SetIndex, SlotIndex
<1> QED
  BY <1>1, FS_Product

LEMMA DirtyFinite ==
  ASSUME ConfigOK
  PROVE  IsFiniteSet(DirtyBlocks) /\ Cardinality(DirtyBlocks) \in Nat
<1>2. IsFiniteSet(SetIndex(config) \X SlotIndex)
  BY PlacesFinite
<1>3. DirtyBlocks \subseteq SetIndex(config) \X SlotIndex
  BY DEF DirtyBlocks, SlotIndex
<1>4. IsFiniteSet(DirtyBlocks)
  BY <1>2, <1>3, FS_Subset
<1> QED
  BY <1>4, FS_CardinalityType

LEMMA OneFlagChanges ==
  ASSUME IInv, config' = config, NEW s \in SetIndex(config), NEW new,
         sets' = [sets EXCEPT ![s] = new], NEW v \in SlotIndex,
         new.slots[v].dirty \in BOOLEAN,
         \A j \in SlotIndex \ {v} : new.slots[j].dirty = sets[s].slots[j].dirty
  PROVE  /\ Cardinality(DirtyBlocks) \in Nat
         /\ Cardinality(DirtyBlocks') =
              (Cardinality(DirtyBlocks) + Count(new.slots[v].dirty)) - Count(sets[s].slots[v].dirty)
<1> DEFINE x == <<s, v>>
           flag == new.slots[v].dirty
           old == sets[s].slots[v].dirty
<1>1. ConfigOK /\ sets \in [SetIndex(config) -> Set]
  BY DEF IInv, TypeOK, ConfigOK
<1>2. IsFiniteSet(DirtyBlocks) /\ Cardinality(DirtyBlocks) \in Nat
  BY <1>1, DirtyFinite
<1>3. DirtyBlocks = { y \in SetIndex(config) \X SlotIndex : sets[y[1]].slots[y[2]].dirty }
  BY DEF DirtyBlocks, SlotIndex
<1>4. DirtyBlocks' = { y \in SetIndex(config) \X SlotIndex : sets'[y[1]].slots[y[2]].dirty }
  BY DEF DirtyBlocks, SlotIndex
<1>5. \A y \in SetIndex(config) \X SlotIndex :
         y # x => sets'[y[1]].slots[y[2]].dirty = sets[y[1]].slots[y[2]].dirty
  <2> SUFFICES ASSUME NEW t \in SetIndex(config), NEW j \in SlotIndex, <<t, j>> # x
               PROVE  sets'[t].slots[j].dirty = sets[t].slots[j].dirty
    OBVIOUS
  <2>1. CASE t = s
    BY <1>1, <2>1
  <2>2. CASE t # s
    BY <1>1, <2>2
  <2> QED
    BY <2>1, <2>2
<1>6. sets'[s].slots[v].dirty = flag
  BY <1>1
<1>7. x \in DirtyBlocks <=> old
  BY <1>3
<1>8. x \in SetIndex(config) \X SlotIndex /\ (x \in DirtyBlocks' <=> flag)
  BY <1>4, <1>6
<1>9. \A y \in SetIndex(config) \X SlotIndex :
         y # x => (y \in DirtyBlocks' <=> y \in DirtyBlocks)
  BY <1>3, <1>4, <1>5
<1>10. DirtyBlocks \subseteq SetIndex(config) \X SlotIndex
       /\ DirtyBlocks' \subseteq SetIndex(config) \X SlotIndex
  BY <1>3, <1>4
<1>11. CASE flag
  <2>1. DirtyBlocks' = DirtyBlocks \cup {x}
    BY <1>11, <1>8, <1>9, <1>10
  <2>2. Cardinality(DirtyBlocks \cup {x}) =
          IF x \in DirtyBlocks THEN Cardinality(DirtyBlocks) ELSE Cardinality(DirtyBlocks) + 1
    BY <1>2, FS_AddElement
  <2> QED
    BY <1>2, <1>7, <1>11, <2>1, <2>2 DEF Count
<1>12. CASE ~flag
  <2>1. DirtyBlocks' = DirtyBlocks \ {x}
    BY <1>12, <1>8, <1>9, <1>10
  <2>2. Cardinality(DirtyBlocks \ {x}) =
          IF x \in DirtyBlocks THEN Cardinality(DirtyBlocks) - 1 ELSE Cardinality(DirtyBlocks)
    BY <1>2, FS_RemoveElement
  <2> QED
    BY <1>2, <1>7, <1>12, <2>1, <2>2 DEF Count
<1> QED
  BY <1>11, <1>12

-----------------------------------------------------------------------------
(* The account of the cycles: what is left of them once every access has   *)
(* paid its cycle and every block that was filled its transfer.            *)
Loaded == 25 * config.block_size
Stored == ((100 * config.block_size) % Word) \div 4
StoreFills == IF config.write_allocate THEN stats.store_misses ELSE 0
Cached == stats.total_loads + IF config.write_allocate THEN stats.total_stores ELSE 0
Rest == stats.total_cycles - Cached - (Loaded * stats.load_misses) - (Stored * StoreFills)

(* Load and save charge what the account says, for blocks of any size.     *)
LEMMA TransferTimes ==
  ASSUME ConfigOK
  PROVE  /\ LoadTransfer = Loaded /\ SaveTransfer = Stored
         /\ Loaded \in Nat /\ Stored \in Nat
<1> DEFINE b == config.block_size
           m == 100 * b
<1>1. b \in Nat /\ Word \in Nat \ {0}
  BY ConfigBounds, GeometryAssumption
<1> HIDE DEF b
<1>2. (100 * b) \div 4 = 25 * b /\ m \in Nat /\ 25 * b \in Nat
  BY <1>1
<1> HIDE DEF m
<1>3. m % Word \in Nat
  BY <1>1, <1>2, Division
<1>4. (m % Word) \div 4 \in Nat
  BY <1>3
<1> QED
  BY <1>2, <1>4 DEF LoadTransfer, SaveTransfer, Loaded, Stored, b, m

LEMMA AccountTypes ==
  ASSUME ConfigOK, stats \in CacheStats
  PROVE  /\ stats.total_loads \in Nat /\ stats.total_stores \in Nat
         /\ stats.load_misses \in Nat /\ stats.store_misses \in Nat /\ stats.total_cycles \in Nat
         /\ Loaded \in Nat /\ Stored \in Nat /\ StoreFills \in Nat /\ Cached \in Nat
         /\ Rest \in Int
<1>1. /\ stats.total_loads \in Nat /\ stats.total_stores \in Nat
      /\ stats.load_misses \in Nat /\ stats.store_misses \in Nat /\ stats.total_cycles \in Nat
  BY DEF CacheStats, Counter
<1>2. StoreFills \in Nat /\ Cached \in Nat /\ Loaded \in Nat /\ Stored \in Nat
  BY <1>1, TransferTimes DEF StoreFills, Cached
<1>3. Loaded * stats.load_misses \in Nat /\ Stored * StoreFills \in Nat
  BY <1>1, <1>2, ProductOrder
<1> QED
  BY <1>1, <1>2, <1>3 DEF Rest

(* What a step must do to keep the account: in a write-through cache every *)
(* store pays 100 more; in a write-back cache a transfer is paid, at the   *)
(* price of the access that missed, for what is no longer dirty.           *)
Balanced ==
  /\ config.write_through => Rest' = Rest + 100 * (stats'.total_stores - stats.total_stores)
  /\ ~config.write_through =>
       \E l, w \in {0, 1} :
         /\ Rest' = Rest + (IF l = 1 THEN Loaded ELSE 0) + (IF w = 1 THEN Stored ELSE 0)
         /\ stats.load_misses + l <= stats'.load_misses
         /\ stats.store_misses + w <= stats'.store_misses
         /\ (stats.total_stores - Cardinality(DirtyBlocks)) + l + w
              <= stats'.total_stores - Cardinality(DirtyBlocks')

LEMMA BalancedStep ==
  ASSUME IInv, IInv', config' = config, CyclesAccount, Balanced
  PROVE  CyclesAccount'
<1> DEFINE L == Loaded
           U == Stored
           stores == stats.total_stores
           loads == stats.load_misses
           saves == stats.store_misses
           D == Cardinality(DirtyBlocks)
<1>1. ConfigOK /\ stats \in CacheStats /\ ConfigOK' /\ stats' \in CacheStats
  BY DEF IInv, TypeOK, ConfigOK
<1>2. /\ stores \in Nat /\ loads \in Nat /\ saves \in Nat
      /\ L \in Nat /\ U \in Nat /\ Rest \in Int /\ D \in Nat
  BY <1>1, AccountTypes, DirtyFinite
<1>3. /\ stores' \in Nat /\ loads' \in Nat /\ saves' \in Nat
      /\ Rest' \in Int /\ D' \in Nat /\ L' = L /\ U' = U
  <2>1. D' \in Nat
    <3>1. DirtyBlocks' \subseteq SetIndex(config) \X SlotIndex
      BY DEF DirtyBlocks, SlotIndex
    <3>2. IsFiniteSet(DirtyBlocks')
      BY <1>1, <3>1, PlacesFinite, FS_Subset
    <3> QED
      BY <3>2, FS_CardinalityType
  <2>2. stores' \in Nat /\ loads' \in Nat /\ saves' \in Nat
    BY <1>1 DEF CacheStats, Counter
  <2>3. L' = L /\ U' = U
    BY DEF Loaded, Stored
  <2>4. Rest' \in Int
    BY <1>2, <2>2 DEF Balanced
  <2> QED
    BY <2>1, <2>2, <2>3, <2>4
<1>4. IF config.write_through THEN Rest = 100 * stores
      ELSE \E j \in 0 .. loads, k \in 0 .. saves :
             j + k <= stores - D /\ Rest = (L * j) + (U * k)
  BY DEF CyclesAccount, Rest, StoreFills, Cached, Loaded, Stored
<1>5. CASE config.write_through
  <2>1. Rest' = 100 * stores'
    BY <1>2, <1>3, <1>4, <1>5 DEF Balanced
  <2> QED
    BY <1>5, <2>1 DEF CyclesAccount, Rest, StoreFills, Cached, Loaded, Stored
<1>6. CASE ~config.write_through
  <2>1. PICK j \in 0 .. loads, k \in 0 .. saves : j + k <= stores - D /\ Rest = (L * j) + (U * k)
    BY <1>4, <1>6
  <2>2. PICK l \in {0, 1}, w \in {0, 1} :
          /\ Rest' = Rest + (IF l = 1 THEN L ELSE 0) + (IF w = 1 THEN U ELSE 0)
          /\ loads + l <= loads' /\ saves + w <= saves'
          /\ (stores - D) + l + w <= stores' - D'
    BY <1>6 DEF Balanced
  <2> HIDE DEF L, U, D, stores, loads, saves
  <2>3. /\ j + l \in 0 .. loads' /\ k + w \in 0 .. saves'
        /\ (j + l) + (k + w) <= stores' - D'
    <3>1. l \in Nat /\ w \in Nat /\ j \in Nat /\ k \in Nat
      BY <1>2, <2>1, <2>2
    <3>2. j <= loads /\ k <= saves /\ j + k <= stores - D
      BY <1>2, <2>1
    <3>3. loads + l <= loads' /\ saves + w <= saves' /\ (stores - D) + l + w <= stores' - D'
      BY <2>2
    <3>4. \A a, b \in Nat : (j <= a /\ a + l <= b) => j + l \in 0 .. b
      BY <3>1
    <3>5. \A a, b \in Nat : (k <= a /\ a + w <= b) => k + w \in 0 .. b
      BY <3>1
    <3>6. \A a, b \in Int : (j + k <= a /\ a + l + w <= b) => (j + l) + (k + w) <= b
      BY <3>1
    <3>7. stores - D \in Int /\ stores' - D' \in Int
      BY <1>2, <1>3
    <3>8. j + l \in 0 .. loads'
      BY <1>2, <1>3, <3>2, <3>3, <3>4
    <3>9. k + w \in 0 .. saves'
      BY <1>2, <1>3, <3>2, <3>3, <3>5
    <3>10. (j + l) + (k + w) <= stores' - D'
      BY <3>2, <3>3, <3>6, <3>7
    <3> QED
      BY <3>8, <3>9, <3>10
  <2>4. Rest' = (L * (j + l)) + (U * (k + w))
    <3>1. /\ j \in Nat /\ k \in Nat
          /\ L * j \in Nat /\ L * (j + 1) = (L * j) + L
          /\ U * k \in Nat /\ U * (k + 1) = (U * k) + U
      BY <1>2, <2>1
    <3>2. j + 0 = j /\ k + 0 = k
      BY <3>1
    <3>3. L * (j + l) = (L * j) + IF l = 1 THEN L ELSE 0
      BY <1>2, <2>2, <3>1, <3>2
    <3>4. U * (k + w) = (U * k) + IF w = 1 THEN U ELSE 0
      BY <1>2, <2>2, <3>1, <3>2
    <3> QED
      BY <1>2, <2>1, <2>2, <3>1, <3>3, <3>4
  <2>5. \E byLoads \in 0 .. loads', byStores \in 0 .. saves' :
          byLoads + byStores <= stores' - D' /\ Rest' = (L' * byLoads) + (U' * byStores)
    BY <1>3, <2>3, <2>4
  <2> QED
    BY <1>6, <2>5 DEF CyclesAccount, Rest, StoreFills, Cached, Loaded, Stored, L, U, D, stores, loads, saves
<1> QED
  BY <1>5, <1>6

LEMMA ProductGrows ==
  ASSUME NEW T \in Nat, NEW n \in Nat, NEW f \in {0, 1}
  PROVE  /\ T * n \in Nat
         /\ T * (n + f) = (T * n) + IF f = 1 THEN T ELSE 0
<1>1. T * n \in Nat /\ T * (n + 0) = T * n /\ T * (n + 1) = (T * n) + T
  <2>1. T * 1 = T /\ n + 0 = n
    OBVIOUS
  <2> QED
    BY <2>1, ProductOrder
<1>2. CASE f = 0
  BY <1>1, <1>2
<1>3. CASE f = 1
  BY <1>1, <1>3
<1> QED
  BY <1>1, <1>2, <1>3

LEMMA RestOfAccess ==
  ASSUME NEW T \in Nat, NEW U \in Nat, NEW m \in Nat, NEW n \in Nat,
         NEW cached \in Nat, NEW cycles \in Nat,
         NEW f \in {0, 1}, NEW g \in {0, 1}, NEW c \in {0, 1}, NEW r \in Nat
  PROVE  (cycles + (r + c + (IF f = 1 THEN T ELSE 0) + (IF g = 1 THEN U ELSE 0)))
             - (cached + c) - (T * (m + f)) - (U * (n + g))
           = (cycles - cached - (T * m) - (U * n)) + r
<1> DEFINE x == T * m
           y == U * n
           a == IF f = 1 THEN T ELSE 0
           b == IF g = 1 THEN U ELSE 0
<1>1. T * (m + f) = x + a /\ U * (n + g) = y + b /\ x \in Nat /\ y \in Nat
  BY ProductGrows
<1>2. a \in Nat /\ b \in Nat /\ c \in Nat
  OBVIOUS
<1> HIDE DEF x, y, a, b
<1>3. (cycles + (r + c + a + b)) - (cached + c) - (x + a) - (y + b) = (cycles - cached - x - y) + r
  BY <1>1, <1>2
<1> QED
  BY <1>1, <1>3 DEF x, y, a, b

(* The memory accesses that a miss, a hit or a store charges are balanced. *)
LEMMA StepBalanced ==
  ASSUME IInv, Next
  PROVE  Balanced
<1> DEFINE L == Loaded
           U == Stored
           D == Cardinality(DirtyBlocks)
<1>1. ConfigOK /\ stats \in CacheStats /\ sets \in [SetIndex(config) -> Set]
      /\ \A s \in SetIndex(config) : SetInv(sets[s])
  BY DEF IInv, TypeOK, ConfigOK
<1>2. /\ stats.total_loads \in Nat /\ stats.total_stores \in Nat
      /\ stats.load_misses \in Nat /\ stats.store_misses \in Nat /\ stats.total_cycles \in Nat
      /\ L \in Nat /\ U \in Nat /\ StoreFills \in Nat /\ Cached \in Nat /\ Rest \in Int
      /\ D \in Nat
  BY <1>1, AccountTypes, DirtyFinite
<1>3. LoadTransfer = L /\ SaveTransfer = U
  BY <1>1, TransferTimes
<1>4. config' = config =>
        /\ StoreFills' = IF config.write_allocate THEN stats'.store_misses ELSE 0
        /\ Cached' = stats'.total_loads + (IF config.write_allocate THEN stats'.total_stores ELSE 0)
  BY DEF StoreFills, Cached
<1>5. config.write_through \in BOOLEAN /\ config.write_allocate \in BOOLEAN
      /\ (config.write_through \/ config.write_allocate)
  BY <1>1, ConfigBounds DEF ConfigOK, Accepted
<1>6. Rest = stats.total_cycles - Cached - (L * stats.load_misses) - (U * StoreFills)
  BY DEF Rest
<1>7. ASSUME Ready, NEW address \in Addresses
      PROVE  get_index(config, address) \in SetIndex(config)
  BY <1>1, <1>7, AddressParts DEF Ready
<1>8. ASSUME NEW s \in SetIndex(config), NEW tag, Hit(sets[s], tag)
      PROVE  find_hit(sets[s], tag) \in SlotIndex
  <2> DEFINE M == { i \in Valid(sets[s]) : sets[s].slots[i].tag = tag }
  <2>1. M \in SUBSET Nat /\ M # {}
    BY <1>8 DEF Hit, Valid
  <2>2. \E m \in M : \A i \in M : m <= i
    BY <2>1, LeastNumber
  <2>3. find_hit(sets[s], tag) \in Valid(sets[s])
    BY <2>2 DEF find_hit
  <2>4. sets[s] \in Set
    BY <1>1
  <2> QED
    BY <1>1, <2>3, <2>4, ConfigBounds DEF Valid, Set, SlotIndex
(* A block that is replaced is charged for exactly if it is dirty.         *)
<1>9. ASSUME NEW s \in SetIndex(config)
      PROVE  LET v == find_victim_slot(sets[s]) IN
             /\ v \in SlotIndex /\ sets[s].slots[v].dirty \in BOOLEAN
             /\ Writeback(sets[s]) = sets[s].slots[v].dirty
             /\ sets[s].slots[v].dirty => ~config.write_through
  <2> DEFINE v == find_victim_slot(sets[s])
  <2>1. sets[s] \in Set /\ CleanIn(sets[s])
    BY <1>1 DEF SetInv
  <2>2. v \in SlotIndex
    BY <1>1, <2>1, VictimProperties DEF SlotIndex
  <2> HIDE DEF v
  <2>3. sets[s].slots \in [SlotIndex -> Slot]
    BY <2>1 DEF Set, SlotIndex
  <2>4. sets[s].slots[v].dirty \in BOOLEAN
    BY <2>2, <2>3 DEF Slot
  <2>5. sets[s].slots[v].dirty => ~config.write_through
    BY <2>1, <2>2, <2>3 DEF CleanIn
  <2>6. Writeback(sets[s]) = (sets[s].slots[v].dirty /\ ~config.write_through)
    BY DEF Writeback, v
  <2>7. Writeback(sets[s]) = sets[s].slots[v].dirty
    BY <1>5, <2>4, <2>5, <2>6
  <2> QED
    BY <2>2, <2>4, <2>5, <2>7 DEF v
<1>10. ASSUME config' = config, NEW f \in {0, 1}, NEW g \in {0, 1}, NEW c \in {0, 1}, NEW r \in Nat,
              stats'.load_misses = stats.load_misses + f, StoreFills' = StoreFills + g,
              Cached' = Cached + c,
              stats'.total_cycles = stats.total_cycles
                + (r + c + (IF f = 1 THEN L ELSE 0) + (IF g = 1 THEN U ELSE 0))
       PROVE  Rest' = Rest + r
  <2> DEFINE m == stats.load_misses
             n == StoreFills
             cycles == stats.total_cycles
  <2>1. Rest' = stats'.total_cycles - Cached' - (L * (m + f)) - (U * (n + g))
    BY <1>10 DEF Rest, Loaded, Stored
  <2>2. Rest' = (cycles + (r + c + (IF f = 1 THEN L ELSE 0) + (IF g = 1 THEN U ELSE 0)))
                  - (Cached + c) - (L * (m + f)) - (U * (n + g))
    BY <1>10, <2>1
  <2>3. m \in Nat /\ n \in Nat /\ cycles \in Nat /\ L \in Nat /\ U \in Nat /\ Cached \in Nat
    BY <1>2
  <2>4. Rest = cycles - Cached - (L * m) - (U * n)
    BY <1>6
  <2> HIDE DEF L, U, m, n, cycles
  <2>5. Rest' = (cycles - Cached - (L * m) - (U * n)) + r
    BY <2>2, <2>3, RestOfAccess
  <2> QED
    BY <2>4, <2>5
<1>11. ASSUME NEW address \in Addresses, LoadHit(address) PROVE Balanced
  <2> DEFINE s == get_index(config, address)
             i == find_hit(sets[s], get_tag(config, address))
             new == Renewed(sets[s], i)
  <2>1. s \in SetIndex(config) /\ i \in SlotIndex /\ config' = config
        /\ sets' = [sets EXCEPT ![s] = new]
    BY <1>1, <1>7, <1>8, <1>11 DEF LoadHit
  <2>2. sets[s] \in Set /\ sets[s].slots[i].dirty \in BOOLEAN
    BY <1>1, <2>1 DEF Set, Slot, SlotIndex
  <2>3. \A j \in SlotIndex : new.slots[j].dirty = sets[s].slots[j].dirty
    <3> HIDE DEF s, i
    <3> QED
      BY <1>1, <2>1, <2>2, RenewedKeepsFlags
  <2> HIDE DEF new, s, i
  <2>4. D' = D
    <3>1. /\ new.slots[i].dirty = sets[s].slots[i].dirty
          /\ \A j \in SlotIndex \ {i} : new.slots[j].dirty = sets[s].slots[j].dirty
      BY <2>1, <2>3
    <3>2. new.slots[i].dirty \in BOOLEAN
      BY <2>2, <3>1
    <3>3. D' = (D + Count(new.slots[i].dirty)) - Count(sets[s].slots[i].dirty)
      BY <2>1, <3>1, <3>2, OneFlagChanges
    <3>4. Count(new.slots[i].dirty) = Count(sets[s].slots[i].dirty)
          /\ Count(sets[s].slots[i].dirty) \in Nat
      BY <3>1 DEF Count
    <3> QED
      BY <1>2, <3>3, <3>4
  <2>5. stats' = [stats EXCEPT !.total_loads = @ + 1, !.load_hits = @ + 1, !.total_cycles = @ + 1]
    BY <1>11 DEF LoadHit
  <2>6. /\ stats'.total_loads = stats.total_loads + 1 /\ stats'.total_stores = stats.total_stores
        /\ stats'.load_misses = stats.load_misses /\ stats'.store_misses = stats.store_misses
        /\ stats'.total_cycles = stats.total_cycles + 1
    BY <1>1, <2>5 DEF CacheStats
  <2>7. StoreFills' = StoreFills /\ Cached' = Cached + 1
    BY <1>2, <1>4, <2>1, <2>6 DEF StoreFills, Cached
  <2>8. Rest' = Rest
    <3>1. /\ StoreFills' = StoreFills + 0 /\ stats'.load_misses = stats.load_misses + 0
          /\ stats'.total_cycles = stats.total_cycles + (0 + 1 + (IF 0 = 1 THEN L ELSE 0) + (IF 0 = 1 THEN U ELSE 0))
      BY <1>2, <2>6, <2>7
    <3>2. Rest' = Rest + 0
      BY <1>10, <2>1, <2>7, <3>1
    <3> QED
      BY <1>2, <3>2
  <2>9. stats'.total_stores - D' = stats.total_stores - D
    BY <2>4, <2>6
  <2> QED
    BY <1>2, <2>6, <2>8, <2>9 DEF Balanced
<1>12. ASSUME NEW address \in Addresses, LoadMiss(address) PROVE Balanced
  <2> DEFINE s == get_index(config, address)
             tag == get_tag(config, address)
             v == find_victim_slot(sets[s])
             old == sets[s].slots[v].dirty
             new == Filled(sets[s], tag, FALSE)
  <2>1. s \in SetIndex(config) /\ config' = config /\ sets' = [sets EXCEPT ![s] = new]
    BY <1>1, <1>7, <1>12 DEF LoadMiss
  <2>2. stats' = [stats EXCEPT !.total_loads = @ + 1, !.load_misses = @ + 1,
                                !.total_cycles = @ + LoadMissCycles(sets[s])]
    BY <1>12 DEF LoadMiss
  <2>3. v \in SlotIndex /\ old \in BOOLEAN /\ Writeback(sets[s]) = old /\ (old => ~config.write_through)
    <3> HIDE DEF s
    <3> QED
      BY <1>9, <2>1
  <2>4. /\ new.slots[v].dirty = FALSE
        /\ \A j \in SlotIndex \ {v} : new.slots[j].dirty = sets[s].slots[j].dirty
    <3> HIDE DEF s, tag
    <3>1. sets[s] \in Set
      BY <1>1, <2>1
    <3> QED
      BY <1>1, <3>1, FilledChangesOneFlag
  <2> HIDE DEF s, tag, v, new
  <2>5. D' = D - Count(old)
    <3>1. D' = (D + Count(new.slots[v].dirty)) - Count(old)
      BY <2>1, <2>3, <2>4, OneFlagChanges
    <3>2. Count(new.slots[v].dirty) = 0
      BY <2>4 DEF Count
    <3> QED
      BY <1>2, <3>1, <3>2
  <2> HIDE DEF old
  <2>6. LoadMissCycles(sets[s]) = (IF old THEN L ELSE 0) + 1 + L
    BY <1>3, <2>3 DEF LoadMissCycles
  <2>7. /\ stats'.total_loads = stats.total_loads + 1 /\ stats'.total_stores = stats.total_stores
        /\ stats'.load_misses = stats.load_misses + 1 /\ stats'.store_misses = stats.store_misses
        /\ stats'.total_cycles = stats.total_cycles + LoadMissCycles(sets[s])
    BY <1>1, <2>2 DEF CacheStats
  <2>8. StoreFills' = StoreFills /\ Cached' = Cached + 1
    BY <1>2, <1>4, <2>1, <2>7 DEF StoreFills, Cached
  <2>9. Rest' = Rest + (IF old THEN L ELSE 0)
    <3> DEFINE r == IF old THEN L ELSE 0
    <3>1. r \in Nat
      BY <1>2
    <3>2. /\ StoreFills' = StoreFills + 0
          /\ stats'.total_cycles = stats.total_cycles + (r + 1 + (IF 1 = 1 THEN L ELSE 0) + (IF 0 = 1 THEN U ELSE 0))
      BY <1>2, <2>6, <2>7, <2>8, <3>1
    <3> HIDE DEF r
    <3>3. Rest' = Rest + r
      BY <1>10, <2>1, <2>7, <2>8, <3>1, <3>2
    <3> QED
      BY <3>3 DEF r
  <2>10. CASE old
    <3>1. ~config.write_through /\ Rest' = Rest + L /\ D' = D - 1
      BY <2>3, <2>5, <2>9, <2>10 DEF Count
    <3>2. (stats.total_stores - D) + 1 + 0 <= stats'.total_stores - D'
      BY <1>2, <2>7, <3>1
    <3>3. Rest' = Rest + (IF 1 = 1 THEN L ELSE 0) + (IF 0 = 1 THEN U ELSE 0)
      BY <1>2, <3>1
    <3> QED
      BY <1>2, <2>7, <3>1, <3>2, <3>3 DEF Balanced
  <2>11. CASE ~old
    <3>1. Rest' = Rest /\ D' = D
      BY <1>2, <2>5, <2>9, <2>11 DEF Count
    <3>2. (stats.total_stores - D) + 0 + 0 <= stats'.total_stores - D'
      BY <1>2, <2>7, <3>1
    <3>3. Rest' = Rest + (IF 0 = 1 THEN L ELSE 0) + (IF 0 = 1 THEN U ELSE 0)
      BY <1>2, <3>1
    <3> QED
      BY <1>2, <2>7, <3>1, <3>2, <3>3 DEF Balanced
  <2> QED
    BY <2>10, <2>11
<1>13. ASSUME NEW address \in Addresses, SaveHit(address) PROVE Balanced
  <2> DEFINE s == get_index(config, address)
             i == find_hit(sets[s], get_tag(config, address))
             written == Written(sets[s], i)
             new == Renewed(written, i)
             old == sets[s].slots[i].dirty
             flag == old \/ ~config.write_through
  <2>1. s \in SetIndex(config) /\ i \in SlotIndex /\ config' = config
        /\ sets' = [sets EXCEPT ![s] = new]
    BY <1>1, <1>7, <1>8, <1>13 DEF SaveHit
  <2>2. sets[s] \in Set /\ old \in BOOLEAN
    BY <1>1, <2>1 DEF Set, Slot, SlotIndex
  <2>3. flag \in BOOLEAN
    BY <1>5, <2>2
  <2>4. /\ written \in Set /\ written.slots[i].dirty = flag
        /\ \A j \in SlotIndex \ {i} : written.slots[j].dirty = sets[s].slots[j].dirty
    <3> HIDE DEF s, i
    <3> QED
      BY <1>1, <2>1, <2>2, WrittenChangesOneFlag
  <2>5. \A j \in SlotIndex : new.slots[j].dirty = written.slots[j].dirty
    <3> HIDE DEF s, i, written
    <3> QED
      BY <1>1, <2>1, <2>4, RenewedKeepsFlags
  <2> HIDE DEF new, s, i, written
  <2>6. D' = (D + Count(flag)) - Count(old)
    <3>1. /\ new.slots[i].dirty = flag
          /\ \A j \in SlotIndex \ {i} : new.slots[j].dirty = sets[s].slots[j].dirty
      BY <2>1, <2>4, <2>5
    <3> HIDE DEF flag
    <3>2. new.slots[i].dirty \in BOOLEAN
      BY <2>3, <3>1
    <3> QED
      BY <2>1, <3>1, <3>2, OneFlagChanges
  <2>7. stats' = [stats EXCEPT !.total_stores = @ + 1, !.store_hits = @ + 1,
                                !.total_cycles = @ + SaveHitCycles]
    BY <1>13 DEF SaveHit
  <2>8. /\ stats'.total_loads = stats.total_loads /\ stats'.total_stores = stats.total_stores + 1
        /\ stats'.load_misses = stats.load_misses /\ stats'.store_misses = stats.store_misses
        /\ stats'.total_cycles = stats.total_cycles + SaveHitCycles
    BY <1>1, <2>7 DEF CacheStats
  <2>9. StoreFills' = StoreFills /\ Cached' = Cached + (IF config.write_allocate THEN 1 ELSE 0)
    BY <1>2, <1>4, <2>1, <2>8 DEF StoreFills, Cached
  <2>10. CASE config.write_through
    <3>1. SaveHitCycles = 100 + (IF config.write_allocate THEN 1 ELSE 0)
      BY <2>10 DEF SaveHitCycles
    <3> DEFINE c == IF config.write_allocate THEN 1 ELSE 0
    <3>2. Rest' = Rest + 100
      <4>1. /\ c \in {0, 1} /\ Cached' = Cached + c /\ StoreFills' = StoreFills + 0
            /\ stats'.load_misses = stats.load_misses + 0
            /\ stats'.total_cycles = stats.total_cycles + (100 + c + (IF 0 = 1 THEN L ELSE 0) + (IF 0 = 1 THEN U ELSE 0))
        BY <1>2, <2>8, <2>9, <3>1
      <4> HIDE DEF c
      <4> QED
        BY <1>10, <2>1, <4>1
    <3> QED
      BY <1>2, <2>8, <2>10, <3>2 DEF Balanced
  <2>11. CASE ~config.write_through
    <3>1. SaveHitCycles = 1 /\ config.write_allocate
      BY <1>5, <2>11 DEF SaveHitCycles
    <3>2. Rest' = Rest
      <4>1. /\ Cached' = Cached + 1 /\ StoreFills' = StoreFills + 0
            /\ stats'.load_misses = stats.load_misses + 0
            /\ stats'.total_cycles = stats.total_cycles + (0 + 1 + (IF 0 = 1 THEN L ELSE 0) + (IF 0 = 1 THEN U ELSE 0))
        BY <1>2, <2>8, <2>9, <3>1
      <4>2. Rest' = Rest + 0
        BY <1>10, <2>1, <4>1
      <4> QED
        BY <1>2, <4>2
    <3>3. Count(flag) = 1 /\ Count(old) \in {0, 1}
      BY <2>11 DEF Count
    <3>4. (stats.total_stores - D) + 0 + 0 <= stats'.total_stores - D'
      BY <1>2, <2>6, <2>8, <3>3
    <3>5. Rest' = Rest + (IF 0 = 1 THEN L ELSE 0) + (IF 0 = 1 THEN U ELSE 0)
      BY <1>2, <3>2
    <3> QED
      BY <1>2, <2>8, <2>11, <3>4, <3>5 DEF Balanced
  <2> QED
    BY <2>10, <2>11
<1>14. ASSUME NEW address \in Addresses, SaveMissAround(address) PROVE Balanced
  <2>1. stats' = [stats EXCEPT !.total_stores = @ + 1, !.store_misses = @ + 1,
                                !.total_cycles = @ + 100]
        /\ config' = config /\ ~config.write_allocate
    BY <1>14 DEF SaveMissAround
  <2>2. /\ stats'.total_loads = stats.total_loads /\ stats'.total_stores = stats.total_stores + 1
        /\ stats'.load_misses = stats.load_misses /\ stats'.total_cycles = stats.total_cycles + 100
    BY <1>1, <2>1 DEF CacheStats
  <2>3. StoreFills' = StoreFills /\ Cached' = Cached
    BY <1>2, <1>4, <2>1, <2>2 DEF StoreFills, Cached
  <2>4. Rest' = Rest + 100 /\ config.write_through
    <3>1. /\ Cached' = Cached + 0 /\ StoreFills' = StoreFills + 0
          /\ stats'.load_misses = stats.load_misses + 0
          /\ stats'.total_cycles = stats.total_cycles + (100 + 0 + (IF 0 = 1 THEN L ELSE 0) + (IF 0 = 1 THEN U ELSE 0))
      BY <1>2, <2>2, <2>3
    <3> QED
      BY <1>5, <1>10, <2>1, <3>1
  <2> QED
    BY <1>2, <2>2, <2>4 DEF Balanced
<1>15. ASSUME NEW address \in Addresses, SaveMissAllocate(address) PROVE Balanced
  <2> DEFINE s == get_index(config, address)
             tag == get_tag(config, address)
             v == find_victim_slot(sets[s])
             old == sets[s].slots[v].dirty
             dirty == ~config.write_through
             new == Filled(sets[s], tag, dirty)
  <2>1. s \in SetIndex(config) /\ config' = config /\ sets' = [sets EXCEPT ![s] = new]
        /\ config.write_allocate
    BY <1>1, <1>7, <1>15 DEF SaveMissAllocate
  <2>2. stats' = [stats EXCEPT !.total_stores = @ + 1, !.store_misses = @ + 1,
                                !.total_cycles = @ + SaveMissCycles(sets[s])]
    BY <1>15 DEF SaveMissAllocate
  <2>3. v \in SlotIndex /\ old \in BOOLEAN /\ Writeback(sets[s]) = old /\ (old => ~config.write_through)
    <3> HIDE DEF s
    <3> QED
      BY <1>9, <2>1
  <2>4. /\ new.slots[v].dirty = dirty
        /\ \A j \in SlotIndex \ {v} : new.slots[j].dirty = sets[s].slots[j].dirty
    <3>1. dirty \in BOOLEAN
      BY <1>5
    <3> HIDE DEF s, tag, dirty
    <3>2. sets[s] \in Set
      BY <1>1, <2>1
    <3> QED
      BY <1>1, <3>1, <3>2, FilledChangesOneFlag
  <2> HIDE DEF s, tag, v, new
  <2>5. D' = (D + Count(dirty)) - Count(old)
    <3>1. new.slots[v].dirty \in BOOLEAN
      BY <1>5, <2>4
    <3> HIDE DEF dirty
    <3> QED
      BY <2>1, <2>3, <2>4, <3>1, OneFlagChanges
  <2> HIDE DEF old
  <2>6. SaveMissCycles(sets[s]) = (IF old THEN U ELSE 0) + U + (IF config.write_through THEN 101 ELSE 1)
    BY <1>3, <2>3 DEF SaveMissCycles
  <2>7. /\ stats'.total_loads = stats.total_loads /\ stats'.total_stores = stats.total_stores + 1
        /\ stats'.load_misses = stats.load_misses /\ stats'.store_misses = stats.store_misses + 1
        /\ stats'.total_cycles = stats.total_cycles + SaveMissCycles(sets[s])
    BY <1>1, <2>2 DEF CacheStats
  <2>8. /\ StoreFills' = StoreFills + 1 /\ Cached' = Cached + 1
        /\ stats'.load_misses = stats.load_misses + 0
    BY <1>2, <1>4, <2>1, <2>7 DEF StoreFills, Cached
  <2>9. CASE config.write_through
    <3>1. SaveMissCycles(sets[s]) = U + 101
      BY <1>2, <2>3, <2>6, <2>9
    <3>2. Rest' = Rest + 100
      <4>1. stats'.total_cycles = stats.total_cycles + (100 + 1 + (IF 0 = 1 THEN L ELSE 0) + (IF 1 = 1 THEN U ELSE 0))
        BY <1>2, <2>7, <3>1
      <4> QED
        BY <1>2, <1>10, <2>1, <2>8, <4>1
    <3> QED
      BY <1>2, <2>7, <2>9, <3>2 DEF Balanced
  <2>10. CASE ~config.write_through /\ old
    <3>1. SaveMissCycles(sets[s]) = U + U + 1 /\ D' = D
      BY <1>2, <2>5, <2>6, <2>10 DEF Count
    <3>2. Rest' = Rest + U
      <4>1. stats'.total_cycles = stats.total_cycles + (U + 1 + (IF 0 = 1 THEN L ELSE 0) + (IF 1 = 1 THEN U ELSE 0))
        BY <1>2, <2>7, <3>1
      <4> QED
        BY <1>2, <1>10, <2>1, <2>8, <4>1
    <3>3. (stats.total_stores - D) + 0 + 1 <= stats'.total_stores - D'
      BY <1>2, <2>7, <3>1
    <3>4. Rest' = Rest + (IF 0 = 1 THEN L ELSE 0) + (IF 1 = 1 THEN U ELSE 0)
      BY <1>2, <3>2
    <3> QED
      BY <1>2, <2>7, <2>8, <2>10, <3>3, <3>4 DEF Balanced
  <2>11. CASE ~config.write_through /\ ~old
    <3>1. SaveMissCycles(sets[s]) = U + 1 /\ D' = D + 1
      BY <1>2, <2>5, <2>6, <2>11 DEF Count
    <3>2. Rest' = Rest + 0
      <4>1. stats'.total_cycles = stats.total_cycles + (0 + 1 + (IF 0 = 1 THEN L ELSE 0) + (IF 1 = 1 THEN U ELSE 0))
        BY <1>2, <2>7, <3>1
      <4> QED
        BY <1>2, <1>10, <2>1, <2>8, <4>1
    <3>3. (stats.total_stores - D) + 0 + 0 <= stats'.total_stores - D'
      BY <1>2, <2>7, <3>1
    <3>4. Rest' = Rest + (IF 0 = 1 THEN L ELSE 0) + (IF 0 = 1 THEN U ELSE 0)
      BY <1>2, <3>2
    <3> QED
      BY <1>2, <2>7, <2>11, <3>3, <3>4 DEF Balanced
  <2> QED
    BY <2>9, <2>10, <2>11
<1>16. CASE DivideByZero
  <2>1. UNCHANGED <<config, sets, stats>>
    BY <1>16 DEF DivideByZero
  <2>2. Rest' = Rest /\ D' = D
    BY <2>1 DEF Rest, StoreFills, Cached, Loaded, Stored, DirtyBlocks
  <2>3. Rest' = Rest + (IF 0 = 1 THEN L ELSE 0) + (IF 0 = 1 THEN U ELSE 0)
    BY <1>2, <2>2
  <2>4. (stats.total_stores - D) + 0 + 0 <= stats'.total_stores - D'
    BY <1>2, <2>1, <2>2
  <2> QED
    BY <1>2, <2>1, <2>2, <2>3, <2>4 DEF Balanced
<1> QED
  BY <1>11, <1>12, <1>13, <1>14, <1>15, <1>16 DEF Next

(* cache.cpp:70: the cycles are accounted for by the accesses, the stores  *)
(* written through and the blocks transferred, for every configuration and *)
(* every trace whose accesses fit 32 bits; what stores transfer is charged *)
(* modulo 2^32, and no store is written back twice.                        *)
THEOREM CyclesAccountAlways == Spec => []CyclesAccount
<1>1. ASSUME Init PROVE CyclesAccount
  <2>1. IInv
    BY <1>1, InitInv
  <2>2. ConfigOK /\ stats \in CacheStats
    BY <2>1 DEF IInv, TypeOK, ConfigOK
  <2>3. DirtyBlocks = {}
    BY <1>1 DEF Init, DirtyBlocks, NewSet, NewSlot
  <2>4. Cardinality(DirtyBlocks) = 0
    BY <2>3, FS_EmptySet
  <2>5. stats.total_stores = 0 /\ stats.total_loads = 0 /\ stats.total_cycles = 0
        /\ stats.load_misses = 0 /\ stats.store_misses = 0
    BY <1>1 DEF Init
  <2>6. StoreFills = 0 /\ Cached = 0
    BY <2>5 DEF StoreFills, Cached
  <2>7. Loaded \in Nat /\ Stored \in Nat /\ Loaded * 0 = 0 /\ Stored * 0 = 0
    BY <2>2, AccountTypes
  <2>8. Rest = 0
    BY <2>5, <2>6, <2>7 DEF Rest
  <2>9. IF config.write_through THEN Rest = 100 * stats.total_stores
        ELSE \E byLoads \in 0 .. stats.load_misses, byStores \in 0 .. stats.store_misses :
               /\ byLoads + byStores <= stats.total_stores - Cardinality(DirtyBlocks)
               /\ Rest = (Loaded * byLoads) + (Stored * byStores)
    <3>1. 0 \in 0 .. 0 /\ 0 + 0 <= 0 - 0 /\ Rest = (Loaded * 0) + (Stored * 0)
      BY <2>7, <2>8
    <3> QED
      BY <2>4, <2>5, <2>8, <3>1
  <2> QED
    BY <2>9 DEF CyclesAccount, Rest, StoreFills, Cached, Loaded, Stored
<1>2. ASSUME IInv, IInv', CyclesAccount, [Next]_vars PROVE CyclesAccount'
  <2>1. CASE UNCHANGED vars
    BY <1>2, <2>1 DEF vars, CyclesAccount, DirtyBlocks
  <2>2. CASE Next
    <3>1. config' = config
      BY <2>2 DEF Next, LoadHit, LoadMiss, SaveHit, SaveMissAround, SaveMissAllocate, DivideByZero
    <3> QED
      BY <1>2, <2>2, <3>1, StepBalanced, BalancedStep
  <2> QED
    BY <1>2, <2>1, <2>2
<1> QED
  BY <1>1, <1>2, InductiveInvariant, PTL DEF Spec

-----------------------------------------------------------------------------
(* Cache implements AbstractCache.  The ages of the blocks in use number   *)
(* them without gap or tie, so that a set is a list; a hit and a miss      *)
(* change its ages as they change the abstract list.                       *)

(* The traces of a FIFO cache on which access_order does not wrap.         *)
Fits == config.is_lru \/ \A garbage \in FifoCounters : (garbage % Word) + MaxAccesses <= Word

(* The low word of fifo_counter did not wrap since it last numbered a slot.*)
Unwrapped(set) ==
  ~config.is_lru /\ set.valid_count > 0 => set.fifo_counter % Word = ((set.fifo_counter - 1) % Word) + 1

Numbered(set) ==
  /\ \A i \in Valid(set) : Age(set, i) \in 1 .. set.valid_count
  /\ \A i, j \in Valid(set) : Age(set, i) = Age(set, j) => i = j
  /\ \A k \in 1 .. set.valid_count : \E i \in Valid(set) : Age(set, i) = k

(* fifo_counter counts fills, from what it happened to hold; each of them  *)
(* was an access, and each block in use had one.                           *)
Accesses == stats.total_loads + stats.total_stores
Counted(set) ==
  \E garbage \in FifoCounters :
    /\ set.fifo_counter \in garbage .. (garbage + Accesses)
    /\ ~config.is_lru => set.fifo_counter >= garbage + set.valid_count

AgesInv == \A s \in SetIndex(config) : Numbered(sets[s]) /\ Counted(sets[s])

Block == [tag : 0 .. (Word - 1), dirty : BOOLEAN]
Content(set, i) == [tag |-> set.slots[i].tag, dirty |-> set.slots[i].dirty]

-----------------------------------------------------------------------------
(* Moving one number to the front of a numbering leaves a numbering.       *)
LEMMA MoveToFront ==
  ASSUME NEW n \in Nat, NEW V, NEW age \in [V -> 1 .. n],
         \A x, y \in V : age[x] = age[y] => x = y,
         \A k \in 1 .. n : \E x \in V : age[x] = k,
         NEW i \in V, NEW moved,
         \A x \in V : moved[x] = IF x = i THEN 1
                                 ELSE IF age[x] < age[i] THEN age[x] + 1 ELSE age[x]
  PROVE  /\ \A x \in V : moved[x] \in 1 .. n
         /\ \A x, y \in V : moved[x] = moved[y] => x = y
         /\ \A k \in 1 .. n : \E x \in V : moved[x] = k
<1>0. \A x \in V : age[x] \in Int /\ 1 <= age[x] /\ age[x] <= n
  OBVIOUS
<1>1. \A x \in V : moved[x] \in 1 .. n
  BY <1>0
<1>2. \A x, y \in V : moved[x] = moved[y] => x = y
  <2> SUFFICES ASSUME NEW x \in V, NEW y \in V, moved[x] = moved[y] PROVE x = y
    OBVIOUS
  <2>1. x # i => age[x] # age[i]
    OBVIOUS
  <2>2. y # i => age[y] # age[i]
    OBVIOUS
  <2>3. age[x] = age[y] => x = y
    OBVIOUS
  <2> QED
    BY <1>0, <2>1, <2>2, <2>3
<1>3. \A k \in 1 .. n : \E x \in V : moved[x] = k
  <2> SUFFICES ASSUME NEW k \in 1 .. n PROVE \E x \in V : moved[x] = k
    OBVIOUS
  <2>1. CASE k = 1
    BY <2>1
  <2>2. CASE 1 < k /\ k <= age[i]
    <3>1. PICK x \in V : age[x] = k - 1
      BY <2>2
    <3>2. x # i /\ age[x] < age[i]
      BY <1>0, <2>2, <3>1
    <3> QED
      BY <3>1, <3>2
  <2>3. CASE age[i] < k
    <3>1. PICK x \in V : age[x] = k
      OBVIOUS
    <3>2. x # i /\ ~(age[x] < age[i])
      BY <1>0, <2>3, <3>1
    <3> QED
      BY <3>1, <3>2
  <2> QED
    BY <1>0, <2>1, <2>2, <2>3
<1> QED
  BY <1>1, <1>2, <1>3

(* So does putting a new thing in front, in place of the last one or in    *)
(* addition.                                                               *)
LEMMA PutInFront ==
  ASSUME NEW n \in Nat, NEW m \in Nat, NEW V, NEW age \in [V -> 1 .. n],
         \A x, y \in V : age[x] = age[y] => x = y,
         \A k \in 1 .. n : \E x \in V : age[x] = k,
         NEW v, (v \in V /\ age[v] = n /\ m = n) \/ (v \notin V /\ m = n + 1),
         NEW moved, moved[v] = 1,
         \A x \in V \ {v} : moved[x] = age[x] + 1
  PROVE  /\ \A x \in V \cup {v} : moved[x] \in 1 .. m
         /\ \A x, y \in V \cup {v} : moved[x] = moved[y] => x = y
         /\ \A k \in 1 .. m : \E x \in V \cup {v} : moved[x] = k
<1>0. \A x \in V : age[x] \in Int /\ 1 <= age[x] /\ age[x] <= n
  OBVIOUS
<1>1. \A x \in V \ {v} : age[x] < m
  <2> SUFFICES ASSUME NEW x \in V \ {v} PROVE age[x] < m
    OBVIOUS
  <2>1. v \in V => age[x] # age[v]
    OBVIOUS
  <2> QED
    BY <1>0, <2>1
<1>2. 1 <= m
  BY <1>0
<1>3. \A x \in V \cup {v} : moved[x] \in 1 .. m
  BY <1>0, <1>1, <1>2
<1>4. \A x, y \in V \cup {v} : moved[x] = moved[y] => x = y
  BY <1>0
<1>5. \A k \in 1 .. m : \E x \in V \cup {v} : moved[x] = k
  <2> SUFFICES ASSUME NEW k \in 1 .. m PROVE \E x \in V \cup {v} : moved[x] = k
    OBVIOUS
  <2>1. CASE k = 1
    BY <2>1
  <2>2. CASE 1 < k
    <3>1. PICK x \in V : age[x] = k - 1
      BY <2>2
    <3>2. x # v
      BY <2>2, <3>1
    <3> QED
      BY <3>1, <3>2
  <2> QED
    BY <2>1, <2>2
<1> QED
  BY <1>3, <1>4, <1>5

-----------------------------------------------------------------------------
(* What a hit does to the ages: under LRU the block becomes the youngest   *)
(* and those that were younger grow older, under FIFO nothing changes.     *)
LEMMA RenewedAges ==
  ASSUME ConfigOK, NEW set, SetInv(set), NEW i \in Valid(set)
  PROVE  /\ Renewed(set, i).valid_count = set.valid_count
         /\ Renewed(set, i).fifo_counter = set.fifo_counter
         /\ \A j \in Valid(set) : Content(Renewed(set, i), j) = Content(set, j)
         /\ config.is_lru =>
              \A j \in Valid(set) :
                Age(Renewed(set, i), j) =
                  IF j = i THEN 1
                  ELSE IF Age(set, j) < Age(set, i) THEN Age(set, j) + 1 ELSE Age(set, j)
         /\ ~config.is_lru => Renewed(set, i) = set
<1> DEFINE new == Renewed(set, i)
           ref == set.slots[i].access_order
<1>1. /\ set.slots \in [0 .. (config.num_blocks - 1) -> Slot]
      /\ set.valid_count \in 0 .. config.num_blocks /\ config.num_blocks \in Nat
      /\ Valid(set) \subseteq 0 .. (config.num_blocks - 1)
      /\ set \in Set
  BY ConfigBounds DEF SetInv, Set, Valid
<1>2. CASE ~config.is_lru
  BY <1>2 DEF Renewed
<1>3. CASE config.is_lru
  <2>1. new.valid_count = set.valid_count /\ new.fifo_counter = set.fifo_counter
    BY <1>1, <1>3 DEF Renewed, Set
  <2>2. new.slots = [j \in 0 .. (config.num_blocks - 1) |->
          IF j = i THEN [set.slots[j] EXCEPT !.access_order = 0]
          ELSE IF j < set.valid_count /\ set.slots[j].access_order < ref
          THEN [set.slots[j] EXCEPT !.access_order = @ + 1] ELSE set.slots[j]]
    BY <1>1, <1>3 DEF Renewed, update_lru, Set
  <2> SUFFICES ASSUME NEW j \in Valid(set)
               PROVE  /\ Content(new, j) = Content(set, j)
                      /\ Age(new, j) =
                           IF j = i THEN 1
                           ELSE IF Age(set, j) < Age(set, i) THEN Age(set, j) + 1 ELSE Age(set, j)
    BY <1>3, <2>1
  <2> DEFINE old == set.slots[j]
  <2>3. old \in Slot /\ set.slots[i] \in Slot /\ j < set.valid_count
    BY <1>1 DEF Valid
  <2>8. old.access_order \in Int /\ ref \in Int
    BY <2>3 DEF Slot
  <2>4. new.slots[j] = IF j = i THEN [old EXCEPT !.access_order = 0]
                       ELSE IF old.access_order < ref
                       THEN [old EXCEPT !.access_order = old.access_order + 1] ELSE old
    BY <1>1, <2>2, <2>3
  <2> HIDE DEF old, ref, new
  <2>5. /\ new.slots[j].tag = old.tag /\ new.slots[j].dirty = old.dirty
        /\ new.slots[j].access_order =
             IF j = i THEN 0 ELSE IF old.access_order < ref THEN old.access_order + 1
             ELSE old.access_order
    BY <2>3, <2>4 DEF Slot
  <2>6. Content(new, j) = Content(set, j)
    BY <2>5 DEF Content, old
  <2>7. Age(set, j) = old.access_order + 1 /\ Age(set, i) = ref + 1
        /\ Age(new, j) = new.slots[j].access_order + 1
    BY <1>3 DEF Age, old, ref
  <2> QED
    BY <2>5, <2>6, <2>7, <2>8
<1> QED
  BY <1>2, <1>3

LEMMA WrittenAges ==
  ASSUME ConfigOK, NEW set, SetInv(set), NEW i \in Valid(set)
  PROVE  /\ Written(set, i).valid_count = set.valid_count
         /\ Written(set, i).fifo_counter = set.fifo_counter
         /\ \A j \in Valid(set) :
              /\ Age(Written(set, i), j) = Age(set, j)
              /\ Content(Written(set, i), j) =
                   IF j = i THEN [tag |-> set.slots[i].tag,
                                  dirty |-> set.slots[i].dirty \/ ~config.write_through]
                   ELSE Content(set, j)
<1> DEFINE new == Written(set, i)
           d == set.slots[i].dirty \/ ~config.write_through
<1>1. /\ set.slots \in [0 .. (config.num_blocks - 1) -> Slot]
      /\ Valid(set) \subseteq 0 .. (config.num_blocks - 1)
      /\ set \in Set
  BY ConfigBounds DEF SetInv, Set, Valid
<1>2. /\ new.valid_count = set.valid_count /\ new.fifo_counter = set.fifo_counter
      /\ new.slots = [set.slots EXCEPT ![i] = [set.slots[i] EXCEPT !.dirty = d]]
  BY <1>1 DEF Written, Set
<1> SUFFICES ASSUME NEW j \in Valid(set)
             PROVE  /\ Age(new, j) = Age(set, j)
                    /\ Content(new, j) = IF j = i THEN [tag |-> set.slots[i].tag, dirty |-> d]
                                         ELSE Content(set, j)
  BY <1>2
<1>3. new.slots[j] = IF j = i THEN [set.slots[i] EXCEPT !.dirty = d] ELSE set.slots[j]
  BY <1>1, <1>2
<1>4. set.slots[j] \in Slot
  BY <1>1
<1> HIDE DEF new, d
<1>5. /\ new.slots[j].tag = set.slots[j].tag
      /\ new.slots[j].access_order = set.slots[j].access_order
      /\ new.slots[j].dirty = IF j = i THEN d ELSE set.slots[j].dirty
  BY <1>3, <1>4 DEF Slot
<1> QED
  BY <1>2, <1>5 DEF Age, Content

(* The victim of a full set is its oldest block.                           *)
LEMMA VictimIsOldest ==
  ASSUME ConfigOK, NEW set, SetInv(set), Numbered(set)
  PROVE  LET v == find_victim_slot(set) IN
         /\ IsFull(set) => v \in Valid(set) /\ Age(set, v) = set.valid_count
         /\ ~IsFull(set) => v \notin Valid(set) /\ v = set.valid_count
<1> DEFINE v == find_victim_slot(set)
<1>1. /\ set.valid_count \in Nat /\ set.fifo_counter \in Nat /\ set \in Set
      /\ \A j \in Valid(set) : set.slots[j].access_order \in Int
  <2>1. /\ set \in Set /\ set.slots \in [0 .. (config.num_blocks - 1) -> Slot]
        /\ set.valid_count \in 0 .. config.num_blocks /\ set.fifo_counter \in Nat
        /\ Valid(set) \subseteq 0 .. (config.num_blocks - 1) /\ config.num_blocks \in Nat
    BY ConfigBounds DEF SetInv, Set, Valid
  <2>2. \A j \in Valid(set) : set.slots[j] \in Slot
    BY <2>1
  <2> QED
    BY <2>1, <2>2 DEF Slot
<1>2. /\ IsFull(set) =>
           v \in Valid(set) /\ \A j \in Valid(set) : EvictedBefore(set.slots, v, j)
      /\ ~IsFull(set) => v = set.valid_count
  BY <1>1, VictimProperties
<1> HIDE DEF v
<1>3. ASSUME IsFull(set) PROVE Age(set, v) = set.valid_count
  <2>1. v \in Valid(set) /\ Age(set, v) \in 1 .. set.valid_count
    BY <1>2, <1>3 DEF Numbered
  <2> DEFINE m == set.valid_count
  <2>2. PICK j \in Valid(set) : Age(set, j) = m
    <3>1. m \in 1 .. m
      BY <1>1, <2>1
    <3> HIDE DEF m
    <3>2. \A k \in 1 .. m : \E j \in Valid(set) : Age(set, j) = k
      BY DEF Numbered, m
    <3> QED
      BY <3>1, <3>2
  <2>3. EvictedBefore(set.slots, v, j)
    BY <1>2, <1>3
  <2>4. Age(set, v) >= Age(set, j)
    <3>1. CASE config.is_lru
      BY <1>1, <2>1, <2>3, <3>1 DEF EvictedBefore, Age
    <3>2. CASE ~config.is_lru
      <4>1. (set.fifo_counter - 1) % Word \in Int
        BY <1>1, GeometryAssumption
      <4>2. /\ Age(set, v) = ((set.fifo_counter - 1) % Word) + 1 - set.slots[v].access_order
            /\ Age(set, j) = ((set.fifo_counter - 1) % Word) + 1 - set.slots[j].access_order
        BY <3>2 DEF Age
      <4>3. set.slots[v].access_order <= set.slots[j].access_order
        BY <1>1, <2>1, <2>3, <3>2 DEF EvictedBefore
      <4> QED
        <5>1. \A k, a, b \in Int : a <= b => k + 1 - a >= k + 1 - b
          OBVIOUS
        <5>2. set.slots[v].access_order \in Int /\ set.slots[j].access_order \in Int
          BY <1>1, <2>1
        <5>3. ((set.fifo_counter - 1) % Word) + 1 - set.slots[v].access_order
                >= ((set.fifo_counter - 1) % Word) + 1 - set.slots[j].access_order
          BY <4>1, <4>3, <5>1, <5>2
        <5> QED
          BY <4>2, <5>3, Zenon
    <3> QED
      BY <3>1, <3>2
  <2> QED
    BY <1>1, <2>1, <2>2, <2>4
<1>4. ~IsFull(set) => v \notin Valid(set)
  BY <1>1, <1>2 DEF Valid
<1> QED
  BY <1>2, <1>3, <1>4 DEF v

LEMMA SmallRemainder ==
  ASSUME NEW a \in Nat, NEW w \in Nat, a < w
  PROVE  a % w = a
<1>1. w \in Nat \ {0} /\ a \in 0 .. (w - 1) /\ (w * 0) + a = a
  OBVIOUS
<1> QED
  BY <1>1, DivisionUnique

(* What a miss does to them: all grow older by one, and the oldest leaves  *)
(* if the set is full.                                                     *)
LEMMA FilledAges ==
  ASSUME ConfigOK, NEW set, SetInv(set), Numbered(set), NEW tag, NEW dirty,
         Unwrapped(set)
  PROVE  LET new == Filled(set, tag, dirty)
             v == find_victim_slot(set) IN
         /\ new.valid_count = CountAfterFill(set)
         /\ new.fifo_counter = IF config.is_lru THEN set.fifo_counter ELSE set.fifo_counter + 1
         /\ Content(new, v) = [tag |-> tag, dirty |-> dirty] /\ Age(new, v) = 1
         /\ \A j \in Valid(set) \ {v} :
              Content(new, j) = Content(set, j) /\ Age(new, j) = Age(set, j) + 1
         /\ IsFull(set) => v \in Valid(set) /\ Age(set, v) = set.valid_count
         /\ ~IsFull(set) => v \notin Valid(set) /\ v = set.valid_count
<1> DEFINE new == Filled(set, tag, dirty)
           v == find_victim_slot(set)
           n == config.num_blocks
           count == CountAfterFill(set)
<1>1. /\ set \in Set
      /\ set.slots \in [0 .. (n - 1) -> Slot]
      /\ set.valid_count \in 0 .. n
      /\ set.fifo_counter \in Nat
      /\ n \in 1 .. (Word - 1)
      /\ Word \in Nat
      /\ Valid(set) \subseteq 0 .. (n - 1)
  BY ConfigBounds, GeometryAssumption DEF SetInv, Set, Valid
<1>2. /\ v \in 0 .. (n - 1)
      /\ IsFull(set) =>
           v \in Valid(set) /\ \A j \in Valid(set) : EvictedBefore(set.slots, v, j)
      /\ ~IsFull(set) => v = set.valid_count
  BY <1>1, VictimProperties
<1>3. /\ count \in Int /\ set.valid_count <= count
      /\ ~IsFull(set) => v \notin Valid(set)
  BY <1>1, <1>2 DEF IsFull, Valid, CountAfterFill
<1>4. \A j \in Valid(set) : /\ set.slots[j] \in Slot /\ set.slots[j].access_order \in Int
                            /\ j < set.valid_count
  BY <1>1 DEF Slot, Valid
<1>5. IsFull(set) => Age(set, v) = set.valid_count
  BY VictimIsOldest
<1> HIDE DEF v, count
<1>6. CASE config.is_lru
  <2>1. new.slots = [j \in 0 .. (n - 1) |->
          IF j = v THEN [tag |-> tag, dirty |-> dirty, access_order |-> 0]
          ELSE IF j < count /\ set.slots[j].access_order < n
          THEN [set.slots[j] EXCEPT !.access_order = @ + 1] ELSE set.slots[j]]
    BY <1>1, <1>2, <1>6 DEF Filled, update_lru, Set, v, count
  <2>2. new.fifo_counter = set.fifo_counter /\ new.valid_count = count
    BY <1>1, <1>6 DEF Filled, Set, count
  <2>3. new.slots[v] = [tag |-> tag, dirty |-> dirty, access_order |-> 0]
    BY <1>2, <2>1
  <2>4. Content(new, v) = [tag |-> tag, dirty |-> dirty] /\ Age(new, v) = 1
    BY <1>6, <2>3 DEF Content, Age
  <2>5. ASSUME NEW j \in Valid(set) \ {v}
        PROVE  Content(new, j) = Content(set, j) /\ Age(new, j) = Age(set, j) + 1
    <3> DEFINE old == set.slots[j]
    <3>1. old.access_order < n /\ j < count
      BY <1>1, <1>3, <1>4, <1>6 DEF Numbered, Age
    <3>2. new.slots[j] = [old EXCEPT !.access_order = old.access_order + 1]
      BY <1>1, <2>1, <3>1
    <3>3. old \in Slot
      BY <1>4
    <3> HIDE DEF old, new
    <3>4. /\ new.slots[j].tag = old.tag /\ new.slots[j].dirty = old.dirty
          /\ new.slots[j].access_order = old.access_order + 1
      BY <3>2, <3>3 DEF Slot
    <3> QED
      BY <1>4, <1>6, <3>4 DEF Content, Age, old
  <2> QED
    BY <1>2, <1>3, <1>5, <1>6, <2>2, <2>4, <2>5 DEF v, count
<1>7. CASE ~config.is_lru
  <2> DEFINE block == [tag |-> tag, dirty |-> dirty, access_order |-> set.fifo_counter % Word]
  <2>1. new.slots = [set.slots EXCEPT ![v] = block]
    BY <1>1, <1>7 DEF Filled, Set, v
  <2>2. new.fifo_counter = set.fifo_counter + 1 /\ new.valid_count = count
    BY <1>1, <1>7 DEF Filled, Set, count
  <2>3. /\ set.fifo_counter + 1 - 1 = set.fifo_counter
        /\ set.fifo_counter % Word \in Int /\ (set.fifo_counter - 1) % Word \in Int
    BY <1>1
  <2>4. new.slots[v] = block
    BY <1>1, <1>2, <2>1
  <2>5. Content(new, v) = [tag |-> tag, dirty |-> dirty]
    BY <2>4 DEF Content
  <2>6. Age(new, v) = 1
    BY <1>1, <1>7, <2>2, <2>3, <2>4 DEF Age
  <2>7. ASSUME NEW j \in Valid(set) \ {v}
        PROVE  Content(new, j) = Content(set, j) /\ Age(new, j) = Age(set, j) + 1
    <3>1. new.slots[j] = set.slots[j]
      BY <1>1, <2>1
    <3> HIDE DEF new
    <3>2. Content(new, j) = Content(set, j)
      BY <3>1 DEF Content
    <3>3. set.slots[j].access_order \in Int
      BY <1>4
    <3>4. /\ Age(new, j) = ((new.fifo_counter - 1) % Word) + 1 - new.slots[j].access_order
          /\ Age(set, j) = ((set.fifo_counter - 1) % Word) + 1 - set.slots[j].access_order
      BY <1>7 DEF Age
    <3>5. set.fifo_counter % Word = ((set.fifo_counter - 1) % Word) + 1
      <4>1. set.valid_count > 0
        BY <1>1 DEF Valid
      <4> QED
        BY <1>7, <4>1 DEF Unwrapped
    <3>6. (new.fifo_counter - 1) % Word = ((set.fifo_counter - 1) % Word) + 1
      <4>1. set.fifo_counter \in Int
        BY <1>1
      <4>2. new.fifo_counter = set.fifo_counter + 1
        BY <2>2
      <4>3. \A next \in Int : next = set.fifo_counter + 1 => next - 1 = set.fifo_counter
        BY <4>1
      <4>4. new.fifo_counter \in Int
        BY <4>1, <4>2
      <4>5. new.fifo_counter - 1 = set.fifo_counter
        BY <4>2, <4>3, <4>4
      <4> QED
        BY <3>5, <4>5, Zenon
    <3>7. Age(new, j) = Age(set, j) + 1
      BY <2>3, <3>1, <3>3, <3>4, <3>6
    <3> QED
      BY <3>2, <3>7
  <2> QED
    BY <1>2, <1>3, <1>5, <1>7, <2>2, <2>5, <2>6, <2>7 DEF v, count
<1> QED
  BY <1>6, <1>7

LEMMA RenewedKeepsNumbers ==
  ASSUME ConfigOK, NEW set, SetInv(set), Numbered(set), NEW i \in Valid(set)
  PROVE  Numbered(Renewed(set, i))
<1>1. CASE ~config.is_lru
  BY <1>1, RenewedAges
<1>2. CASE config.is_lru
  <2> DEFINE new == Renewed(set, i)
             n == set.valid_count
             V == Valid(set)
             age == [j \in V |-> Age(set, j)]
             moved == [j \in V |-> Age(new, j)]
  <2>1. n \in Nat /\ new.valid_count = n /\ Valid(new) = V
    BY RenewedAges DEF SetInv, Set, Valid
  <2>2. /\ age \in [V -> 1 .. n] /\ i \in V
        /\ \A x, y \in V : age[x] = age[y] => x = y
        /\ \A k \in 1 .. n : \E x \in V : age[x] = k
    BY DEF Numbered
  <2>3. \A x \in V : moved[x] = IF x = i THEN 1
                                ELSE IF age[x] < age[i] THEN age[x] + 1 ELSE age[x]
    BY <1>2, RenewedAges
  <2>4. \A x \in V : moved[x] = Age(new, x)
    OBVIOUS
  <2> HIDE DEF n, V, age, moved
  <2>5. /\ \A x \in V : moved[x] \in 1 .. n
        /\ \A x, y \in V : moved[x] = moved[y] => x = y
        /\ \A k \in 1 .. n : \E x \in V : moved[x] = k
    BY <2>1, <2>2, <2>3, MoveToFront
  <2> HIDE DEF new
  <2>6. /\ \A x \in V : Age(new, x) \in 1 .. n
        /\ \A x, y \in V : Age(new, x) = Age(new, y) => x = y
        /\ \A k \in 1 .. n : \E x \in V : Age(new, x) = k
    BY <2>4, <2>5
  <2> QED
    BY <2>1, <2>6 DEF Numbered, new
<1> QED
  BY <1>1, <1>2

LEMMA FilledKeepsNumbers ==
  ASSUME ConfigOK, NEW set, SetInv(set), Numbered(set), NEW tag, NEW dirty,
         Unwrapped(set)
  PROVE  Numbered(Filled(set, tag, dirty)) /\ Valid(Filled(set, tag, dirty)) = Valid(set) \cup {find_victim_slot(set)}
<1> DEFINE new == Filled(set, tag, dirty)
           v == find_victim_slot(set)
           n == set.valid_count
           m == CountAfterFill(set)
           V == Valid(set)
           age == [j \in V |-> Age(set, j)]
           moved == [j \in V \cup {v} |-> Age(new, j)]
<1>1. /\ n \in Nat /\ new.valid_count = m /\ Age(new, v) = 1
      /\ \A j \in V \ {v} : Age(new, j) = Age(set, j) + 1
      /\ IsFull(set) => v \in V /\ Age(set, v) = n
      /\ ~IsFull(set) => v \notin V /\ v = n
  BY FilledAges DEF SetInv, Set
<1>2. (v \in V /\ Age(set, v) = n /\ m = n) \/ (v \notin V /\ m = n + 1 /\ v = n)
  BY <1>1 DEF CountAfterFill
<1>3. m \in Nat /\ Valid(new) = V \cup {v}
  BY <1>1, <1>2 DEF Valid
<1>4. /\ age \in [V -> 1 .. n]
      /\ \A x, y \in V : age[x] = age[y] => x = y
      /\ \A k \in 1 .. n : \E x \in V : age[x] = k
  BY DEF Numbered
<1>5. /\ moved[v] = 1 /\ \A x \in V \ {v} : moved[x] = age[x] + 1
      /\ (v \in V /\ age[v] = n /\ m = n) \/ (v \notin V /\ m = n + 1)
  BY <1>1, <1>2
<1>6. \A x \in V \cup {v} : moved[x] = Age(new, x)
  OBVIOUS
<1> HIDE DEF n, m, v, V, age, moved
<1>7. /\ \A x \in V \cup {v} : moved[x] \in 1 .. m
      /\ \A x, y \in V \cup {v} : moved[x] = moved[y] => x = y
      /\ \A k \in 1 .. m : \E x \in V \cup {v} : moved[x] = k
  BY <1>1, <1>3, <1>4, <1>5, PutInFront
<1> HIDE DEF new
<1>8. /\ \A x \in V \cup {v} : Age(new, x) \in 1 .. m
      /\ \A x, y \in V \cup {v} : Age(new, x) = Age(new, y) => x = y
      /\ \A k \in 1 .. m : \E x \in V \cup {v} : Age(new, x) = k
  BY <1>6, <1>7
<1> QED
  BY <1>1, <1>3, <1>8 DEF Numbered, new, v, V

LEMMA WrittenKeepsNumbers ==
  ASSUME ConfigOK, NEW set, SetInv(set), Numbered(set), NEW i \in Valid(set)
  PROVE  Numbered(Written(set, i)) /\ Valid(Written(set, i)) = Valid(set)
BY WrittenAges DEF Numbered, Valid

-----------------------------------------------------------------------------
(* The list of a set has each block at its age, and nothing else is.       *)
LEMMA ListHasAges ==
  ASSUME ConfigOK, NEW set, SetInv(set), Numbered(set)
  PROVE  /\ ListOf(set) \in Seq(Block) /\ Len(ListOf(set)) = set.valid_count
         /\ \A i \in Valid(set) : ListOf(set)[Age(set, i)] = Content(set, i)
<1> DEFINE n == set.valid_count
           SlotAt(k) == CHOOSE i \in Valid(set) : Age(set, i) = k
<1>1. /\ n \in Nat /\ \A i \in Valid(set) : set.slots[i] \in Slot
  <2>1. /\ n \in 0 .. config.num_blocks /\ config.num_blocks \in Nat
        /\ set.slots \in [0 .. (config.num_blocks - 1) -> Slot]
    BY ConfigBounds DEF SetInv, Set
  <2> QED
    BY <2>1 DEF Valid
<1>2. \A i \in Valid(set) : Content(set, i) \in Block
  BY <1>1 DEF Content, Block, Slot
<1>3. \A k \in 1 .. n : SlotAt(k) \in Valid(set) /\ Age(set, SlotAt(k)) = k
  BY DEF Numbered
<1>4. ListOf(set) = [k \in 1 .. n |-> Content(set, SlotAt(k))]
  BY DEF ListOf, Content
<1> HIDE DEF n, SlotAt
<1>5. \A k \in 1 .. n : Content(set, SlotAt(k)) \in Block
  BY <1>2, <1>3
<1>6. ListOf(set) \in Seq(Block) /\ Len(ListOf(set)) = n
  BY <1>1, <1>4, <1>5
<1>7. ASSUME NEW i \in Valid(set) PROVE ListOf(set)[Age(set, i)] = Content(set, i)
  <2>1. Age(set, i) \in 1 .. n
    BY DEF Numbered, n
  <2>2. SlotAt(Age(set, i)) = i
    BY <1>3, <2>1 DEF Numbered
  <2> QED
    BY <1>4, <2>1, <2>2
<1> QED
  BY <1>6, <1>7 DEF n

LEMMA ListIs ==
  ASSUME ConfigOK, NEW set, SetInv(set), Numbered(set),
         NEW list \in Seq(Block), Len(list) = set.valid_count,
         \A i \in Valid(set) : list[Age(set, i)] = Content(set, i)
  PROVE  ListOf(set) = list
<1> DEFINE n == set.valid_count
           l == ListOf(set)
<1>1. /\ l \in Seq(Block) /\ Len(l) = n
      /\ \A i \in Valid(set) : l[Age(set, i)] = Content(set, i)
  BY ListHasAges
<1>2. \A k \in 1 .. n : \E i \in Valid(set) : Age(set, i) = k
  BY DEF Numbered
<1> HIDE DEF n, l
<1>3. \A k \in 1 .. n : l[k] = list[k]
  BY <1>1, <1>2
<1>4. Len(list) = n
  BY DEF n
<1> QED
  BY <1>1, <1>3, <1>4 DEF l

-----------------------------------------------------------------------------
(* Both specifications mean the same by an address and a configuration.    *)
LEMMA SameGeometry ==
  /\ Abstract!CacheConfig = CacheConfig
  /\ \A c : (Abstract!Accepted(c) <=> Accepted(c)) /\ Abstract!SetSpan(c) = SetSpan(c)
            /\ Abstract!SetIndex(c) = SetIndex(c)
  /\ \A c, a : Abstract!get_tag(c, a) = get_tag(c, a) /\ Abstract!get_index(c, a) = get_index(c, a)
<1>1. Abstract!CacheConfig = CacheConfig
  BY DEF Abstract!CacheConfig, CacheConfig
<1>2. \A n : Abstract!is_power_of_2(n) <=> is_power_of_2(n)
  BY DEF Abstract!is_power_of_2, is_power_of_2, Abstract!PowerOf2, PowerOf2
<1>3. \A c : Abstract!Accepted(c) <=> Accepted(c)
  BY <1>2 DEF Abstract!Accepted, Accepted
<1>4. \A c : Abstract!SetSpan(c) = SetSpan(c) /\ Abstract!SetIndex(c) = SetIndex(c)
  BY DEF Abstract!SetSpan, SetSpan, Abstract!SetIndex, SetIndex
<1>5. \A c, a : /\ Abstract!get_tag(c, a) = get_tag(c, a)
                /\ Abstract!get_index(c, a) = get_index(c, a)
  BY <1>4 DEF Abstract!get_tag, get_tag, Abstract!get_index, get_index
<1> QED
  BY <1>1, <1>3, <1>4, <1>5

(* find_hit() finds the one slot that holds the tag.                       *)
LEMMA FindHit ==
  ASSUME NEW set, NEW tag, Hit(set, tag)
  PROVE  find_hit(set, tag) \in Valid(set) /\ set.slots[find_hit(set, tag)].tag = tag
<1> DEFINE T == { i \in Valid(set) : set.slots[i].tag = tag }
<1>1. T \in SUBSET Nat /\ T # {}
  BY DEF Hit, Valid
<1>2. \E m \in T : \A i \in T : m <= i
  BY <1>1, LeastNumber
<1> QED
  BY <1>2 DEF find_hit

LEMMA HeldIsHit ==
  ASSUME ConfigOK, NEW set, SetInv(set), Numbered(set), NEW tag
  PROVE  Abstract!Held(ListOf(set), tag) <=> Hit(set, tag)
<1> DEFINE l == ListOf(set)
<1>1. /\ l \in Seq(Block) /\ Len(l) = set.valid_count
      /\ \A i \in Valid(set) : l[Age(set, i)] = Content(set, i)
  BY ListHasAges
<1>2. DOMAIN l = 1 .. set.valid_count
  BY <1>1
<1>3. /\ \A j \in Valid(set) : Age(set, j) \in 1 .. set.valid_count
      /\ \A k \in 1 .. set.valid_count : \E j \in Valid(set) : Age(set, j) = k
      /\ \A j : Content(set, j).tag = set.slots[j].tag
  BY DEF Numbered, Content
<1> HIDE DEF l
<1>4. ASSUME Hit(set, tag) PROVE Abstract!Held(l, tag)
  <2>1. PICK i \in Valid(set) : set.slots[i].tag = tag
    BY <1>4 DEF Hit
  <2>2. Age(set, i) \in DOMAIN l /\ l[Age(set, i)].tag = tag
    BY <1>1, <1>2, <1>3, <2>1
  <2> QED
    BY <2>2 DEF Abstract!Held
<1>5. ASSUME Abstract!Held(l, tag) PROVE Hit(set, tag)
  <2>1. PICK k \in DOMAIN l : l[k].tag = tag
    BY <1>5 DEF Abstract!Held
  <2>2. PICK i \in Valid(set) : Age(set, i) = k
    BY <1>2, <1>3, <2>1
  <2>3. set.slots[i].tag = tag
    BY <1>1, <1>3, <2>1, <2>2
  <2> QED
    BY <2>3 DEF Hit
<1> QED
  BY <1>4, <1>5 DEF l

LEMMA PlaceIsAge ==
  ASSUME ConfigOK, NEW set, SetInv(set), Numbered(set), NEW i \in Valid(set)
  PROVE  Abstract!Place(ListOf(set), set.slots[i].tag) = Age(set, i)
<1> DEFINE l == ListOf(set)
           tag == set.slots[i].tag
<1>1. /\ l \in Seq(Block) /\ Len(l) = set.valid_count
      /\ \A j \in Valid(set) : l[Age(set, j)] = Content(set, j)
  BY ListHasAges
<1>2. DOMAIN l = 1 .. set.valid_count
  BY <1>1
<1>3. /\ \A j \in Valid(set) : Age(set, j) \in 1 .. set.valid_count
      /\ \A k \in 1 .. set.valid_count : \E j \in Valid(set) : Age(set, j) = k
      /\ \A j : Content(set, j).tag = set.slots[j].tag
  BY DEF Numbered, Content
<1> HIDE DEF l
<1>4. Age(set, i) \in DOMAIN l /\ l[Age(set, i)].tag = tag
  BY <1>1, <1>2, <1>3 DEF tag
<1>5. ASSUME NEW k \in DOMAIN l, l[k].tag = tag PROVE k = Age(set, i)
  <2>1. PICK j \in Valid(set) : Age(set, j) = k
    BY <1>2, <1>3
  <2>2. set.slots[j].tag = tag
    BY <1>1, <1>3, <1>5, <2>1
  <2>3. j = i
    BY <2>2 DEF SetInv, DistinctIn, tag
  <2> QED
    BY <2>1, <2>3
<1>6. Abstract!Place(l, tag) = CHOOSE k \in DOMAIN l : l[k].tag = tag
  BY DEF Abstract!Place
<1> HIDE DEF tag
<1> QED
  BY <1>4, <1>5, <1>6 DEF l, tag

(* The elements of a list after one was moved to the front.                *)
LEMMA Front ==
  ASSUME NEW S, NEW list \in Seq(S), NEW b \in S, NEW k \in 1 .. Len(list)
  PROVE  LET new == <<b>> \o SubSeq(list, 1, k - 1) \o SubSeq(list, k + 1, Len(list)) IN
         /\ new \in Seq(S) /\ Len(new) = Len(list) /\ new[1] = b
         /\ \A j \in 1 .. (k - 1) : new[j + 1] = list[j]
         /\ \A j \in (k + 1) .. Len(list) : new[j] = list[j]
<1> DEFINE n == Len(list)
           l == SubSeq(list, 1, k - 1)
           r == SubSeq(list, k + 1, n)
           f == <<b>> \o l
           new == f \o r
<1>1. n \in Nat /\ k \in Int /\ 1 <= k /\ k <= n
  OBVIOUS
<1>2. /\ l \in Seq(S) /\ Len(l) = k - 1
      /\ \A j \in 1 .. (k - 1) : l[j] = list[j]
  BY <1>1
<1>3. /\ r \in Seq(S) /\ Len(r) = n - k
      /\ \A j \in 1 .. (n - k) : r[j] = list[j + k]
  BY <1>1
<1> HIDE DEF n, l, r
<1>4. /\ f \in Seq(S) /\ Len(f) = k /\ f[1] = b
      /\ \A j \in 1 .. (k - 1) : f[j + 1] = list[j]
  <2>1. <<b>> \in Seq(S) /\ Len(<<b>>) = 1 /\ <<b>>[1] = b
    OBVIOUS
  <2>2. f \in Seq(S) /\ Len(f) = k
    BY <1>1, <1>2, <2>1
  <2>3. f[1] = b
    BY <1>1, <1>2, <2>1
  <2>4. \A j \in 1 .. (k - 1) : f[j + 1] = list[j]
    BY <1>1, <1>2, <2>1
  <2> QED
    BY <2>2, <2>3, <2>4
<1> HIDE DEF f
<1>5. new \in Seq(S) /\ Len(new) = n
  <2>1. f \in Seq(S) /\ r \in Seq(S)
    BY <1>3, <1>4
  <2>2. new \in Seq(S)
    BY <2>1
  <2>3. Len(new) = Len(f) + Len(r)
    BY <2>1
  <2> QED
    BY <1>1, <1>3, <1>4, <2>2, <2>3
<1>6. \A j \in 1 .. k : new[j] = f[j]
  BY <1>1, <1>3, <1>4
<1>7. \A j \in (k + 1) .. n : new[j] = list[j]
  <2> SUFFICES ASSUME NEW j \in (k + 1) .. n PROVE new[j] = list[j]
    OBVIOUS
  <2>1. new[j] = r[j - k] /\ j - k \in 1 .. (n - k)
    BY <1>1, <1>3, <1>4
  <2> QED
    BY <1>1, <1>3, <2>1
<1>8. new[1] = b /\ \A j \in 1 .. (k - 1) : new[j + 1] = list[j]
  BY <1>1, <1>4, <1>6
<1> QED
  BY <1>5, <1>7, <1>8 DEF n, l, r, f

LEMMA InFront ==
  ASSUME NEW S, NEW list \in Seq(S), NEW b \in S
  PROVE  LET new == <<b>> \o list IN
         /\ new \in Seq(S) /\ Len(new) = Len(list) + 1 /\ new[1] = b
         /\ \A j \in 1 .. Len(list) : new[j + 1] = list[j]
<1>1. <<b>> \in Seq(S) /\ Len(<<b>>) = 1 /\ <<b>>[1] = b /\ Len(list) \in Nat
  OBVIOUS
<1> QED
  BY <1>1

-----------------------------------------------------------------------------
(* A hit on slot i renews the block in the abstract list.                  *)
LEMMA HitTouches ==
  ASSUME ConfigOK, NEW set, SetInv(set), Numbered(set), NEW i \in Valid(set),
         NEW dirty \in BOOLEAN,
         NEW new, SetInv(new), Numbered(new), new.valid_count = set.valid_count,
         \A j \in Valid(set) :
           Content(new, j) = IF j = i THEN [tag |-> set.slots[i].tag,
                                            dirty |-> set.slots[i].dirty \/ dirty]
                             ELSE Content(set, j),
         config.is_lru => \A j \in Valid(set) :
           Age(new, j) = IF j = i THEN 1
                         ELSE IF Age(set, j) < Age(set, i) THEN Age(set, j) + 1
                         ELSE Age(set, j),
         ~config.is_lru => \A j \in Valid(set) : Age(new, j) = Age(set, j)
  PROVE  ListOf(new) = Abstract!Touched(ListOf(set), set.slots[i].tag, dirty)
<1> DEFINE l == ListOf(set)
           n == set.valid_count
           tag == set.slots[i].tag
           k == Age(set, i)
           b == [tag |-> tag, dirty |-> set.slots[i].dirty \/ dirty]
           front == <<b>> \o SubSeq(l, 1, k - 1) \o SubSeq(l, k + 1, Len(l))
           in_place == [l EXCEPT ![k] = b]
<1>1. /\ l \in Seq(Block) /\ Len(l) = n /\ \A j \in Valid(set) : l[Age(set, j)] = Content(set, j)
      /\ Abstract!Place(l, tag) = k
  BY ListHasAges, PlaceIsAge
<1>2. /\ k \in 1 .. n /\ n \in Nat /\ Valid(new) = Valid(set)
      /\ \A j \in Valid(set) : Age(set, j) \in 1 .. n
      /\ \A j \in Valid(set) : Age(set, j) = k => j = i
  BY DEF Numbered, Valid, SetInv, Set
<1>3. b \in Block
  <2>1. new.slots[i] \in Slot /\ Content(new, i) = b
    <3>1. /\ new.valid_count \in 0 .. config.num_blocks /\ config.num_blocks \in Nat
          /\ new.slots \in [0 .. (config.num_blocks - 1) -> Slot] /\ i \in Valid(new)
      BY <1>2, ConfigBounds DEF SetInv, Set
    <3> QED
      BY <3>1 DEF Valid
  <2> QED
    BY <2>1 DEF Content, Block, Slot
<1>4. l[k].dirty = set.slots[i].dirty
  <2>1. l[k] = Content(set, i)
    BY <1>1
  <2> QED
    BY <2>1 DEF Content
<1>5. Abstract!Touched(l, tag, dirty) = IF config.is_lru THEN front ELSE in_place
  BY <1>1, <1>4 DEF Abstract!Touched
<1>6. \A j \in Valid(set) : Content(new, j) = IF j = i THEN b ELSE Content(set, j)
  OBVIOUS
<1> HIDE DEF l, n, tag, k, b
<1>7. CASE config.is_lru
  <2>1. /\ front \in Seq(Block) /\ Len(front) = n /\ front[1] = b
        /\ \A j \in 1 .. (k - 1) : front[j + 1] = l[j]
        /\ \A j \in (k + 1) .. n : front[j] = l[j]
    BY <1>1, <1>2, <1>3, Front
  <2> HIDE DEF front
  <2>2. ASSUME NEW j \in Valid(new) PROVE front[Age(new, j)] = Content(new, j)
    <3>1. j \in Valid(set) /\ Age(set, j) \in 1 .. n /\ l[Age(set, j)] = Content(set, j)
      BY <1>1, <1>2
    <3>2. Age(new, j) = IF j = i THEN 1
                        ELSE IF Age(set, j) < k THEN Age(set, j) + 1 ELSE Age(set, j)
      BY <1>7, <3>1 DEF k
    <3>3. j # i => Age(set, j) # k
      BY <1>2, <3>1
    <3>4. CASE j = i
      BY <1>6, <2>1, <3>1, <3>2, <3>4
    <3>5. CASE j # i /\ Age(set, j) < k
      <4>1. Age(set, j) \in 1 .. (k - 1)
        BY <1>2, <3>1, <3>5
      <4> QED
        BY <1>6, <2>1, <3>1, <3>2, <3>5, <4>1
    <3>6. CASE j # i /\ ~(Age(set, j) < k)
      <4>1. Age(set, j) \in (k + 1) .. n
        BY <1>2, <3>1, <3>3, <3>6
      <4> QED
        BY <1>6, <2>1, <3>1, <3>2, <3>6, <4>1
    <3> QED
      BY <3>4, <3>5, <3>6
  <2>3. Len(front) = new.valid_count
    BY <2>1 DEF n
  <2>4. ListOf(new) = front
    BY <2>1, <2>2, <2>3, ListIs
  <2> QED
    BY <1>5, <1>7, <2>4 DEF l, tag
<1>8. CASE ~config.is_lru
  <2>1. /\ in_place \in Seq(Block) /\ Len(in_place) = n
        /\ \A j \in 1 .. n : in_place[j] = IF j = k THEN b ELSE l[j]
    BY <1>1, <1>2, <1>3
  <2> HIDE DEF in_place
  <2>2. ASSUME NEW j \in Valid(new) PROVE in_place[Age(new, j)] = Content(new, j)
    <3>1. /\ j \in Valid(set) /\ Age(set, j) \in 1 .. n /\ l[Age(set, j)] = Content(set, j)
          /\ Age(new, j) = Age(set, j)
      BY <1>1, <1>2, <1>8
    <3>2. (j = i) <=> (Age(set, j) = k)
      BY <1>2, <3>1 DEF k
    <3> QED
      BY <1>6, <2>1, <3>1, <3>2
  <2>3. Len(in_place) = new.valid_count
    BY <2>1 DEF n
  <2>4. ListOf(new) = in_place
    BY <2>1, <2>2, <2>3, ListIs
  <2> QED
    BY <1>5, <1>8, <2>4 DEF l, tag
<1> QED
  BY <1>7, <1>8

(* A miss inserts the block, dropping the last of a full list.             *)
LEMMA MissInserts ==
  ASSUME ConfigOK, NEW set, SetInv(set), Numbered(set),
         NEW tag \in 0 .. (Word - 1), ~Hit(set, tag),
         NEW dirty \in BOOLEAN, dirty => ~config.write_through,
         Unwrapped(set)
  PROVE  ListOf(Filled(set, tag, dirty)) = Abstract!Inserted(ListOf(set), tag, dirty)
<1> DEFINE l == ListOf(set)
           n == set.valid_count
           new == Filled(set, tag, dirty)
           v == find_victim_slot(set)
           b == [tag |-> tag, dirty |-> dirty]
           rest == IF IsFull(set) THEN SubSeq(l, 1, n - 1) ELSE l
           list == <<b>> \o rest
<1>1. /\ l \in Seq(Block) /\ Len(l) = n /\ \A j \in Valid(set) : l[Age(set, j)] = Content(set, j)
      /\ n \in Nat
  BY ListHasAges DEF SetInv, Set
<1>2. SetInv(new) /\ Numbered(new) /\ Valid(new) = Valid(set) \cup {v}
  BY FilledKeepsInv, FilledKeepsNumbers
<1>3. /\ new.valid_count = CountAfterFill(set)
      /\ Content(new, v) = b /\ Age(new, v) = 1
      /\ \A j \in Valid(set) \ {v} :
           Content(new, j) = Content(set, j) /\ Age(new, j) = Age(set, j) + 1
      /\ IsFull(set) => v \in Valid(set) /\ Age(set, v) = n
      /\ ~IsFull(set) => v \notin Valid(set)
  BY FilledAges
<1>4. /\ \A j \in Valid(set) : Age(set, j) \in 1 .. n
      /\ \A j, k \in Valid(set) : Age(set, j) = Age(set, k) => j = k
  BY DEF Numbered
<1>5. Abstract!Inserted(l, tag, dirty) = list
  BY <1>1 DEF Abstract!Inserted, Abstract!Full, IsFull
<1>6. b \in Block
  BY DEF Block
<1> HIDE DEF l, n, v, new
<1>7. /\ rest \in Seq(Block) /\ Len(rest) + 1 = CountAfterFill(set)
      /\ \A j \in 1 .. Len(rest) : rest[j] = l[j]
  <2>1. CASE IsFull(set)
    <3>1. n >= 1 /\ CountAfterFill(set) = n
      BY <1>1, <1>3, <1>4, <2>1 DEF CountAfterFill, n
    <3> QED
      BY <1>1, <2>1, <3>1
  <2>2. CASE ~IsFull(set)
    BY <1>1, <2>2 DEF CountAfterFill, n
  <2> QED
    BY <2>1, <2>2
<1>8. \A j \in Valid(set) \ {v} : Age(set, j) \in 1 .. Len(rest)
  <2> SUFFICES ASSUME NEW j \in Valid(set) \ {v} PROVE Age(set, j) \in 1 .. Len(rest)
    OBVIOUS
  <2>1. IsFull(set) => Age(set, j) # n
    BY <1>3, <1>4
  <2>2. Len(rest) = IF IsFull(set) THEN n - 1 ELSE n
    BY <1>1, <1>7 DEF CountAfterFill, n
  <2> QED
    BY <1>1, <1>4, <2>1, <2>2
<1> HIDE DEF rest, b
<1>9. /\ list \in Seq(Block) /\ Len(list) = CountAfterFill(set) /\ list[1] = b
      /\ \A j \in 1 .. Len(rest) : list[j + 1] = l[j]
  BY <1>6, <1>7, InFront
<1> HIDE DEF list
<1>10. ASSUME NEW j \in Valid(new) PROVE list[Age(new, j)] = Content(new, j)
  <2>1. CASE j = v
    BY <1>3, <1>9, <2>1
  <2>2. CASE j # v
    <3>1. j \in Valid(set) \ {v}
      BY <1>2, <2>2
    <3> QED
      BY <1>1, <1>3, <1>8, <1>9, <3>1
  <2> QED
    BY <2>1, <2>2
<1>11. ListOf(new) = list
  BY <1>2, <1>3, <1>9, <1>10, ListIs
<1> QED
  BY <1>5, <1>11 DEF l, new

-----------------------------------------------------------------------------
(* The block a miss writes back is the last of the full abstract list.     *)
LEMMA SameWriteback ==
  ASSUME ConfigOK, NEW set, SetInv(set), Numbered(set)
  PROVE  Writeback(set)
           <=> Abstract!Full(ListOf(set)) /\ ListOf(set)[Len(ListOf(set))].dirty
<1> DEFINE l == ListOf(set)
           n == set.valid_count
           v == find_victim_slot(set)
<1>1. /\ Len(l) = n /\ \A j \in Valid(set) : l[Age(set, j)] = Content(set, j)
      /\ n \in Nat
  BY ListHasAges DEF SetInv, Set
<1>2. /\ v \in 0 .. (config.num_blocks - 1)
      /\ IsFull(set) => v \in Valid(set) /\ Age(set, v) = n
      /\ ~IsFull(set) => v \notin Valid(set)
  BY VictimProperties, VictimIsOldest DEF SetInv
<1>3. v \in DOMAIN set.slots
  BY <1>2 DEF SetInv, Set
<1>4. set.slots[v].dirty => ~config.write_through /\ v \in Valid(set)
  BY <1>3 DEF SetInv, CleanIn
<1>5. Abstract!Full(l) <=> IsFull(set)
  BY <1>1 DEF Abstract!Full, IsFull
<1>6. IsFull(set) => l[Len(l)].dirty = set.slots[v].dirty
  <2>1. IsFull(set) => l[Len(l)] = Content(set, v)
    BY <1>1, <1>2
  <2> HIDE DEF l, v
  <2>2. Content(set, v).dirty = set.slots[v].dirty
    BY DEF Content
  <2> QED
    BY <2>1, <2>2
<1> HIDE DEF l, v
<1> QED
  BY <1>2, <1>4, <1>5, <1>6 DEF Writeback, l, v

-----------------------------------------------------------------------------
(* One access changes one set, and the rest keep their ages.               *)
LEMMA OneSetAges ==
  ASSUME IInv, AgesInv, NEW s \in SetIndex(config), NEW new, Numbered(new),
         \/ /\ new.fifo_counter = sets[s].fifo_counter
            /\ config.is_lru \/ new.valid_count = sets[s].valid_count
         \/ /\ new.fifo_counter = sets[s].fifo_counter + 1
            /\ new.valid_count \in {sets[s].valid_count, sets[s].valid_count + 1},
         sets' = [sets EXCEPT ![s] = new], config' = config, Accesses' = Accesses + 1
  PROVE  AgesInv'
<1>1. \A x \in SetIndex(config) : sets'[x] = IF x = s THEN new ELSE sets[x]
  BY DEF IInv, TypeOK
<1>2. \A x : Numbered(x)' <=> Numbered(x)
  BY DEF Numbered, Age, Valid
<1>3. \A x \in SetIndex(config) : Numbered(sets'[x])
  BY <1>1 DEF AgesInv
<1>4. ASSUME NEW x \in SetIndex(config)
      PROVE  \E garbage \in FifoCounters :
               /\ sets'[x].fifo_counter \in garbage .. (garbage + Accesses')
               /\ ~config.is_lru => sets'[x].fifo_counter >= garbage + sets'[x].valid_count
  <2>1. PICK garbage \in FifoCounters :
          /\ sets[x].fifo_counter \in garbage .. (garbage + Accesses)
          /\ ~config.is_lru => sets[x].fifo_counter >= garbage + sets[x].valid_count
    BY DEF AgesInv, Counted
  <2>2. \/ /\ sets'[x].fifo_counter = sets[x].fifo_counter
           /\ config.is_lru \/ sets'[x].valid_count = sets[x].valid_count
        \/ /\ sets'[x].fifo_counter = sets[x].fifo_counter + 1
           /\ sets'[x].valid_count \in {sets[x].valid_count, sets[x].valid_count + 1}
    BY <1>1
  <2>3. garbage \in Nat /\ Accesses \in Nat /\ sets[x].valid_count \in Int
    <3>1. sets[x] \in Set
      BY DEF IInv, TypeOK
    <3> QED
      BY <3>1, CacheAssumption DEF Accesses, IInv, TypeOK, CacheStats, Counter, Set
  <2>4. /\ sets'[x].fifo_counter \in garbage .. (garbage + Accesses')
        /\ ~config.is_lru => sets'[x].fifo_counter >= garbage + sets'[x].valid_count
    BY <2>1, <2>2, <2>3
  <2> QED
    BY <2>4
<1> QED
  BY <1>2, <1>3, <1>4 DEF AgesInv, Counted

LEMMA OneListChanges ==
  ASSUME IInv, NEW s \in SetIndex(config), NEW new,
         sets' = [sets EXCEPT ![s] = new], config' = config
  PROVE  [x \in SetIndex(config) |-> ListOf(sets[x])]'
           = [[x \in SetIndex(config) |-> ListOf(sets[x])] EXCEPT ![s] = ListOf(new)]
<1>1. \A x \in SetIndex(config) : sets'[x] = IF x = s THEN new ELSE sets[x]
  BY DEF IInv, TypeOK
<1>2. \A x : ListOf(x)' = ListOf(x)
  BY DEF ListOf, Age, Valid
<1>3. \A x \in SetIndex(config) : ListOf(sets[x])' = ListOf(IF x = s THEN new ELSE sets[x])
  BY <1>1, <1>2
<1> QED
  BY <1>3

LEMMA NextRemainder ==
  ASSUME NEW w \in Nat \ {0}, NEW g \in Nat, NEW d \in Nat \ {0}, (g % w) + d < w,
         NEW n \in Nat, n = g + d
  PROVE  n % w = ((n - 1) % w) + 1
<1> DEFINE q == g \div w
           r == g % w
<1>1. q \in Nat /\ r \in 0 .. (w - 1) /\ g = (w * q) + r
  BY Division
<1>2. r + d < w
  OBVIOUS
<1> HIDE DEF q, r
<1>3. /\ r + d \in 0 .. (w - 1) /\ r + d - 1 \in 0 .. (w - 1) /\ w * q \in Nat
      /\ n = (w * q) + (r + d) /\ n - 1 = (w * q) + (r + d - 1)
  BY <1>1, <1>2, ProductOrder
<1>4. n % w = r + d /\ (n - 1) % w = r + d - 1
  <2>1. ((w * q) + (r + d)) % w = r + d /\ ((w * q) + (r + d - 1)) % w = r + d - 1
    BY <1>1, <1>3, DivisionUnique
  <2> QED
    BY <1>3, <2>1, Zenon
<1> QED
  BY <1>1, <1>4

LEMMA NoWrapYet ==
  ASSUME IInv, AgesInv, Fits, Ready, NEW s \in SetIndex(config)
  PROVE  Unwrapped(sets[s])
<1> SUFFICES ASSUME ~config.is_lru, sets[s].valid_count > 0
             PROVE  sets[s].fifo_counter % Word = ((sets[s].fifo_counter - 1) % Word) + 1
  BY DEF Unwrapped
<1>1. PICK garbage \in FifoCounters :
        /\ sets[s].fifo_counter \in garbage .. (garbage + Accesses)
        /\ sets[s].fifo_counter >= garbage + sets[s].valid_count
  BY DEF AgesInv, Counted
<1>2. /\ garbage \in Nat /\ Accesses \in Nat /\ MaxAccesses \in Nat /\ Word \in Nat \ {0}
      /\ Accesses < MaxAccesses
  BY CacheAssumption, GeometryAssumption DEF Accesses, IInv, TypeOK, CacheStats, Counter, Ready
<1> DEFINE d == sets[s].fifo_counter - garbage
<1>3. sets[s] \in Set
  BY DEF IInv, TypeOK
<1>4. sets[s].fifo_counter \in Nat
  BY <1>3 DEF Set
<1>5. d \in Nat \ {0} /\ d <= Accesses /\ sets[s].fifo_counter = garbage + d
  BY <1>1, <1>2, <1>3 DEF Set
<1> HIDE DEF d
<1>6. (garbage % Word) + MaxAccesses <= Word /\ garbage % Word \in Nat
  BY <1>2, Division DEF Fits
<1>7. (garbage % Word) + d < Word
  BY <1>2, <1>5, <1>6
<1> QED
  BY <1>2, <1>4, <1>5, <1>7, NextRemainder

LEMMA FillCycles ==
  ASSUME ConfigOK, NEW set, SetInv(set), Numbered(set), NEW c \in Nat
  PROVE  /\ c + LoadMissCycles(set) = c + 1 + Abstract!FillCycles(ListOf(set), Abstract!LoadedBlock)
         /\ config.write_allocate =>
              c + SaveMissCycles(set)
                = c + Abstract!FillCycles(ListOf(set), Abstract!StoredBlock) + Abstract!StoreCycles
<1> DEFINE L == Abstract!LoadedBlock
           U == Abstract!StoredBlock
<1>1. LoadTransfer = L /\ SaveTransfer = U /\ L \in Nat /\ U \in Nat
  BY TransferTimes DEF Abstract!LoadedBlock, Abstract!StoredBlock, Loaded, Stored
<1> HIDE DEF L, U
<1>2. \A transfer : Abstract!FillCycles(ListOf(set), transfer)
                     = transfer + IF Writeback(set) THEN transfer ELSE 0
  BY SameWriteback DEF Abstract!FillCycles
<1>3. c + LoadMissCycles(set) = c + 1 + Abstract!FillCycles(ListOf(set), L)
  BY <1>1, <1>2 DEF LoadMissCycles
<1>4. config.write_allocate =>
        c + SaveMissCycles(set) = c + Abstract!FillCycles(ListOf(set), U) + Abstract!StoreCycles
  BY <1>1, <1>2 DEF SaveMissCycles, Abstract!StoreCycles
<1> QED
  BY <1>3, <1>4 DEF L, U

LEMMA StoreTimes ==
  ASSUME ConfigOK
  PROVE  /\ SaveHitCycles = Abstract!StoreCycles
         /\ ~config.write_allocate => Abstract!StoreCycles = 100
BY DEF SaveHitCycles, Abstract!StoreCycles, ConfigOK, Accepted

-----------------------------------------------------------------------------
(* The accesses, one by one: each keeps the ages and is the abstract one.  *)
Lists == [x \in SetIndex(config) |-> ListOf(sets[x])]

LEMMA AccessFacts ==
  ASSUME IInv, AgesInv, Fits, Ready, NEW address \in Addresses
  PROVE  /\ ConfigOK
         /\ get_index(config, address) \in SetIndex(config)
         /\ get_tag(config, address) \in 0 .. (Word - 1)
         /\ SetInv(sets[get_index(config, address)])
         /\ Numbered(sets[get_index(config, address)])
         /\ Abstract!get_index(config, address) = get_index(config, address)
         /\ Abstract!get_tag(config, address) = get_tag(config, address)
         /\ Lists[get_index(config, address)] = ListOf(sets[get_index(config, address)])
         /\ stats.total_cycles \in Nat /\ stats \in CacheStats
<1>1. ConfigOK
  BY DEF IInv, TypeOK, ConfigOK
<1>2. /\ get_index(config, address) \in SetIndex(config)
      /\ get_tag(config, address) \in 0 .. (Word - 1)
  BY <1>1, AddressParts DEF Ready
<1> QED
  BY <1>1, <1>2, SameGeometry DEF IInv, TypeOK, AgesInv, Lists, CacheStats

LEMMA Counting ==
  ASSUME stats \in CacheStats, NEW n
  PROVE  /\ stats' = [stats EXCEPT !.total_loads = @ + 1, !.load_hits = @ + 1,
                                   !.total_cycles = n] => Accesses' = Accesses + 1
         /\ stats' = [stats EXCEPT !.total_loads = @ + 1, !.load_misses = @ + 1,
                                   !.total_cycles = n] => Accesses' = Accesses + 1
         /\ stats' = [stats EXCEPT !.total_stores = @ + 1, !.store_hits = @ + 1,
                                   !.total_cycles = n] => Accesses' = Accesses + 1
         /\ stats' = [stats EXCEPT !.total_stores = @ + 1, !.store_misses = @ + 1,
                                   !.total_cycles = n] => Accesses' = Accesses + 1
<1>1. stats.total_loads \in Nat /\ stats.total_stores \in Nat
  BY DEF CacheStats, Counter
<1>2. ASSUME stats' = [stats EXCEPT !.total_loads = @ + 1, !.load_hits = @ + 1, !.total_cycles = n]
      PROVE  Accesses' = Accesses + 1
  <2>1. stats'.total_loads = stats.total_loads + 1 /\ stats'.total_stores = stats.total_stores
    BY <1>2 DEF CacheStats
  <2> QED
    BY <1>1, <2>1 DEF Accesses
<1>3. ASSUME stats' = [stats EXCEPT !.total_loads = @ + 1, !.load_misses = @ + 1, !.total_cycles = n]
      PROVE  Accesses' = Accesses + 1
  <2>1. stats'.total_loads = stats.total_loads + 1 /\ stats'.total_stores = stats.total_stores
    BY <1>3 DEF CacheStats
  <2> QED
    BY <1>1, <2>1 DEF Accesses
<1>4. ASSUME stats' = [stats EXCEPT !.total_stores = @ + 1, !.store_hits = @ + 1, !.total_cycles = n]
      PROVE  Accesses' = Accesses + 1
  <2>1. stats'.total_stores = stats.total_stores + 1 /\ stats'.total_loads = stats.total_loads
    BY <1>4 DEF CacheStats
  <2> QED
    BY <1>1, <2>1 DEF Accesses
<1>5. ASSUME stats' = [stats EXCEPT !.total_stores = @ + 1, !.store_misses = @ + 1, !.total_cycles = n]
      PROVE  Accesses' = Accesses + 1
  <2>1. stats'.total_stores = stats.total_stores + 1 /\ stats'.total_loads = stats.total_loads
    BY <1>5 DEF CacheStats
  <2> QED
    BY <1>1, <2>1 DEF Accesses
<1> QED
  BY <1>2, <1>3, <1>4, <1>5

LEMMA LoadHitImplements ==
  ASSUME IInv, AgesInv, Fits, NEW address \in Addresses, LoadHit(address)
  PROVE  AgesInv' /\ Abstract!Load(address)
<1> DEFINE s == get_index(config, address)
           tag == get_tag(config, address)
           set == sets[s]
           i == find_hit(set, tag)
           new == Renewed(set, i)
<1>1. /\ ConfigOK /\ s \in SetIndex(config) /\ SetInv(set) /\ Numbered(set)
      /\ Abstract!get_index(config, address) = s /\ Abstract!get_tag(config, address) = tag
      /\ Lists[s] = ListOf(set) /\ stats.total_cycles \in Nat /\ stats \in CacheStats
  BY AccessFacts DEF LoadHit
<1>2. Hit(set, tag) /\ i \in Valid(set) /\ set.slots[i].tag = tag
  BY FindHit DEF LoadHit
<1>3. sets' = [sets EXCEPT ![s] = new] /\ config' = config
  BY <1>1 DEF LoadHit, IInv, TypeOK
<1>4. SetInv(new) /\ Numbered(new)
  BY <1>1, <1>2, RenewedKeepsInv, RenewedKeepsNumbers
<1>5. /\ new.valid_count = set.valid_count /\ new.fifo_counter = set.fifo_counter
      /\ \A j \in Valid(set) : Content(new, j) = Content(set, j)
      /\ config.is_lru => \A j \in Valid(set) :
           Age(new, j) = IF j = i THEN 1
                         ELSE IF Age(set, j) < Age(set, i) THEN Age(set, j) + 1 ELSE Age(set, j)
      /\ ~config.is_lru => new = set
  BY <1>1, <1>2, RenewedAges
<1>6. Content(set, i) = [tag |-> set.slots[i].tag, dirty |-> set.slots[i].dirty \/ FALSE]
  <2>1. set.slots[i].dirty \in BOOLEAN
    <3>1. /\ set.slots \in [0 .. (config.num_blocks - 1) -> Slot]
          /\ i \in 0 .. (config.num_blocks - 1)
      BY <1>1, <1>2, ConfigBounds DEF SetInv, Set, Valid
    <3> QED
      BY <3>1 DEF Slot
  <2> HIDE DEF i, set
  <2> QED
    BY <2>1 DEF Content
<1> HIDE DEF s, tag, set, i, new
<1>7. ListOf(new) = Abstract!Touched(ListOf(set), tag, FALSE)
  <2>1. \A j \in Valid(set) :
          Content(new, j) = IF j = i THEN [tag |-> set.slots[i].tag,
                                           dirty |-> set.slots[i].dirty \/ FALSE]
                            ELSE Content(set, j)
    BY <1>5, <1>6
  <2>2. ~config.is_lru => \A j \in Valid(set) : Age(new, j) = Age(set, j)
    BY <1>5
  <2>3. ListOf(new) = Abstract!Touched(ListOf(set), set.slots[i].tag, FALSE)
    BY <1>1, <1>2, <1>4, <1>5, <2>1, <2>2, HitTouches
  <2> QED
    BY <1>2, <2>3
<1>8. Accesses' = Accesses + 1
  BY <1>1, Counting DEF LoadHit
<1>9. AgesInv'
  BY <1>1, <1>3, <1>4, <1>5, <1>8, OneSetAges DEF set
<1>10. Lists' = [Lists EXCEPT ![s] = ListOf(new)]
  BY <1>1, <1>3, OneListChanges DEF Lists
<1>11. Abstract!Held(Lists[s], tag)
  BY <1>1, <1>2, HeldIsHit
<1>12. stats' = [stats EXCEPT !.total_loads = @ + 1, !.load_hits = @ + 1,
                              !.total_cycles = @ + 1]
  BY DEF LoadHit
<1>13. Abstract!Load(address)
  BY <1>1, <1>7, <1>10, <1>11, <1>12 DEF Abstract!Load, Lists
<1> QED
  BY <1>9, <1>13

LEMMA MissImplements ==
  ASSUME IInv, AgesInv, Fits, Ready, NEW address \in Addresses,
         ~Hit(sets[get_index(config, address)], get_tag(config, address)),
         NEW dirty \in BOOLEAN, dirty => ~config.write_through,
         sets' = [sets EXCEPT ![get_index(config, address)] =
                    Filled(@, get_tag(config, address), dirty)],
         config' = config, Accesses' = Accesses + 1
  PROVE  LET s == get_index(config, address) IN
         /\ AgesInv'
         /\ ~Abstract!Held(Lists[s], get_tag(config, address))
         /\ Lists' = [Lists EXCEPT ![s] =
                        Abstract!Inserted(Lists[s], get_tag(config, address), dirty)]
<1> DEFINE s == get_index(config, address)
           tag == get_tag(config, address)
           set == sets[s]
           new == Filled(set, tag, dirty)
<1>1. /\ ConfigOK /\ s \in SetIndex(config) /\ SetInv(set) /\ Numbered(set)
      /\ tag \in 0 .. (Word - 1) /\ Lists[s] = ListOf(set)
  BY AccessFacts
<1>2. ~Hit(set, tag) /\ sets' = [sets EXCEPT ![s] = new]
  BY <1>1 DEF IInv, TypeOK
<1>3. Unwrapped(set)
  BY <1>1, NoWrapYet
<1>4. Numbered(new)
  BY <1>1, <1>3, FilledKeepsNumbers
<1>5. \/ new.fifo_counter = set.fifo_counter /\ config.is_lru
      \/ /\ new.fifo_counter = set.fifo_counter + 1
         /\ new.valid_count \in {set.valid_count, set.valid_count + 1}
  BY <1>1, <1>3, FilledAges DEF CountAfterFill
<1>6. ListOf(new) = Abstract!Inserted(ListOf(set), tag, dirty)
  BY <1>1, <1>2, <1>3, MissInserts
<1>7. ~Abstract!Held(Lists[s], tag)
  BY <1>1, <1>2, HeldIsHit
<1> HIDE DEF s, tag, new
<1>8. AgesInv'
  BY <1>1, <1>2, <1>4, <1>5, OneSetAges
<1>9. Lists' = [Lists EXCEPT ![s] = ListOf(new)]
  BY <1>1, <1>2, OneListChanges DEF Lists
<1> QED
  BY <1>1, <1>6, <1>7, <1>8, <1>9 DEF s, tag

LEMMA LoadMissImplements ==
  ASSUME IInv, AgesInv, Fits, NEW address \in Addresses, LoadMiss(address)
  PROVE  AgesInv' /\ Abstract!Load(address)
<1> DEFINE s == get_index(config, address)
           tag == get_tag(config, address)
           c == stats.total_cycles
<1>1. /\ ConfigOK /\ s \in SetIndex(config) /\ SetInv(sets[s]) /\ Numbered(sets[s])
      /\ Abstract!get_index(config, address) = s /\ Abstract!get_tag(config, address) = tag
      /\ Lists[s] = ListOf(sets[s]) /\ c \in Nat /\ stats \in CacheStats
  BY AccessFacts DEF LoadMiss
<1>2. Accesses' = Accesses + 1
  BY <1>1, Counting DEF LoadMiss
<1>3. /\ AgesInv' /\ ~Abstract!Held(Lists[s], tag)
      /\ Lists' = [Lists EXCEPT ![s] = Abstract!Inserted(Lists[s], tag, FALSE)]
  BY <1>2, MissImplements DEF LoadMiss
<1>4. c + LoadMissCycles(sets[s]) = c + 1 + Abstract!FillCycles(Lists[s], Abstract!LoadedBlock)
  BY <1>1, FillCycles
<1>5. stats' = [stats EXCEPT !.total_loads = @ + 1, !.load_misses = @ + 1,
                             !.total_cycles = c + LoadMissCycles(sets[s])]
  BY DEF LoadMiss
<1>6. stats' = [stats EXCEPT !.total_loads = @ + 1, !.load_misses = @ + 1,
                             !.total_cycles = @ + 1 + Abstract!FillCycles(Lists[s], Abstract!LoadedBlock)]
  BY <1>4, <1>5
<1> HIDE DEF s, tag, c
<1>7. Abstract!Load(address)
  BY <1>1, <1>3, <1>6 DEF Abstract!Load, Lists
<1> QED
  BY <1>3, <1>7

LEMMA SaveMissAllocateImplements ==
  ASSUME IInv, AgesInv, Fits, NEW address \in Addresses, SaveMissAllocate(address)
  PROVE  AgesInv' /\ Abstract!Save(address)
<1> DEFINE s == get_index(config, address)
           tag == get_tag(config, address)
           c == stats.total_cycles
           dirty == ~config.write_through
<1>1. /\ ConfigOK /\ s \in SetIndex(config) /\ SetInv(sets[s]) /\ Numbered(sets[s])
      /\ Abstract!get_index(config, address) = s /\ Abstract!get_tag(config, address) = tag
      /\ Lists[s] = ListOf(sets[s]) /\ c \in Nat /\ stats \in CacheStats
  BY AccessFacts DEF SaveMissAllocate
<1>2. Accesses' = Accesses + 1 /\ dirty \in BOOLEAN /\ config.write_allocate
  BY <1>1, Counting, ConfigBounds DEF SaveMissAllocate
<1>3. /\ AgesInv' /\ ~Abstract!Held(Lists[s], tag)
      /\ Lists' = [Lists EXCEPT ![s] = Abstract!Inserted(Lists[s], tag, dirty)]
  BY <1>2, MissImplements DEF SaveMissAllocate
<1>4. c + SaveMissCycles(sets[s]) = c + Abstract!FillCycles(Lists[s], Abstract!StoredBlock) + Abstract!StoreCycles
  BY <1>1, <1>2, FillCycles
<1>5. stats' = [stats EXCEPT !.total_stores = @ + 1, !.store_misses = @ + 1,
                             !.total_cycles = c + SaveMissCycles(sets[s])]
  BY DEF SaveMissAllocate
<1>6. stats' = [stats EXCEPT !.total_stores = @ + 1, !.store_misses = @ + 1,
                  !.total_cycles = @ + Abstract!FillCycles(Lists[s], Abstract!StoredBlock) + Abstract!StoreCycles]
  BY <1>4, <1>5
<1> HIDE DEF s, tag, c
<1>7. Abstract!Save(address)
  BY <1>1, <1>2, <1>3, <1>6 DEF Abstract!Save, Lists
<1> QED
  BY <1>3, <1>7

LEMMA SaveMissAroundImplements ==
  ASSUME IInv, AgesInv, Fits, NEW address \in Addresses, SaveMissAround(address)
  PROVE  AgesInv' /\ Abstract!Save(address)
<1> DEFINE s == get_index(config, address)
           tag == get_tag(config, address)
<1>1. /\ ConfigOK /\ s \in SetIndex(config) /\ SetInv(sets[s]) /\ Numbered(sets[s])
      /\ Abstract!get_index(config, address) = s /\ Abstract!get_tag(config, address) = tag
      /\ Lists[s] = ListOf(sets[s]) /\ stats \in CacheStats
  BY AccessFacts DEF SaveMissAround
<1>2. Accesses' = Accesses + 1 /\ config' = config /\ sets' = sets /\ ~config.write_allocate
  BY <1>1, Counting DEF SaveMissAround
<1>3. ~Abstract!Held(Lists[s], tag)
  BY <1>1, HeldIsHit DEF SaveMissAround
<1>4. AgesInv'
  <2>1. \A x \in SetIndex(config) : Numbered(sets[x])'
    BY <1>2 DEF AgesInv, Numbered, Age, Valid
  <2>2. ASSUME NEW x \in SetIndex(config) PROVE Counted(sets[x])'
    <3>1. PICK garbage \in FifoCounters :
            /\ sets[x].fifo_counter \in garbage .. (garbage + Accesses)
            /\ ~config.is_lru => sets[x].fifo_counter >= garbage + sets[x].valid_count
      BY DEF AgesInv, Counted
    <3>2. garbage \in Nat /\ Accesses \in Nat
      BY <1>1, CacheAssumption DEF Accesses, CacheStats, Counter
    <3>3. sets'[x].fifo_counter \in garbage .. (garbage + Accesses')
      BY <1>2, <3>1, <3>2
    <3> QED
      BY <1>2, <3>1, <3>3 DEF Counted
  <2> QED
    BY <1>2, <2>1, <2>2 DEF AgesInv
<1>5. stats' = [stats EXCEPT !.total_stores = @ + 1, !.store_misses = @ + 1,
                             !.total_cycles = @ + Abstract!StoreCycles]
  BY <1>1, <1>2, StoreTimes DEF SaveMissAround
<1>6. Lists' = Lists
  BY <1>2 DEF Lists, ListOf, Age, Valid
<1> HIDE DEF s, tag
<1>7. Abstract!Save(address)
  BY <1>1, <1>2, <1>3, <1>5, <1>6 DEF Abstract!Save, Lists
<1> QED
  BY <1>4, <1>7

LEMMA SaveHitImplements ==
  ASSUME IInv, AgesInv, Fits, NEW address \in Addresses, SaveHit(address)
  PROVE  AgesInv' /\ Abstract!Save(address)
<1> DEFINE s == get_index(config, address)
           tag == get_tag(config, address)
           set == sets[s]
           i == find_hit(set, tag)
           written == Written(set, i)
           new == Renewed(written, i)
           dirty == ~config.write_through
<1>1. /\ ConfigOK /\ s \in SetIndex(config) /\ SetInv(set) /\ Numbered(set)
      /\ Abstract!get_index(config, address) = s /\ Abstract!get_tag(config, address) = tag
      /\ Lists[s] = ListOf(set) /\ stats \in CacheStats
  BY AccessFacts DEF SaveHit
<1>2. Hit(set, tag) /\ i \in Valid(set) /\ set.slots[i].tag = tag
  BY FindHit DEF SaveHit
<1>3. sets' = [sets EXCEPT ![s] = new] /\ config' = config
  BY <1>1 DEF SaveHit, IInv, TypeOK
<1>4. /\ SetInv(written) /\ Numbered(written) /\ Valid(written) = Valid(set)
      /\ written.valid_count = set.valid_count /\ written.fifo_counter = set.fifo_counter
      /\ \A j \in Valid(set) :
           /\ Age(written, j) = Age(set, j)
           /\ Content(written, j) = IF j = i THEN [tag |-> set.slots[i].tag,
                                                   dirty |-> set.slots[i].dirty \/ dirty]
                                    ELSE Content(set, j)
  BY <1>1, <1>2, WrittenKeepsInv, WrittenKeepsNumbers, WrittenAges
<1> HIDE DEF written
<1>5. SetInv(new) /\ Numbered(new)
  BY <1>1, <1>2, <1>4, RenewedKeepsInv, RenewedKeepsNumbers
<1>6. /\ new.valid_count = written.valid_count /\ new.fifo_counter = written.fifo_counter
      /\ \A j \in Valid(written) : Content(new, j) = Content(written, j)
      /\ config.is_lru => \A j \in Valid(written) :
           Age(new, j) = IF j = i THEN 1
                         ELSE IF Age(written, j) < Age(written, i) THEN Age(written, j) + 1
                         ELSE Age(written, j)
      /\ ~config.is_lru => new = written
  BY <1>1, <1>2, <1>4, RenewedAges
<1>7. dirty \in BOOLEAN
  BY <1>1, ConfigBounds
<1> HIDE DEF s, tag, set, i, new, dirty
<1>8. ListOf(new) = Abstract!Touched(ListOf(set), tag, dirty)
  <2>1. /\ new.valid_count = set.valid_count
        /\ \A j \in Valid(set) :
             Content(new, j) = IF j = i THEN [tag |-> set.slots[i].tag,
                                              dirty |-> set.slots[i].dirty \/ dirty]
                               ELSE Content(set, j)
        /\ config.is_lru => \A j \in Valid(set) :
             Age(new, j) = IF j = i THEN 1
                           ELSE IF Age(set, j) < Age(set, i) THEN Age(set, j) + 1 ELSE Age(set, j)
        /\ ~config.is_lru => \A j \in Valid(set) : Age(new, j) = Age(set, j)
    BY <1>2, <1>4, <1>6
  <2>2. ListOf(new) = Abstract!Touched(ListOf(set), set.slots[i].tag, dirty)
    BY <1>1, <1>2, <1>5, <1>7, <2>1, HitTouches
  <2> QED
    BY <1>2, <2>2
<1>9. Accesses' = Accesses + 1
  BY <1>1, Counting DEF SaveHit
<1>10. AgesInv'
  BY <1>1, <1>3, <1>4, <1>5, <1>6, <1>9, OneSetAges DEF set
<1>11. Lists' = [Lists EXCEPT ![s] = ListOf(new)]
  BY <1>1, <1>3, OneListChanges DEF Lists
<1>12. Abstract!Held(Lists[s], tag)
  BY <1>1, <1>2, HeldIsHit
<1>13. stats' = [stats EXCEPT !.total_stores = @ + 1, !.store_hits = @ + 1,
                              !.total_cycles = @ + Abstract!StoreCycles]
  BY <1>1, StoreTimes DEF SaveHit
<1>14. Abstract!Save(address)
  BY <1>1, <1>8, <1>11, <1>12, <1>13 DEF Abstract!Save, Lists, dirty
<1> QED
  BY <1>10, <1>14

(* The simulator, with its slots, orders and counters, implements lists of *)
(* blocks in order of recency or insertion, for every configuration and,   *)
(* under FIFO, every trace that ends before the low word of fifo_counter   *)
(* wraps, whatever it started with.                                        *)
THEOREM Implements == Spec /\ Fits => ImplementsAbstractCache
<1>1. Init => AgesInv /\ Abstract!Init
  <2> SUFFICES ASSUME Init PROVE AgesInv /\ Abstract!Init
    OBVIOUS
  <2>1. PICK garbage \in FifoCounters :
          sets = [s \in SetIndex(config) |-> NewSet(config.num_blocks, garbage)]
    BY DEF Init
  <2>2. \A s \in SetIndex(config) :
          sets[s].valid_count = 0 /\ sets[s].fifo_counter = garbage /\ Valid(sets[s]) = {}
    BY <2>1 DEF NewSet, Valid
  <2>3. AgesInv
    <3>1. garbage \in Nat /\ Accesses = 0
      BY CacheAssumption DEF Init, Accesses
    <3>2. \A s \in SetIndex(config) : Counted(sets[s])
      BY <2>2, <3>1 DEF Counted
    <3>3. \A s \in SetIndex(config) : Numbered(sets[s])
      BY <2>2 DEF Numbered
    <3> QED
      BY <3>2, <3>3 DEF AgesInv
  <2>4. \A s \in SetIndex(config) : ListOf(sets[s]) = <<>>
    BY <2>2 DEF ListOf
  <2>5. Abstract!Init
    BY <2>4, SameGeometry DEF Abstract!Init, Init
  <2> QED
    BY <2>3, <2>5
<1>2. IInv /\ AgesInv /\ Fits /\ [Next]_vars
        => AgesInv' /\ Fits' /\ [Abstract!Next]_(Abstract!vars)
  <2> SUFFICES ASSUME IInv, AgesInv, Fits, [Next]_vars
               PROVE  AgesInv' /\ Fits' /\ [Abstract!Next]_(Abstract!vars)
    OBVIOUS
  <2>1. ASSUME UNCHANGED <<config, sets, stats>>
        PROVE  AgesInv' /\ Fits' /\ UNCHANGED Abstract!vars
    BY <2>1 DEF AgesInv, Numbered, Counted, Age, Valid, Accesses, Fits, Abstract!vars, ListOf
  <2>2. ASSUME NEW address \in Addresses,
               LoadHit(address) \/ LoadMiss(address) \/ SaveHit(address)
                 \/ SaveMissAround(address) \/ SaveMissAllocate(address)
        PROVE  AgesInv' /\ Fits' /\ Abstract!Next
    <3>1. config' = config /\ SetSpan(config) # 0
      BY <2>2 DEF LoadHit, LoadMiss, SaveHit, SaveMissAround, SaveMissAllocate, Ready
    <3>2. AgesInv' /\ (Abstract!Load(address) \/ Abstract!Save(address))
      BY <2>2, LoadHitImplements, LoadMissImplements, SaveHitImplements,
         SaveMissAroundImplements, SaveMissAllocateImplements
    <3>3. Abstract!SetSpan(config) # 0
      BY <3>1, SameGeometry
    <3> QED
      BY <3>1, <3>2, <3>3 DEF Fits, Abstract!Next
  <2> QED
    BY <2>1, <2>2 DEF Next, DivideByZero, vars
<1> QED
  BY <1>1, <1>2, InductiveInvariant, PTL DEF Spec, ImplementsAbstractCache, Abstract!Spec

=============================================================================
