------------------------------- MODULE Cache -------------------------------
(***************************************************************************)
(* The cache simulator of csf_assign03: Set and Cache of cache.h and       *)
(* cache.cpp, driven by main() with any trace of fewer than 2^32 loads and *)
(* stores, so that no counter of them wraps.  The field insertion_time of  *)
(* a slot is never read and left out.                                      *)
(***************************************************************************)
EXTENDS CacheGeometry, FiniteSets

CONSTANTS
  FifoCounters,  \* values the uninitialised fifo_counter may start with
  MaxAccesses    \* bound on the length of the trace

ASSUME CacheAssumption ==
  /\ FifoCounters \subseteq Nat
  /\ MaxAccesses \in 0 .. (Word - 1)

VARIABLES
  config,   \* Cache::config
  sets,     \* Cache::sets, each with its slots, valid_count and fifo_counter
  stats,    \* Cache::stats
  crashed   \* the process died of an integer division by zero

vars == <<config, sets, stats, crashed>>

(* Set( size ) is constructed once, leaves fifo_counter uninitialised, and *)
(* is copied into every set.                                               *)
NewSlot == [tag |-> 0, dirty |-> FALSE, access_order |-> 0]
NewSet(size, garbage) ==
  [slots |-> [i \in 0 .. (size - 1) |-> NewSlot],
   valid_count |-> 0,
   fifo_counter |-> garbage]

Init ==
  /\ config \in { c \in CacheConfig : Accepted(c) }
  /\ \E garbage \in FifoCounters :
       sets = [s \in SetIndex(config) |-> NewSet(config.num_blocks, garbage)]
  /\ stats = [total_loads |-> 0, total_stores |-> 0, load_hits |-> 0, load_misses |-> 0,
              store_hits |-> 0, store_misses |-> 0, total_cycles |-> 0]
  /\ crashed = FALSE

-----------------------------------------------------------------------------
Valid(set) == 0 .. (set.valid_count - 1)
(* Mutant: the search of find_hit() starts at slot 1. *)
HitPastFirst(set, tag) == \E i \in Valid(set) \ {0} : set.slots[i].tag = tag

Hit(set, tag) == \E i \in Valid(set) : set.slots[i].tag = tag
find_hit(set, tag) ==
  CHOOSE i \in Valid(set) :
    /\ set.slots[i].tag = tag
    /\ \A j \in Valid(set) : set.slots[j].tag = tag => i <= j

(* The first slot with the highest (LRU) or lowest (FIFO) order of a full  *)
(* set, else the first free slot.                                          *)
EvictedBefore(slots, i, j) ==
  IF slots[i].access_order = slots[j].access_order THEN i <= j
  ELSE IF config.is_lru THEN slots[i].access_order > slots[j].access_order
  ELSE slots[i].access_order < slots[j].access_order

IsFull(set) == set.valid_count = config.num_blocks
find_victim_slot(set) ==
  IF IsFull(set)
  THEN CHOOSE i \in Valid(set) : \A j \in Valid(set) : EvictedBefore(set.slots, i, j)
  ELSE set.valid_count

(* What becomes of valid_count in find_victim_slot().                      *)
CountAfterFill(set) == IF IsFull(set) THEN set.valid_count ELSE set.valid_count + 1

update_lru(slots, valid_count, reference) ==
  [i \in DOMAIN slots |->
    IF i < valid_count /\ slots[i].access_order < reference
    THEN [slots[i] EXCEPT !.access_order = @ + 1] ELSE slots[i]]

(* Mutant: every store marks its slot dirty. *)
WrittenDirty(set, i) == [set EXCEPT !.slots[i].dirty = TRUE]

(* A store to slot i marks it dirty only in a write-back cache.            *)
Written(set, i) == [set EXCEPT !.slots[i].dirty = @ \/ ~config.write_through]

(* Mutant: the hit slot is renewed alone. *)
RenewedAlone(set, i) ==
  IF config.is_lru THEN [set EXCEPT !.slots[i].access_order = 0] ELSE set

(* The replacement bookkeeping of a hit on slot i.                         *)
Renewed(set, i) ==
  IF config.is_lru
  THEN [set EXCEPT !.slots =
         [update_lru(@, set.valid_count, @[i].access_order) EXCEPT ![i].access_order = 0]]
  ELSE set

(* What load() and save() do to the set on a miss that fills a slot: find  *)
(* the victim, update the order, overwrite the slot.                       *)
Filled(set, tag, dirty) ==
  LET i == find_victim_slot(set)
      valid_count == CountAfterFill(set)
  IN  IF config.is_lru
      THEN [set EXCEPT !.valid_count = valid_count,
             !.slots = [update_lru(@, valid_count, config.num_blocks) EXCEPT
                         ![i] = [tag |-> tag, dirty |-> dirty, access_order |-> 0]]]
      ELSE [set EXCEPT !.valid_count = valid_count,
             !.fifo_counter = @ + 1,
             !.slots[i] = [tag |-> tag, dirty |-> dirty,
                           access_order |-> set.fifo_counter % Word]]

Writeback(set) == set.slots[find_victim_slot(set)].dirty /\ ~config.write_through

(* 100ULL * block_size / 4 in load(), 100 * block_size / 4 in save().      *)
LoadTransfer == (100 * config.block_size) \div 4
SaveTransfer == ((100 * config.block_size) % Word) \div 4

LoadMissCycles(set) ==
  (IF Writeback(set) THEN LoadTransfer ELSE 0) + 1 + LoadTransfer
SaveHitCycles ==
  IF ~config.write_through THEN 1 ELSE IF config.write_allocate THEN 101 ELSE 100
(* Mutants: the block that is read, or the one written back, costs nothing. *)
FreeFill(set) ==
  (IF Writeback(set) THEN SaveTransfer ELSE 0) + (IF config.write_through THEN 101 ELSE 1)
FreeWriteback(set) == SaveTransfer + (IF config.write_through THEN 101 ELSE 1)

SaveMissCycles(set) ==
  (IF Writeback(set) THEN SaveTransfer ELSE 0) + SaveTransfer
    + (IF config.write_through THEN 101 ELSE 1)

-----------------------------------------------------------------------------
Ready ==
  /\ ~crashed
  /\ SetSpan(config) # 0
  /\ stats.total_loads + stats.total_stores < MaxAccesses

LoadHit(address) ==
  /\ Ready
  /\ LET s == get_index(config, address)
         tag == get_tag(config, address)
     IN  /\ Hit(sets[s], tag)
         /\ sets' = [sets EXCEPT ![s] = Renewed(@, find_hit(@, tag))]
  /\ stats' = [stats EXCEPT !.total_loads = @ + 1, !.load_hits = @ + 1,
                            !.total_cycles = @ + 1]
  /\ UNCHANGED <<config, crashed>>

LoadMiss(address) ==
  /\ Ready
  /\ LET s == get_index(config, address)
         tag == get_tag(config, address)
     IN  /\ ~Hit(sets[s], tag)
         /\ sets' = [sets EXCEPT ![s] = Filled(@, tag, FALSE)]
         /\ stats' = [stats EXCEPT !.total_loads = @ + 1, !.load_misses = @ + 1,
                                   !.total_cycles = @ + LoadMissCycles(sets[s])]
  /\ UNCHANGED <<config, crashed>>

SaveHit(address) ==
  /\ Ready
  /\ LET s == get_index(config, address)
         tag == get_tag(config, address)
         i == find_hit(sets[s], tag)
     IN  /\ Hit(sets[s], tag)
         /\ sets' = [sets EXCEPT ![s] = Renewed(Written(@, i), i)]
  /\ stats' = [stats EXCEPT !.total_stores = @ + 1, !.store_hits = @ + 1,
                            !.total_cycles = @ + SaveHitCycles]
  /\ UNCHANGED <<config, crashed>>

SaveMissAround(address) ==
  /\ Ready
  /\ ~config.write_allocate
  /\ ~Hit(sets[get_index(config, address)], get_tag(config, address))
  /\ stats' = [stats EXCEPT !.total_stores = @ + 1, !.store_misses = @ + 1,
                            !.total_cycles = @ + 100]
  /\ UNCHANGED <<config, sets, crashed>>

SaveMissAllocate(address) ==
  /\ Ready
  /\ config.write_allocate
  /\ LET s == get_index(config, address)
         tag == get_tag(config, address)
     IN  /\ ~Hit(sets[s], tag)
         /\ sets' = [sets EXCEPT ![s] = Filled(@, tag, ~config.write_through)]
         /\ stats' = [stats EXCEPT !.total_stores = @ + 1, !.store_misses = @ + 1,
                                   !.total_cycles = @ + SaveMissCycles(sets[s])]
  /\ UNCHANGED <<config, crashed>>

(* get_tag() of the first access divides by a product that has wrapped to  *)
(* zero; the counters die with the process.                                *)
DivideByZero ==
  /\ ~crashed
  /\ SetSpan(config) = 0
  /\ crashed' = TRUE
  /\ UNCHANGED <<config, sets, stats>>

Next ==
  \/ \E address \in Addresses :
       \/ LoadHit(address) \/ LoadMiss(address)
       \/ SaveHit(address) \/ SaveMissAround(address) \/ SaveMissAllocate(address)
  \/ DivideByZero

Spec == Init /\ [][Next]_vars

-----------------------------------------------------------------------------
Slot == [tag : 0 .. (Word - 1), dirty : BOOLEAN, access_order : 0 .. (Word - 1)]
Set ==
  [slots : [0 .. (config.num_blocks - 1) -> Slot],
   valid_count : 0 .. config.num_blocks,
   fifo_counter : Nat]

Counter == 0 .. (Word - 1)
CacheStats ==
  [total_loads : Counter, total_stores : Counter, load_hits : Counter, load_misses : Counter,
   store_hits : Counter, store_misses : Counter, total_cycles : Nat]

TypeOK ==
  /\ config \in CacheConfig /\ Accepted(config)
  /\ sets \in [SetIndex(config) -> Set]
  /\ stats \in CacheStats
  /\ crashed \in BOOLEAN

(* No block is in the cache twice: a store can never update one copy and a *)
(* load read another, and the valid_count blocks are distinct.             *)
DistinctIn(set) ==
  \A i, j \in Valid(set) : set.slots[i].tag = set.slots[j].tag => i = j
DistinctTags == \A s \in SetIndex(config) : DistinctIn(sets[s])

(* Under LRU the valid slots of a set are numbered 0 (most recent) to      *)
(* valid_count - 1 without gap or tie, so the victim is unique.            *)
OrderedIn(set) ==
  /\ \A i \in Valid(set) : set.slots[i].access_order < set.valid_count
  /\ \A i, j \in Valid(set) :
       set.slots[i].access_order = set.slots[j].access_order => i = j
LruOrders == config.is_lru => \A s \in SetIndex(config) : OrderedIn(sets[s])

(* A block that memory already has is never written back: no slot is dirty *)
(* in a write-through cache, no free slot in any cache.                    *)
CleanWhenSynced ==
  \A s \in SetIndex(config) : \A i \in DOMAIN sets[s].slots :
    sets[s].slots[i].dirty => ~config.write_through /\ i \in Valid(sets[s])

DirtyBlocks == { x \in SetIndex(config) \X (0 .. (config.num_blocks - 1)) :
                   sets[x[1]].slots[x[2]].dirty }

(* cache.cpp:70, "memory access takes 100 cycles per 4 bytes": the cycles  *)
(* are one per cache access, 100 per store written through, and one block  *)
(* transfer per block filled or written back.  A load charges a transfer   *)
(* in full; a store charges what 32 bits hold of 100 * block_size, over 4, *)
(* which is less from blocks of 2^26 bytes on.  Each miss writes back at   *)
(* most one block, each store makes at most one dirty, and a block that is *)
(* still dirty was not written back.                                       *)
CyclesAccount ==
  LET loaded == 25 * config.block_size
      stored == ((100 * config.block_size) % Word) \div 4
      stores == stats.total_stores
      storeFills == IF config.write_allocate THEN stats.store_misses ELSE 0
      cached == stats.total_loads + IF config.write_allocate THEN stores ELSE 0
      rest == stats.total_cycles - cached - loaded * stats.load_misses - stored * storeFills
  IN  IF config.write_through THEN rest = 100 * stores
      ELSE \E byLoads \in 0 .. stats.load_misses, byStores \in 0 .. stats.store_misses :
             /\ byLoads + byStores <= stores - Cardinality(DirtyBlocks)
             /\ rest = loaded * byLoads + stored * byStores

(* Two addresses share tag and set exactly if they lie in the same block,  *)
(* and the division that makes the tag only fails if the sets span the     *)
(* address space or more.                                                  *)
SplitIsExact ==
  /\ SetSpan(config) # 0 =>
       \A a, b \in Addresses :
         (/\ get_tag(config, a) = get_tag(config, b)
          /\ get_index(config, a) = get_index(config, b))
         <=> a \div config.block_size = b \div config.block_size
  /\ crashed => config.num_sets * config.block_size >= Word

-----------------------------------------------------------------------------
(* The age of a block in use, 1 for the one used (LRU) or filled (FIFO)    *)
(* last, and the list of a set in the order of ages.  A slot has the low   *)
(* 32 bits of the fifo_counter that numbered it, the last of which was one *)
(* less than it is now.                                                    *)
Age(set, i) ==
  IF config.is_lru THEN set.slots[i].access_order + 1
  ELSE ((set.fifo_counter - 1) % Word) + 1 - set.slots[i].access_order

ListOf(set) ==
  [k \in 1 .. set.valid_count |->
    LET i == CHOOSE i \in Valid(set) : Age(set, i) = k
    IN  [tag |-> set.slots[i].tag, dirty |-> set.slots[i].dirty]]

Abstract == INSTANCE AbstractCache WITH
  blocks <- [s \in SetIndex(config) |-> ListOf(sets[s])]

(* The slots, orders and counters implement lists of blocks kept in        *)
(* recency (LRU) or insertion (FIFO) order, whatever fifo_counter started  *)
(* with, for traces in which its low 32 bits do not wrap.                  *)
ImplementsAbstractCache == Abstract!Spec
=============================================================================
