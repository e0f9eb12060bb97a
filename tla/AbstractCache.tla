--------------------------- MODULE AbstractCache ---------------------------
(***************************************************************************)
(* A set-associative cache as the simulator's options name it: every set   *)
(* is a list of blocks, the next block to be evicted last, and memory is   *)
(* charged 100 cycles per 4 bytes for every block that moves, computed in  *)
(* 32 bits if a store moves it.                                            *)
(***************************************************************************)
EXTENDS CacheGeometry, Sequences

VARIABLES
  config,  \* the accepted configuration
  blocks,  \* blocks[s]: the list of set s, records of tag and dirty
  stats    \* the counters of the report

vars == <<config, blocks, stats>>

Init ==
  /\ config \in { c \in CacheConfig : Accepted(c) }
  /\ blocks = [s \in SetIndex(config) |-> <<>>]
  /\ stats = [total_loads |-> 0, total_stores |-> 0, load_hits |-> 0, load_misses |-> 0,
              store_hits |-> 0, store_misses |-> 0, total_cycles |-> 0]

LoadedBlock == 25 * config.block_size
StoredBlock == ((100 * config.block_size) % Word) \div 4

Held(list, tag) == \E i \in DOMAIN list : list[i].tag = tag

Place(list, tag) == CHOOSE k \in DOMAIN list : list[k].tag = tag

(* A hit renews the block under LRU, a FIFO list keeps its order.          *)
Touched(list, tag, dirty) ==
  LET k == Place(list, tag)
      b == [tag |-> tag, dirty |-> list[k].dirty \/ dirty]
  IN  IF config.is_lru
      THEN <<b>> \o SubSeq(list, 1, k - 1) \o SubSeq(list, k + 1, Len(list))
      ELSE [list EXCEPT ![k] = b]

Full(list) == Len(list) = config.num_blocks
Inserted(list, tag, dirty) ==
  <<[tag |-> tag, dirty |-> dirty]>>
    \o (IF Full(list) THEN SubSeq(list, 1, Len(list) - 1) ELSE list)

(* Cycles to bring in a block, writing back the one it replaces.           *)
FillCycles(list, transfer) ==
  transfer + IF Full(list) /\ list[Len(list)].dirty THEN transfer ELSE 0

Load(address) ==
  LET s == get_index(config, address)
      tag == get_tag(config, address)
      list == blocks[s]
  IN  \/ /\ Held(list, tag)
         /\ blocks' = [blocks EXCEPT ![s] = Touched(list, tag, FALSE)]
         /\ stats' = [stats EXCEPT !.total_loads = @ + 1, !.load_hits = @ + 1,
                                   !.total_cycles = @ + 1]
      \/ /\ ~Held(list, tag)
         /\ blocks' = [blocks EXCEPT ![s] = Inserted(list, tag, FALSE)]
         /\ stats' = [stats EXCEPT !.total_loads = @ + 1, !.load_misses = @ + 1,
                                   !.total_cycles = @ + 1 + FillCycles(list, LoadedBlock)]

(* A write-through store costs a memory write, and a cache write too if    *)
(* stores are cached; a write-back store marks the block dirty.            *)
StoreCycles ==
  (IF config.write_through THEN 100 ELSE 0) + (IF config.write_allocate THEN 1 ELSE 0)

Save(address) ==
  LET s == get_index(config, address)
      tag == get_tag(config, address)
      list == blocks[s]
      dirty == ~config.write_through
  IN  \/ /\ Held(list, tag)
         /\ blocks' = [blocks EXCEPT ![s] = Touched(list, tag, dirty)]
         /\ stats' = [stats EXCEPT !.total_stores = @ + 1, !.store_hits = @ + 1,
                                   !.total_cycles = @ + StoreCycles]
      \/ /\ ~Held(list, tag)
         /\ ~config.write_allocate
         /\ stats' = [stats EXCEPT !.total_stores = @ + 1, !.store_misses = @ + 1,
                                   !.total_cycles = @ + StoreCycles]
         /\ UNCHANGED blocks
      \/ /\ ~Held(list, tag)
         /\ config.write_allocate
         /\ blocks' = [blocks EXCEPT ![s] = Inserted(list, tag, dirty)]
         /\ stats' = [stats EXCEPT !.total_stores = @ + 1, !.store_misses = @ + 1,
                                   !.total_cycles = @ + FillCycles(list, StoredBlock) + StoreCycles]

Next ==
  /\ SetSpan(config) # 0
  /\ \E address \in Addresses : Load(address) \/ Save(address)
  /\ UNCHANGED config

Spec == Init /\ [][Next]_vars
=============================================================================
