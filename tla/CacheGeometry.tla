--------------------------- MODULE CacheGeometry ---------------------------
(***************************************************************************)
(* The configuration of csf_assign03/csim: what parse_args() accepts and   *)
(* how an address is split into a tag and a set index.                     *)
(***************************************************************************)
EXTENDS Integers

CONSTANTS
  Word,      \* number of values of a uint32_t
  Sizes,     \* numbers given on the command line
  Addresses  \* addresses that occur in the trace

(* A power of two has no odd divisor but 1.                                *)
PowerOf2(n) == n > 0 /\ \A d \in 2 .. n : n % d = 0 => d % 2 = 0

ASSUME GeometryAssumption ==
  /\ Word \in Nat /\ Word > 100 /\ PowerOf2(Word)
  /\ Sizes \subseteq 0 .. (Word - 1)
  /\ Addresses \subseteq 0 .. (Word - 1)

(* The parameter is an int: the upper half of the words are negative.      *)
is_power_of_2(n) == n < Word \div 2 /\ PowerOf2(n)

CacheConfig ==
  [num_sets : Sizes, num_blocks : Sizes, block_size : Sizes,
   write_allocate : BOOLEAN, write_through : BOOLEAN, is_lru : BOOLEAN]

(* parse_args() returns true.                                              *)
Accepted(c) ==
  /\ is_power_of_2(c.num_sets)
  /\ is_power_of_2(c.num_blocks)
  /\ is_power_of_2(c.block_size)
  /\ c.block_size >= 4
  /\ c.write_allocate \/ c.write_through

(* Mutant: the number of blocks in place of sets. *)
SpanOfBlocks(c) == (c.num_blocks * c.block_size) % Word

(* The divisor of get_tag(), a product of two uint32_t.                    *)
SetSpan(c) == (c.num_sets * c.block_size) % Word

get_tag(c, address) == address \div SetSpan(c)
get_index(c, address) == (address \div c.block_size) % c.num_sets

SetIndex(c) == 0 .. (c.num_sets - 1)
=============================================================================
