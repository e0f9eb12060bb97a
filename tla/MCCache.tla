------------------------------ MODULE MCCache ------------------------------
(***************************************************************************)
(* Checks Cache for every configuration parse_args() accepts from a few    *)
(* sizes, on every trace of bounded length.  Word = 2^10 stands for 2^32.  *)
(***************************************************************************)
EXTENDS Cache

(* Up to four blocks a set and more addresses than fit.  The sets span     *)
(* less than Word, Word and more, and 100 * block_size is 400, 1600, 6400. *)
MCSizes == {0, 1, 2, 4, 16, 64}
MCAddresses == {0, 4, 8, 18, 600}

(* A small value, and one above Word that lets the longest trace number    *)
(* its last block Word - 1.                                                *)
MCFifoCounters == {5, 2043}

(* Traces are not explored for sets of 16 and 64 blocks, which never fill  *)
(* up.                                                                     *)
Explored == config.num_blocks <= 4
=============================================================================
