----------------------------- MODULE MCZlibShim -----------------------------
(* A two-slot table (one usable handle, which the two callers contend   *)
(* for), two heap addresses.  Inputs: an empty gzip stream, a raw stream *)
(* and a zlib stream of 2 bytes each (a stream given to an entry point of *)
(* another format is a damaged one); max_size 0 or 2, so outputs fit,    *)
(* overflow and are empty; compress of an empty input and of one whose   *)
(* bound passes UINT32_MAX (given the value 40).                         *)
EXTENDS ZlibShim, TLC

MCAddrs == 1 .. 2
MCSrcLens == {0, 30}
MCUint32Max == 40
MCSources ==
  {[fmt |-> "gzip", valid |-> TRUE, n |-> 0],
   [fmt |-> "raw", valid |-> TRUE, n |-> 2],
   [fmt |-> "zlib", valid |-> TRUE, n |-> 2]}
MCMaxSizes == {0, 2}

ClientSymmetry == Permutations(Clients)
=============================================================================
