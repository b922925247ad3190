------------------------ MODULE MCOpensslShimThreads ------------------------
(* Two threads, a three-slot table (two usable handles) and room for one   *)
(* block more than the table holds; len 0, 2 and over 1 MiB.               *)
EXTENDS OpensslShimThreads, TLC

MCAddrs == 1 .. 3
MCRandLens == {0, 2, RAND_MAX_LEN + 1}

=============================================================================
