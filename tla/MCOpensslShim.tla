---------------------------- MODULE MCOpensslShim ----------------------------
(* A three-slot table (two usable handles), room for one block more than   *)
(* the table holds, two callers and one argument of each kind per guard.   *)
EXTENDS OpensslShim, TLC

MCAddrs == 1 .. 3
MCRandLens == {0, 2, RAND_MAX_LEN, RAND_MAX_LEN + 1}
MCSkLens == {31, 32}
MCNLens == {0, 256}
MCJwkBits == {1024, 16384}

ClientSymmetry == Permutations(Clients)
=============================================================================
