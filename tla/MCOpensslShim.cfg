CONSTANTS
  MAX_BUFS = 3
  Addrs <- MCAddrs
  NULL = NULL
  Clients = {c1, c2}
  RAND_LENS <- MCRandLens
  SK_LENS <- MCSkLens
  N_LENS <- MCNLens
  JWK_BITS <- MCJwkBits

SPECIFICATION Spec
SYMMETRY ClientSymmetry

INVARIANT TypeOK
INVARIANT HeapOwnedByTable
INVARIANT OwnedHandlesIntact
INVARIANT RandDocDecodes
