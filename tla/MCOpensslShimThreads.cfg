CONSTANTS
  MAX_BUFS = 3
  Addrs <- MCAddrs
  NULL = NULL
  Clients = {t1, t2}
  RAND_LENS <- MCRandLens
  SERIALIZED = TRUE

SPECIFICATION Spec

INVARIANT TypeOK
PROPERTY AtomicRefined
