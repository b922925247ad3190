CONSTANTS
  MAX_BUFS = 2
  Addrs <- MCAddrs
  NULL = NULL
  Clients = {c1, c2}
  SRC_LENS <- MCSrcLens
  Sources <- MCSources
  MAX_SIZES <- MCMaxSizes
  MALLOC0 = {"null", "block"}
  UINT32_MAX <- MCUint32Max

SPECIFICATION Spec
SYMMETRY ClientSymmetry




INVARIANT FittingDecompressSucceeds
