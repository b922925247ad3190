CONSTANTS
  WRAPPERS <- MCWrappers
  LENS <- MCLens
  INT32_MAX = 100
  BigNums <- MCBigNums

SPECIFICATION Spec

INVARIANT TypeOK
INVARIANT NoLeakOnReturn
INVARIANT NoDeadObjectTouched
INVARIANT IntCastsPreserveLengths
INVARIANT B64MatchesRfc4648
INVARIANT BnIsBase64urlUInt
INVARIANT JwkWritesExactlyTotal
