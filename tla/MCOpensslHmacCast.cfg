CONSTANTS
  WRAPPERS = {"hmac"}
  LENS <- MCLens
  INT32_MAX = 100
  BigNums <- MCBigNums
SPECIFICATION Spec
INVARIANT IntCastsPreserveLengths
