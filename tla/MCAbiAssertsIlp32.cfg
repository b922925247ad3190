CONSTANT Targets <- EightAlignedU64Ilp32

SPECIFICATION Spec

INVARIANT StaticAssertsHold
