CONSTANT Targets <- AllTargets

SPECIFICATION Spec

INVARIANT V1MatchesV2
INVARIANT BackendTypesMatchRuntime
INVARIANT StaticAssertsHoldOnPassTargets
