CONSTANT Targets <- AllTargets

SPECIFICATION Spec

INVARIANT XfAbiTagSpellsX7XF
