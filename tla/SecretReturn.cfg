SPECIFICATION Spec
INVARIANT IntermediatesZeroed
