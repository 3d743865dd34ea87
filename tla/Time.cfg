SPECIFICATION Spec
CONSTANT Asked <- InRange
INVARIANT ReadBack
INVARIANT Truncation
