CONSTANT MaxDepth = 5
SPECIFICATION Spec
INVARIANT TypeOK
INVARIANT Exclusion
INVARIANT NoReentry
INVARIANT Balanced
