CONSTANT MaxLen = 5
SPECIFICATION Spec
\* The enumeration of inputs ends at MaxLen characters.
CHECK_DEADLOCK FALSE
INVARIANT
    AcceptsOnlySpecValid
