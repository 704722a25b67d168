CONSTANTS
    C1 = C1
    V1 = V1
    V2 = V2
    L1 = L1
    Creators <- MCCreators
    Verkeys <- MCVerkeys2
    Aliases <- MCAliases
    Width = 3
    ByteBits = 1
    MaxOps = 9
SPECIFICATION Spec
\* The keeper is passive and MaxOps ends every behaviour.
CHECK_DEADLOCK FALSE
PROPERTY
    AppendFresh
