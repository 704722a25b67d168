CONSTANTS
    A = A
    B = B
    F1 = F1
    K1 = K1
    K2 = K2
    Ids <- MCIds
    Frags <- MCFrags
    Keys <- MCKeys
    NoDoc = NoDoc
    NoVM = NoVM
    FromStore = FromStore
    MaxWrites = 3
SYMMETRY KeySymmetry
SPECIFICATION Spec
\* The registry is passive: it acts only on incoming transactions, and the
\* ledger may receive none; the bound MaxWrites ends every behaviour.
CHECK_DEADLOCK FALSE
PROPERTIES
    ImplementsAbstract
