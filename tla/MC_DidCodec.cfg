CONSTANTS
    Width = 10
    TagWidth = 5
    MaxLen = 6
    Bytes <- MCBytes
SPECIFICATION Spec
INVARIANTS
    DecodeNoPanic
    MarshalRoundTrip
CHECK_DEADLOCK FALSE
