SPECIFICATION Spec
CONSTANTS
    IdLens <- MCIdLens
    FieldLens <- MCFieldLens
    WillQoses <- MCWillQoses
INVARIANTS TypeOK BufferSuffices ParsedIsBuilt WillAccepted MemoryReturned
CHECK_DEADLOCK FALSE
