SPECIFICATION Spec
CONSTANTS
    IdLens <- MCIdLens
    FieldLens <- MCFieldLens
    WillQoses <- MCWillQoses
INVARIANTS BuiltIsAccepted
CHECK_DEADLOCK FALSE
