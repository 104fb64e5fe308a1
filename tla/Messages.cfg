SPECIFICATION MessageSpec
CONSTANTS
    Lengths <- MCLengths
    Fillers <- MCFillers
    Jobs <- MCJobs
INVARIANTS TypeOK ShortestField RoundTrip Truncated
INVARIANTS MessageTypeOK BufferFits ParsedIsBuilt FiltersReturned InCapacity
CHECK_DEADLOCK FALSE
