\* Partial failures, carried over values, and the request for a key.
CONSTANT MaxCycles = 4
SPECIFICATION Spec
INVARIANTS
    TypeOK
    LastUpdateCovers
    NothingFailsSilently
    KeyIssueShown
