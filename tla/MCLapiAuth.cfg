\* One token, three concurrent calls.
CONSTANTS
    poll = poll
    list = list
    lookup = lookup
    AlertCalls <- PollCalls
    DecisionCalls <- ListAndLookup
SPECIFICATION FairSpec
INVARIANTS
    TypeOK
    LockConsistent
    StaleTokenHealed
    KeyRequestExplained
PROPERTIES
    EveryCallEnds
