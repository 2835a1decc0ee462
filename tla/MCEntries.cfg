\* Two entries set up, unloaded and changed concurrently.
CONSTANTS
    Entry = {e1, e2}
    Addresses = {a1}
    HostOf <- OneHost
    Machines = {m1, m2}
    NoMachine = NoMachine
    Idle = Idle
    MaxFlows = 2
    MaxStores = 2
SYMMETRY Symmetry
SPECIFICATION Spec
INVARIANTS
    TypeOK
    ServicesWhileLoaded
    CardServed
    IdentifiersUnique
    IdentifierMatches
    RunsWhatIsStored
