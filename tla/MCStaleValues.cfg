\* Sensors after a cycle whose login was rejected.
CONSTANT MaxCycles = 2
SPECIFICATION Spec
INVARIANT NoStaleValues
