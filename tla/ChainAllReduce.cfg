SPECIFICATION Spec
CONSTANTS
    Slots = 2
    Modulus = 6
    OpEntries = 2
    Sessions <- MCSessions
INVARIANTS TypeOK ProxyNeverFails Lockstep ExactSums NeverStuck
