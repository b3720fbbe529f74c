SPECIFICATION Spec
CONSTANTS
    Slots = 3
    Modulus = 10
    OpEntries = 2
    Sessions <- MCWrapSessions
INVARIANTS ExactSums
