SPECIFICATION Spec
CONSTANTS
    MaxPayload = 3
    Messages <- MCMessages
    Noise <- MCNoise
    MaxFaults = 2
INVARIANTS
    RecoveryBounded
    SyncedDelivers
    NothingForged
