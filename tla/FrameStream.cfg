SPECIFICATION Spec
CONSTANTS
    MaxPayload = 1
    Alphabet <- MCAlphabet
INVARIANTS
    HandedAsHeard
    StreamInv
