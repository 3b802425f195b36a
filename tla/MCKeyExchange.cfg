CONSTANTS
    Prime = 11
    Generator = 2
    Base = 4
    KeyLength = 2
    SmallPrimes = {2, 3, 5}
    PqNumbers = {15, 77}
    Keyring <- MCKeyring
    Fingerprints = {1, 2, 3}
    MaxSmall = 1
    MaxFrames = 3
    MaxQuick = 3
    MaxFaults = 1
    None = None

SPECIFICATION Spec

INVARIANTS
    KeysAgree
    FailsOnlyForCause

PROPERTIES
    EveryExchangeEnds
