CONSTANTS
    Keys = {0, 5, 16, 24, 32}
    payloadSizeMask = 3
    BitAnd <- MCAnd
    MaxBytes = 5
    MaxWire = 5
    connBufSize = 3
    Garbage = Garbage
    Writers = {w1, w2}
    Lengths = {1, 3, 4}
    Salt = 2
    Overhead = 1
    packetConnBufSize = 6
    ReadBuf = 5
    Nobody = Nobody
SPECIFICATION Spec
CHECK_DEADLOCK FALSE
INVARIANTS
    TypeOK
    PickedSuitsKey
    IntactNeverFails
    SentIsOwn
    ReadIsWhole
PROPERTIES
    AEADImplementsByteStream
    ShadowImplementsByteStream
    AllArrives
    WritesReturn
