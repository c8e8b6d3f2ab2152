CONSTANTS
    MaxTraffic = 2
    Word = 3
    MaxStarts = 2
SPECIFICATION Spec
INVARIANTS
    TypeOK
    StoppedIsClosed
    CountsAreReceived
PROPERTIES
    LoopsEnd
