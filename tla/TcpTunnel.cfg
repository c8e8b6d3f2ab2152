SPECIFICATION TunnelSpec
CONSTANTS
    MaxBytes = 2
    Window = 1
    MaxByte = 4
    IPv4len = 2
    IPv6len = 3
    Mapped <- MCMapped
    Numeric <- MCNumeric
    Nil = Nil
    Streams <- MCStreams
    Targets <- MCTargets
INVARIANTS
    TunnelTypeOK
    NoErrorMeansComplete
    TimeoutMeansOtherEnded
    ConsumesExactly
    WholeIsServed
    KeepsTarget
PROPERTIES
    ConnectionsClose
CHECK_DEADLOCK FALSE
