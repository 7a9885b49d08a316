SPECIFICATION Spec
CONSTANTS
    MaxPages = 3
    MaxCpu = 2
    Times <- MCTimes
    Second = 4
    MaxTicks = 4
    MaxTrips = 2
    MaxChars = 6
    MaxHolder = 2
    MaxFd = 3
    MaxSocket = 2
    Kinds <- MCKinds
    Protos = {"tcp4", "udp6", "unix"}
    MaxItems = 2
INVARIANT MemoryAddsUp
INVARIANT CpuFiguresFit
INVARIANT UtilisationFits
INVARIANT DevicesFit
INVARIANT ConnectionsBelong
