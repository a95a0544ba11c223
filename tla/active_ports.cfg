CONSTANTS
    NPorts <- ManyPorts
    ActiveSets <- UpTo511
    MaxCycle = 4
SPECIFICATION Spec
INVARIANT ActiveSetReachesReceiver
