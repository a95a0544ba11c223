CONSTANTS
    NPorts = 2
    PeriodSize = 4
    Mtu = 60
    SenderBE = TRUE
    ReceiverBE = FALSE
    Optimized = FALSE
    ActiveSets <- AllPortSets
    MaxCycle = 2
    MaxReceives = 3
    Junk = Junk
    Silence = Silence
SPECIFICATION FairSpec
INVARIANT TypeOK
INVARIANT GapReported
INVARIANT ReceivedCycleIsComplete
PROPERTY TransferSpec
