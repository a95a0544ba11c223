CONSTANTS
    NPorts = 2
    PeriodSize = 4
    Mtu = 60
    SenderBE = FALSE
    ReceiverBE = TRUE
    Optimized = FALSE
    ActiveSets <- AllPortSets
    MaxCycle = 2
    MaxReceives = 3
    Junk = Junk
    Silence = Silence
SPECIFICATION Spec
INVARIANT GapReported
