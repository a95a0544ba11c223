CONSTANTS
    NPorts = 3
    PeriodSize = 4
    Mtu = 60
    MaxCycle = 2
    MaxLag = 0
    MaxReceives = 3
    ActiveSets <- AllPortSets
    Junk = Junk
    Silence = Silence
SPECIFICATION Spec
INVARIANT TypeOK
INVARIANT GapReported
INVARIANT NoMisplacedSample
PROPERTY DeliveredSampleKept
