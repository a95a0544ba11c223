CONSTANTS
    NPorts = 2
    PeriodSize = 4
    Mtu = 60
    MaxCycle = 3
    MaxLag = 0
    MaxReceives = 3
    ActiveSets <- AllPortSets
    Junk = Junk
    Silence = Silence
SPECIFICATION FairSpec
PROPERTY TransferSpec
