CONSTANTS
    MtuRange <- SmallMtus
    ChannelRange <- Channels
    PeriodRange <- Periods
SPECIFICATION Spec
INVARIANT TypeOK
INVARIANT SubPeriodIsSpecRule
INVARIANT CycleSizeBoundsTraffic
