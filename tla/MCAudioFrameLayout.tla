------------------------ MODULE MCAudioFrameLayout ------------------------
EXTENDS AudioFrameLayout

\* The MTUs at which p frames of n channels (p a power of two up to 64,
\* n up to 4) just fit, one byte either side, no audio byte at all, and the
\* Ethernet MTU.
Thresholds == {p * n * SampleSize : p \in PowersUpTo(64), n \in 1 .. 4}
SmallMtus == {HeaderSize + t + d : t \in Thresholds, d \in {-1, 0, 1}} \cup {HeaderSize, 1500}

Channels == 0 .. 4
\* Power-of-two periods, the only ones for which the sizing rule of the
\* specification (a power of two that divides the period) can be met.
Periods == {1, 4, 16, 64}
=============================================================================
