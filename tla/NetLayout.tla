----------------------------- MODULE NetLayout -----------------------------
(***************************************************************************)
(* The sizing arithmetic of the audio packet layout in                     *)
(* src/common/JackNetTool.h: the header size, the bytes a packet has left  *)
(* for audio, the sub-period (samples per port per packet) computed with   *)
(* powf/log in JackPortList and JackOptimizedPortList, the number of       *)
(* packets per cycle and the bytes of one port's chunk.  Every quantity is *)
(* a byte or frame count; a sample and an active-port index each take 4    *)
(* bytes (sizeof(sample_t) = sizeof(uint32_t) = 4).                        *)
(***************************************************************************)
EXTENDS Integers

\* sizeof(packet_header_t): three chars padded to 12 bytes, then 7 uint32_t.
HeaderSize == 12 + 7 * 4

SampleSize == 4
PortIndexSize == 4

\* PACKET_AVAILABLE_SIZE(params), also fPacketSize in the JackPortList
\* constructor: the MTU minus the header.
PacketAvailableSize(mtu) == mtu - HeaderSize

\* Variant of Pow2Below that stops one power early when the quotient is an
\* exact power of two (2 * p * den < num).
RECURSIVE Pow2BelowStrict(_, _, _)
Pow2BelowStrict(num, den, p) ==
    IF 2 * p * den < num THEN Pow2BelowStrict(num, den, 2 * p) ELSE p

\* Largest power of two p with p * den =< num, for num >= den >= 1.
RECURSIVE Pow2Below(_, _, _)
Pow2Below(num, den, p) ==
    IF 2 * p * den =< num THEN Pow2Below(num, den, 2 * p) ELSE p

RECURSIVE Log2Of(_)
Log2Of(p) == IF p = 1 THEN 0 ELSE 1 + Log2Of(p \div 2)

\* Exponents k for which logf(2^k) / log(2.) evaluates just below k with a
\* correctly rounded single-precision logf, so (int) truncates it to k - 1.
LogfRoundsDown == {13, 15, 17, 19, 21, 23}

(***************************************************************************)
(* (int) powf(2.f, (int)(log(float(num) / den) / log(2.))): the exponent  *)
(* is truncated toward zero, so a quotient in (1/2, 1) gives 2^0 = 1 and  *)
(* a quotient =< 1/2 gives a negative exponent, a power below 1, which    *)
(* the cast to int makes 0.                                               *)
(***************************************************************************)
Pow2Trunc(num, den) ==
    IF num >= den
    THEN LET p == Pow2Below(num, den, 1)
         IN  IF num = p * den /\ Log2Of(p) \in LogfRoundsDown THEN p \div 2 ELSE p
    ELSE IF 2 * num > den THEN 1 ELSE 0

\* The sub-period for nports ports: the power of two above, capped by the
\* period (fSubPeriodSize in GetNumPackets, sub_period_size in
\* RenderFromNetwork, fSubPeriodSize in the constructor with the larger of
\* the send and return channel counts); the whole period for no port.
SubPeriodFor(packetSize, nports, period) ==
    IF nports = 0 THEN period
    ELSE LET p == Pow2Trunc(packetSize, nports * SampleSize)
         IN  IF p > period THEN period ELSE p

\* GetNumPackets: fPeriodSize / fSubPeriodSize (integer division).
NumPacketsFor(period, subPeriod) == period \div subPeriod

\* fSubPeriodBytesSize of the optimized layout: the samples of one port
\* followed by its 4-byte port index.
OptSubPeriodBytes(subPeriod) == subPeriod * SampleSize + PortIndexSize

\* fCycleSize in the JackPortList constructor.
CycleSizeFor(mtu, period, subPeriod) == mtu * (period \div subPeriod)

\* The powers of two not above n (n >= 1), and the largest member of a set.
PowersUpTo(n) == {2^k : k \in 0 .. Log2Of(n)}
LargestOf(S) == CHOOSE p \in S : \A q \in S : q =< p

(***************************************************************************)
(* Reference: what the layout is meant to compute.  SpecSubPeriod is the   *)
(* sizing rule of AudioFrameLayout in the specification: the largest power *)
(* of two P =< period whose P samples per channel fit the available bytes, *)
(* the whole period for no channel, 0 when not even one frame fits.       *)
(***************************************************************************)
SamplesFit(packetSize, nch, p) == p * nch * SampleSize =< packetSize

SpecSubPeriod(packetSize, nch, period) ==
    LET fits == {p \in PowersUpTo(period) : SamplesFit(packetSize, nch, p)}
    IN  IF nch = 0 THEN period ELSE IF fits = {} THEN 0 ELSE LargestOf(fits)
=============================================================================
