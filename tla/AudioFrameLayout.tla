------------------------- MODULE AudioFrameLayout -------------------------
(***************************************************************************)
(* The sizing state of one JackOptimizedPortList (src/common/JackNetTool.h)*)
(* over the session parameters a session may be set up with: the          *)
(* JackPortList constructor sizes the list for the larger of the send and  *)
(* return channel counts and fixes fCycleSize, the bytes GetCycleSize()    *)
(* promises for a cycle; the driver then connects and disconnects ports    *)
(* (SetBuffer) and, every cycle, GetNumPackets() resizes the sub-period    *)
(* for the ports that are connected.  Which ports are connected does not   *)
(* matter to the sizes, only how many.                                     *)
(***************************************************************************)
EXTENDS Integers, FiniteSetsExt, NetLayout

CONSTANTS
    MtuRange,       \* values of params->fMtu
    ChannelRange,   \* values of fSendAudioChannels and fReturnAudioChannels
    PeriodRange     \* values of params->fPeriodSize

ASSUME /\ MtuRange \subseteq Nat /\ ChannelRange \subseteq Nat
       /\ PeriodRange \subseteq Nat \ {0}

\* The session-parameter invariant of the specification: the MTU holds the
\* header and one sample of every channel, else no session is set up.  The
\* check belongs to the negotiation, not to this file.
ValidSession(mtu, send, ret) ==
    PacketAvailableSize(mtu) >= Max({send, ret}) * SampleSize

Params == [mtu : MtuRange, send : ChannelRange, ret : ChannelRange,
           period : PeriodRange]

VARIABLES
    params,      \* the session_params_t of the constructor, None before
    nports,      \* fNPorts: the channel count of the list's direction
    active,      \* non-NULL entries of fPortBuffer
    subPeriod,   \* fSubPeriodSize
    subBytes,    \* fSubPeriodBytesSize
    cycleSize,   \* fCycleSize
    numPackets,  \* the value GetNumPackets() last returned, 0 before
    phase,       \* "none", "built" (constructed), "sized" (GetNumPackets ran)
    counted      \* history: the channel count the last sizing was for

vars == <<params, nports, active, subPeriod, subBytes, cycleSize, numPackets, phase, counted>>

None == [mtu |-> 0, send |-> 0, ret |-> 0, period |-> 1]

Init ==
    /\ params = None /\ nports = 0 /\ active = 0
    /\ subPeriod = 0 /\ subBytes = 0 /\ cycleSize = 0 /\ numPackets = 0
    /\ phase = "none" /\ counted = 0

\* Variant of the constructor sized for the smaller channel count.
ConstructMinChannels ==
    /\ phase = "none"
    /\ \E prm \in Params, dir \in {"send", "ret"} :
        LET sub == SubPeriodFor(PacketAvailableSize(prm.mtu), Min({prm.send, prm.ret}), prm.period)
        IN  /\ ValidSession(prm.mtu, prm.send, prm.ret)
            /\ params' = prm
            /\ nports' = IF dir = "send" THEN prm.send ELSE prm.ret
            /\ subPeriod' = sub
            /\ subBytes' = sub * SampleSize
            /\ cycleSize' = CycleSizeFor(prm.mtu, prm.period, sub)
            /\ counted' = Min({prm.send, prm.ret})
    /\ active' = 0 /\ phase' = "built"
    /\ UNCHANGED numPackets

\* JackPortList(params, nports), for the send or the return list: every
\* buffer NULL, fSubPeriodSize for max(send, return) channels (the whole
\* period when both are 0), fSubPeriodBytesSize, and
\* fCycleSize = fMtu * (fPeriodSize / fSubPeriodSize).
Construct ==
    /\ phase = "none"
    /\ \E prm \in Params, dir \in {"send", "ret"} :
        LET sub == SubPeriodFor(PacketAvailableSize(prm.mtu), Max({prm.send, prm.ret}), prm.period)
        IN  /\ ValidSession(prm.mtu, prm.send, prm.ret)
            /\ params' = prm
            /\ nports' = IF dir = "send" THEN prm.send ELSE prm.ret
            /\ subPeriod' = sub
            /\ subBytes' = sub * SampleSize
            /\ cycleSize' = CycleSizeFor(prm.mtu, prm.period, sub)
            /\ counted' = Max({prm.send, prm.ret})
    /\ active' = 0 /\ phase' = "built"
    /\ UNCHANGED numPackets

\* Variant of Connect for an index past fNPorts: SetBuffer does not check it.
ConnectPastEnd ==
    /\ phase # "none"
    /\ active' = active + 1
    /\ UNCHANGED <<params, nports, subPeriod, subBytes, cycleSize, numPackets, phase, counted>>

\* SetBuffer(index, buffer) with a buffer on a NULL entry, or NULL on a
\* non-NULL one (setting an entry to what it holds changes nothing).
Connect ==
    /\ phase # "none" /\ active < nports
    /\ active' = active + 1
    /\ UNCHANGED <<params, nports, subPeriod, subBytes, cycleSize, numPackets, phase, counted>>

Disconnect ==
    /\ phase # "none" /\ active > 0
    /\ active' = active - 1
    /\ UNCHANGED <<params, nports, subPeriod, subBytes, cycleSize, numPackets, phase, counted>>

\* JackOptimizedPortList::GetNumPackets: count the non-NULL buffers, size the
\* sub-period for them, add the 4-byte port index to the chunk size and
\* return fPeriodSize / fSubPeriodSize.  fCycleSize is left as it is.
GetNumPackets ==
    LET sub == SubPeriodFor(PacketAvailableSize(params.mtu), active, params.period)
    IN  /\ phase # "none"
        /\ subPeriod' = sub
        /\ subBytes' = OptSubPeriodBytes(sub)
        /\ numPackets' = NumPacketsFor(params.period, sub)
        /\ phase' = "sized"
        /\ counted' = active
        /\ UNCHANGED <<params, nports, active, cycleSize>>

Next == Construct \/ Connect \/ Disconnect \/ GetNumPackets

Spec == Init /\ [][Next]_vars

-----------------------------------------------------------------------------
(* Properties *)

TypeOK ==
    /\ params \in Params \cup {None}
    /\ nports \in ChannelRange \cup {0} /\ active \in 0 .. nports
    /\ subPeriod \in Nat /\ subBytes \in Nat /\ cycleSize \in Nat
    /\ numPackets \in Nat /\ phase \in {"none", "built", "sized"}
    /\ counted \in Nat

\* The powf/log computation of the constructor and of GetNumPackets gives
\* the sizing rule of the specification: the largest power of two not above
\* the period whose samples, for max(send, return) channels after the
\* constructor and for the connected ports after GetNumPackets, fit
\* PACKET_AVAILABLE_SIZE; in particular never 0, so neither fPeriodSize /
\* fSubPeriodSize divides by zero.
SubPeriodIsSpecRule ==
    phase # "none" =>
        subPeriod = SpecSubPeriod(PacketAvailableSize(params.mtu), counted, params.period)

\* GetCycleSize() is fixed by the constructor, but GetNumPackets() resizes
\* every cycle: the packets a cycle really takes, whatever ports the driver
\* has connected, never need more bytes than fCycleSize.
CycleSizeBoundsTraffic == phase = "sized" => numPackets * params.mtu =< cycleSize
=============================================================================
