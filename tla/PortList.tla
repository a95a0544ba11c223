------------------------------ MODULE PortList ------------------------------
(***************************************************************************)
(* The render functions JackPortList defines in src/common/JackNetTool.h:  *)
(* the plain layout, in which every port's sub-period is sent at its       *)
(* place port_index * fSubPeriodBytesSize with no index word, in its       *)
(* little-endian (memcpy) and big-endian (SwapFloat) variants.  A sender   *)
(* and a receiver, each little- or big-endian, share a datagram network.   *)
(*                                                                         *)
(* With Optimized the lists are JackOptimizedPortList on big-endian hosts: *)
(* GetNumPackets and ActivePortsTo/FromNetwork are the optimized ones but  *)
(* the render functions, left "TODO" under __BIG_ENDIAN__, are these      *)
(* inherited plain ones.                                                   *)
(*                                                                         *)
(* A sample word records the byte order it is in on the wire; SwapFloat    *)
(* reverses it.                                                            *)
(***************************************************************************)
EXTENDS Integers, Sequences, FiniteSets, SequencesExt, NetLayout

CONSTANTS
    NPorts, PeriodSize, Mtu,
    SenderBE,     \* the sending host is big-endian (__BIG_ENDIAN__)
    ReceiverBE,   \* the receiving host is big-endian
    Optimized,    \* the lists are JackOptimizedPortList
    ActiveSets,   \* the sets of connected ports the sending driver may set
    MaxCycle,     \* bound: cycles the sender runs
    MaxReceives,  \* bound: packets the receiver renders per cycle
    Junk, Silence

Ports == 0 .. NPorts - 1
Frames == 0 .. PeriodSize - 1
PacketSize == PacketAvailableSize(Mtu)

ASSUME /\ NPorts \in Nat \ {0} /\ PeriodSize \in Nat \ {0} /\ Mtu > HeaderSize
       /\ {SenderBE, ReceiverBE, Optimized} \subseteq BOOLEAN
       /\ ActiveSets \subseteq SUBSET Ports

Sample(p, c, f) == [port |-> p, cycle |-> c, frame |-> f]
Samples == {Sample(p, c, f) : p \in Ports, c \in 1 .. MaxCycle, f \in Frames}

\* A sample as a 4-byte word in the memory of a host: little-endian unless
\* the host is big-endian.
Native(s, be) == [val |-> s, le |-> ~be]

\* SwapFloat: the four bytes reversed.
SwapFloat(w) == [w EXCEPT !.le = ~w.le]

\* Bytes that are no sample of this model (past a buffer, or a sample read in
\* the wrong byte order).
Garbage == [port |-> -1, cycle |-> 0, frame |-> -1]

\* The constructor's sizing, for max(fSendAudioChannels, fReturnAudioChannels)
\* = NPorts channels.
CtorSubPeriod == SubPeriodFor(PacketSize, NPorts, PeriodSize)

VARIABLES
    sBuf, sSubPeriod, sSubBytes, sNum, sNext, sCycle, sPc, sFault,
    syncQ, net,
    rBuf, rActive, rLast, rCycle, rPhase, rSeq, rRecvs, rErr, rFault

senderVars == <<sBuf, sSubPeriod, sSubBytes, sNum, sNext, sCycle, sPc, sFault>>
receiverVars == <<rBuf, rActive, rLast, rCycle, rPhase, rSeq, rRecvs, rErr, rFault>>
vars == <<senderVars, syncQ, net, receiverVars>>

\* The JackPortList constructor on both hosts.
Init ==
    /\ sBuf = [p \in Ports |-> FALSE]
    /\ sSubPeriod = CtorSubPeriod /\ sSubBytes = CtorSubPeriod * SampleSize
    /\ sNum = 0 /\ sNext = 0 /\ sCycle = 0 /\ sPc = "set" /\ sFault = "none"
    /\ syncQ = <<>> /\ net = {}
    /\ rBuf = [p \in Ports |-> [f \in Frames |-> Junk]]
    /\ rActive = [p \in Ports |-> FALSE]
    /\ rLast = -1 /\ rCycle = 0 /\ rPhase = "sync"
    /\ rSeq = <<>> /\ rRecvs = 0 /\ rErr = FALSE /\ rFault = "none"

-----------------------------------------------------------------------------
(* Sender *)

\* The driver's SetBuffer calls: with the plain protocol every port gets its
\* buffer; with the optimized one, the unconnected ports get NULL.
SetBuffers ==
    /\ sPc = "set" /\ sCycle < MaxCycle /\ sFault = "none"
    /\ IF Optimized
       THEN \E S \in ActiveSets : sBuf' = [p \in Ports |-> p \in S]
       ELSE sBuf' = [p \in Ports |-> TRUE]
    /\ sCycle' = sCycle + 1
    /\ sPc' = "sync"
    /\ UNCHANGED <<sSubPeriod, sSubBytes, sNum, sNext, sFault, syncQ, net, receiverVars>>

\* ActivePortsToNetwork into the sync packet: the plain list only sets
\* port_num = fNPorts; the optimized one lists the non-NULL buffers.
ActivePortsToNetwork ==
    /\ sPc = "sync"
    /\ syncQ' = Append(syncQ, [cycle |-> sCycle,
                               ports |-> IF Optimized
                                         THEN SetToSortSeq({p \in Ports : sBuf[p]}, <)
                                         ELSE <<>>])
    /\ sPc' = "size"
    /\ UNCHANGED <<sBuf, sSubPeriod, sSubBytes, sNum, sNext, sCycle, sFault, net, receiverVars>>

\* GetNumPackets: the plain one keeps the constructor's sizes; the optimized
\* one resizes for the non-NULL buffers, with 4 index bytes per port.
GetNumPackets ==
    LET active == Cardinality({p \in Ports : sBuf[p]})
        sub == IF Optimized THEN SubPeriodFor(PacketSize, active, PeriodSize) ELSE sSubPeriod
    IN  /\ sPc = "size"
        /\ sSubPeriod' = sub
        /\ sSubBytes' = IF Optimized THEN OptSubPeriodBytes(sub) ELSE sSubBytes
        /\ sNum' = NumPacketsFor(PeriodSize, sub)
        /\ sNext' = 0 /\ sPc' = "render"
        /\ UNCHANGED <<sBuf, sCycle, sFault, syncQ, net, receiverVars>>

\* The fSubPeriodBytesSize / sizeof(float) samples read for port p, starting
\* at frame sub_cycle * fSubPeriodSize.
SentFrames(sub) == {sub * sSubPeriod + j : j \in 0 .. sSubBytes \div SampleSize - 1}

\* Variant: the big-endian sender copies its native bytes (memcpy).
PortWordsNoSwap(p, sub) ==
    [j \in 1 .. sSubBytes \div SampleSize |->
        LET f == sub * sSubPeriod + j - 1
        IN  Native(IF f \in Frames THEN Sample(p, sCycle, f) ELSE Garbage, SenderBE)]

\* One port's words: the big-endian host stores SwapFloat(src[sample]), the
\* little-endian one copies its native bytes.
PortWords(p, sub) ==
    [j \in 1 .. sSubBytes \div SampleSize |->
        LET f == sub * sSubPeriod + j - 1
            w == Native(IF f \in Frames THEN Sample(p, sCycle, f) ELSE Garbage, SenderBE)
        IN  IF SenderBE THEN SwapFloat(w) ELSE w]

\* The undefined behaviour a load of RenderToNetwork hits, if any.
LoadFault(sub) ==
    IF \E p \in Ports : ~sBuf[p] THEN "null_port"
    ELSE IF SentFrames(sub) \subseteq Frames THEN "none" ELSE "overrun"

\* Variant whose driver loop runs one sub-cycle too far.
RenderToNetworkPastEnd ==
    /\ sPc = "render" /\ sNext =< sNum /\ sFault = "none"
    /\ net' = net \cup {[cycle |-> sCycle, sub |-> sNext, portNum |-> NPorts,
                         size |-> NPorts * sSubBytes,
                         payload |-> FlattenSeq([i \in 1 .. NPorts |-> PortWords(i - 1, sNext)])]}
    /\ sFault' = LoadFault(sNext)
    /\ sNext' = sNext + 1
    /\ sPc' = IF sNext = sNum THEN "set" ELSE "render"
    /\ UNCHANGED <<sBuf, sSubPeriod, sSubBytes, sNum, sCycle, syncQ, receiverVars>>

\* RenderToNetwork(sub_cycle): every port, in order, at offset
\* port_index * fSubPeriodBytesSize; port_num = fNPorts.
RenderToNetwork ==
    /\ sPc = "render" /\ sNext < sNum /\ sFault = "none"
    /\ net' = net \cup {[cycle |-> sCycle, sub |-> sNext, portNum |-> NPorts,
                         size |-> NPorts * sSubBytes,
                         payload |-> FlattenSeq([i \in 1 .. NPorts |-> PortWords(i - 1, sNext)])]}
    /\ sFault' = LoadFault(sNext)
    /\ sNext' = sNext + 1
    /\ sPc' = IF sNext + 1 = sNum THEN "set" ELSE "render"
    /\ UNCHANGED <<sBuf, sSubPeriod, sSubBytes, sNum, sCycle, syncQ, receiverVars>>

-----------------------------------------------------------------------------
(* Network *)

Lose ==
    /\ \E pkt \in net : net' = net \ {pkt}
    /\ UNCHANGED <<senderVars, syncQ, receiverVars>>

-----------------------------------------------------------------------------
(* Receiver: its list keeps the constructor's sizes. *)

RecvSubPeriod == CtorSubPeriod
RecvStride == CtorSubPeriod

\* ActivePortsFromNetwork: nothing for the plain list, whose driver gives
\* every port a buffer; the listed ports for the optimized one.
ActivePortsFromNetwork ==
    /\ rPhase = "sync" /\ rFault = "none" /\ syncQ # <<>>
    /\ rActive' = IF Optimized
                  THEN [p \in Ports |-> \E i \in DOMAIN Head(syncQ).ports : Head(syncQ).ports[i] = p]
                  ELSE [p \in Ports |-> TRUE]
    /\ rCycle' = Head(syncQ).cycle
    /\ syncQ' = Tail(syncQ)
    /\ rPhase' = "data" /\ rSeq' = <<>> /\ rRecvs' = 0 /\ rErr' = FALSE
    /\ UNCHANGED <<senderVars, net, rBuf, rLast, rFault>>

\* The sample a receiving host obtains from a wire word: SwapFloat on a
\* big-endian host, the bytes as they are on a little-endian one.
Decoded(w) ==
    LET h == IF ReceiverBE THEN SwapFloat(w) ELSE w
    IN  IF h.le = ~ReceiverBE THEN h.val ELSE Garbage

WordOf(pkt, i) == IF i \in 1 .. Len(pkt.payload) THEN Decoded(pkt.payload[i]) ELSE Garbage

\* Variant of the stores that forgets the sub_cycle * fSubPeriodSize offset
\* into the port buffer.
StoresNoOffset(pkt) ==
    {<<p, j, WordOf(pkt, p * RecvStride + 1 + j)>> : p \in Ports, j \in 0 .. RecvStride - 1}

\* The (port, frame, value) stores: port p's words at p * fSubPeriodBytesSize
\* go to frames sub_cycle * fSubPeriodSize + j of fPortBuffer[p].
Stores(pkt) ==
    {<<p, pkt.sub * RecvSubPeriod + j, WordOf(pkt, p * RecvStride + 1 + j)>> :
        p \in Ports, j \in 0 .. RecvStride - 1}

StoreFault(pkt) ==
    IF \E p \in Ports : ~rActive[p] THEN "null_port"
    ELSE IF \A s \in Stores(pkt) : s[2] \in Frames THEN "none" ELSE "overrun"

\* Variant of the loss check, off by one.
PacketMissingOffByOne(pkt) == pkt.sub # rLast

\* The loss check: sub_cycle != fLastSubCycle + 1.
PacketMissing(pkt) == pkt.sub # rLast + 1

\* RenderFromNetwork: the copies of every port, then the loss check against
\* fLastSubCycle.  A datagram may be delivered again (kept in net).
RenderFromNetwork ==
    /\ rPhase = "data" /\ rFault = "none" /\ rRecvs < MaxReceives
    /\ \E pkt \in net, keep \in BOOLEAN :
        /\ pkt.cycle = rCycle
        /\ net' = IF keep THEN net ELSE net \ {pkt}
        /\ rBuf' = [p \in Ports |-> [f \in Frames |->
                      IF \E s \in Stores(pkt) : s[1] = p /\ s[2] = f
                      THEN (CHOOSE s \in Stores(pkt) : s[1] = p /\ s[2] = f)[3]
                      ELSE rBuf[p][f]]]
        /\ rFault' = StoreFault(pkt)
        /\ rErr' = (rErr \/ PacketMissing(pkt))
        /\ rLast' = pkt.sub
        /\ rSeq' = Append(rSeq, pkt.sub)
    /\ rRecvs' = rRecvs + 1
    /\ UNCHANGED <<senderVars, syncQ, rActive, rCycle, rPhase>>

\* RenderToJackPorts: resets fLastSubCycle on a little-endian host; the
\* big-endian definition is empty.
RenderToJackPorts ==
    /\ rPhase = "data" /\ rFault = "none"
    /\ rLast' = IF ReceiverBE THEN rLast ELSE -1
    /\ rPhase' = "sync"
    /\ UNCHANGED <<senderVars, syncQ, net, rBuf, rActive, rCycle, rSeq, rRecvs, rErr, rFault>>

Finished ==
    /\ sCycle = MaxCycle /\ sPc = "set"
    /\ rPhase = "sync" /\ syncQ = <<>> /\ net = {}
    /\ UNCHANGED vars

Next ==
    \/ SetBuffers \/ ActivePortsToNetwork \/ GetNumPackets \/ RenderToNetwork \/ Lose
    \/ ActivePortsFromNetwork \/ RenderFromNetwork \/ RenderToJackPorts
    \/ Finished

Spec == Init /\ [][Next]_vars

\* As for the optimized list: each host's driver takes every step of its
\* cycle that is possible; the network owes nothing.
Fairness ==
    /\ WF_vars(SetBuffers) /\ WF_vars(ActivePortsToNetwork)
    /\ WF_vars(GetNumPackets) /\ WF_vars(RenderToNetwork)
    /\ WF_vars(ActivePortsFromNetwork) /\ WF_vars(RenderToJackPorts)

FairSpec == Spec /\ Fairness

-----------------------------------------------------------------------------
(* Properties *)

Words == {[val |-> s, le |-> b] : s \in Samples \cup {Garbage}, b \in BOOLEAN}

TypeOK ==
    /\ sBuf \in [Ports -> BOOLEAN] /\ rActive \in [Ports -> BOOLEAN]
    /\ sSubPeriod \in 0 .. PeriodSize /\ sNum \in 0 .. PeriodSize
    /\ sNext \in 0 .. sNum /\ sCycle \in 0 .. MaxCycle
    /\ net \subseteq [cycle : 1 .. MaxCycle, sub : 0 .. PeriodSize - 1,
                      portNum : {NPorts}, size : Nat, payload : Seq(Words)]
    /\ rBuf \in [Ports -> [Frames -> Samples \cup {Junk, Garbage}]]
    /\ rLast \in -1 .. PeriodSize - 1 /\ rSeq \in Seq(0 .. PeriodSize - 1)
    /\ rErr \in BOOLEAN

\* Loss detection: within a receiver cycle NET_PACKET_ERROR has been returned
\* exactly when the sub-cycles rendered so far are not 0, 1, 2, ... in order.
ContiguousFromZero(s) == \A i \in 1 .. Len(s) : s[i] = i - 1
GapReported == rErr <=> ~ContiguousFromZero(rSeq)

\* A cycle the receiver ends after rendering sub-cycles 0 .. n-1 once each and
\* in order leaves every port holding exactly that cycle's samples, in the
\* receiving host's byte order, whatever the two hosts' endianness.
CycleDelivered ==
    /\ rPhase = "sync" /\ rCycle > 0
    /\ rSeq = [i \in 1 .. NumPacketsFor(PeriodSize, RecvSubPeriod) |-> i - 1]
ReceivedCycleIsComplete ==
    CycleDelivered =>
        \A p \in Ports : rActive[p] => \A f \in Frames : rBuf[p][f] = Sample(p, rCycle, f)

\* The plain layout implements AudioTransfer too, whatever the two hosts'
\* byte orders: a cycle is announced once ActivePortsToNetwork has run for
\* it; a sync packet announces every port (the plain list) or the listed
\* ones; every stored word is the sample of that port, frame and cycle in
\* the receiver's byte order, and every announced cycle is taken and ended.
Transfer == INSTANCE AudioTransfer WITH
    announced <- IF sPc = "sync" THEN sCycle - 1 ELSE sCycle,
    queue <- [i \in 1 .. Len(syncQ) |->
                [cycle |-> syncQ[i].cycle,
                 ports |-> IF Optimized THEN Range(syncQ[i].ports) ELSE Ports]],
    active <- {p \in Ports : rActive[p]},
    cycle <- rCycle,
    phase <- rPhase,
    out <- rBuf

TransferSpec == Transfer!Spec

\* RenderToNetwork never loads through a NULL port buffer or past its end.
NoInvalidLoad == sFault = "none"
=============================================================================
