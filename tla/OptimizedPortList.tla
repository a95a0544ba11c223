------------------------- MODULE OptimizedPortList -------------------------
(***************************************************************************)
(* The audio path of NetFloatAudioBuffer on a little-endian host: one      *)
(* JackOptimizedPortList (src/common/JackNetTool.h, used because           *)
(* OPTIMIZED_PROTOCOL is defined) on the sending host and one on the       *)
(* receiving host, joined by a datagram network that loses, reorders,     *)
(* duplicates and delays audio packets.                                    *)
(*                                                                         *)
(* Per cycle the sender's driver sets the port buffers (a NULL buffer is  *)
(* an inactive port), sends the active-port list in the sync packet       *)
(* (ActivePortsToNetwork), sizes the cycle (GetNumPackets) and renders    *)
(* sub-cycles 0 .. n-1 (RenderToNetwork).  The receiver takes the list    *)
(* (ActivePortsFromNetwork), renders every audio packet it is handed      *)
(* (RenderFromNetwork) and ends the cycle (RenderToJackPorts).            *)
(*                                                                         *)
(* A packet's payload is a sequence of 4-byte words, as on the wire: for  *)
(* each active port its index word followed by its samples.  A sample is  *)
(* named by the port, cycle and frame it was taken from on the sender.    *)
(***************************************************************************)
EXTENDS Integers, Sequences, FiniteSets, SequencesExt, NetLayout

CONSTANTS
    NPorts,       \* fNPorts, the same on both hosts
    PeriodSize,   \* fPeriodSize, frames per cycle
    Mtu,          \* params->fMtu
    MaxCycle,     \* bound: cycles the sender runs
    MaxLag,       \* bound: how many cycles old a delivered packet may be
    MaxReceives,  \* bound: packets the receiver renders per cycle
    ActiveSets,   \* the sets of connected ports the sender's driver may set
    Junk,         \* bytes never written by this code (model value)
    Silence       \* a zero sample written by memset (model value)

Ports == 0 .. NPorts - 1
Frames == 0 .. PeriodSize - 1
PacketSize == PacketAvailableSize(Mtu)

ASSUME /\ NPorts \in Nat \ {0} /\ PeriodSize \in Nat \ {0}
       /\ Mtu > HeaderSize /\ ActiveSets \subseteq SUBSET Ports
       /\ MaxCycle \in Nat /\ MaxLag \in Nat /\ MaxReceives \in Nat

Sample(p, c, f) == [port |-> p, cycle |-> c, frame |-> f]
Samples == {Sample(p, c, f) : p \in Ports, c \in 1 .. MaxCycle, f \in Frames}
IndexWord(p) == [kind |-> "index", val |-> p]
SampleWord(s) == [kind |-> "sample", val |-> s]

VARIABLES
    sBuf,        \* sender fPortBuffer: TRUE for a non-NULL buffer
    sSubPeriod,  \* sender fSubPeriodSize
    sSubBytes,   \* sender fSubPeriodBytesSize
    sNum,        \* packets of the current cycle (GetNumPackets)
    sNext,       \* next sub_cycle the sender's driver renders
    sCycle,      \* sender's cycle counter (fCycle of the header)
    sPc,         \* sender driver step: "set", "sync", "size", "render"
    syncQ,       \* sync packets carrying the active-port list
    net,         \* audio packets in flight
    rBuf,        \* receiver port buffers: port -> frame -> sample
    rActive,     \* receiver fPortBuffer: TRUE for a non-NULL buffer
    rLast,       \* receiver fLastSubCycle
    rCycle,      \* cycle of the sync packet the receiver last took
    rPhase,      \* receiver driver step: "sync" or "data"
    rSeq,        \* history: sub_cycles rendered this cycle (port_num > 0)
    rRecvs,      \* packets rendered this cycle
    rErr,        \* NET_PACKET_ERROR returned this cycle
    rFault       \* "none", or the undefined behaviour a write hit

senderVars == <<sBuf, sSubPeriod, sSubBytes, sNum, sNext, sCycle, sPc>>
receiverVars == <<rBuf, rActive, rLast, rCycle, rPhase, rSeq, rRecvs, rErr, rFault>>
vars == <<senderVars, syncQ, net, receiverVars>>

\* The JackPortList constructor: every buffer NULL, the sub-period sized for
\* the larger channel count, fLastSubCycle = -1.
Init ==
    /\ sBuf = [p \in Ports |-> FALSE]
    /\ sSubPeriod = SubPeriodFor(PacketSize, NPorts, PeriodSize)
    /\ sSubBytes = sSubPeriod * SampleSize
    /\ sNum = 0 /\ sNext = 0 /\ sCycle = 0 /\ sPc = "set"
    /\ syncQ = <<>> /\ net = {}
    /\ rBuf = [p \in Ports |-> [f \in Frames |-> Junk]]
    /\ rActive = [p \in Ports |-> FALSE]
    /\ rLast = -1 /\ rCycle = 0 /\ rPhase = "sync"
    /\ rSeq = <<>> /\ rRecvs = 0 /\ rErr = FALSE /\ rFault = "none"

ActiveList(buf) == SetToSortSeq({p \in Ports : buf[p]}, <)

-----------------------------------------------------------------------------
(* Sender *)

\* The driver sets every port's buffer for the new cycle (SetBuffer): the
\* buffer of a connected port, NULL for the others.
SetBuffers ==
    /\ sPc = "set" /\ sCycle < MaxCycle
    /\ \E S \in ActiveSets : sBuf' = [p \in Ports |-> p \in S]
    /\ sCycle' = sCycle + 1
    /\ sPc' = "sync"
    /\ UNCHANGED <<sSubPeriod, sSubBytes, sNum, sNext, syncQ, net, receiverVars>>

\* ActivePortsToNetwork: the indices of the non-NULL buffers, in port order,
\* and their count, carried by the sync packet of the cycle.
ActivePortsToNetwork ==
    /\ sPc = "sync"
    /\ syncQ' = Append(syncQ, [cycle |-> sCycle, ports |-> ActiveList(sBuf),
                               num |-> Len(ActiveList(sBuf))])
    /\ sPc' = "size"
    /\ UNCHANGED <<sBuf, sSubPeriod, sSubBytes, sNum, sNext, sCycle, net, receiverVars>>

\* GetNumPackets: count the active ports, size the sub-period for them and
\* return the packet count.
GetNumPackets ==
    LET active == Cardinality({p \in Ports : sBuf[p]})
        sub == SubPeriodFor(PacketSize, active, PeriodSize)
    IN  /\ sPc = "size"
        /\ sSubPeriod' = sub
        /\ sSubBytes' = OptSubPeriodBytes(sub)
        /\ sNum' = NumPacketsFor(PeriodSize, sub)
        /\ sNext' = 0
        /\ sPc' = "render"
        /\ UNCHANGED <<sBuf, sCycle, syncQ, net, receiverVars>>

\* One port's chunk of sub_cycle: its index word, then the words of frames
\* [sub_cycle * fSubPeriodSize, +fSubPeriodSize) (the memcpy of
\* fSubPeriodBytesSize - 4 bytes).
Chunk(p, sub) ==
    <<IndexWord(p)>> \o
        [j \in 1 .. (sSubBytes - PortIndexSize) \div SampleSize |->
            SampleWord(Sample(p, sCycle, sub * sSubPeriod + j - 1))]

\* Variant of RenderToNetwork whose driver loop runs one sub-cycle too far
\* (sub_cycle <= GetNumPackets()).
RenderToNetworkPastEnd ==
    LET L == ActiveList(sBuf)
        pkt == [cycle |-> sCycle, sub |-> sNext, portNum |-> Len(L),
                size |-> Len(L) * sSubBytes,
                payload |-> FlattenSeq([i \in 1 .. Len(L) |-> Chunk(L[i], sNext)])]
    IN  /\ sPc = "render" /\ sNext =< sNum
        /\ net' = net \cup {pkt}
        /\ sNext' = sNext + 1
        /\ sPc' = IF sNext = sNum THEN "set" ELSE "render"
        /\ UNCHANGED <<sBuf, sSubPeriod, sSubBytes, sNum, sCycle, syncQ, receiverVars>>

\* RenderToNetwork(sub_cycle): a chunk per non-NULL buffer, in port order;
\* port_num is their count and the packet size port_num * fSubPeriodBytesSize.
\* The driver sends the packet and moves on; after the last sub-cycle the
\* cycle is over.
RenderToNetwork ==
    LET L == ActiveList(sBuf)
        pkt == [cycle |-> sCycle, sub |-> sNext, portNum |-> Len(L),
                size |-> Len(L) * sSubBytes,
                payload |-> FlattenSeq([i \in 1 .. Len(L) |-> Chunk(L[i], sNext)])]
    IN  /\ sPc = "render" /\ sNext < sNum
        /\ net' = net \cup {pkt}
        /\ sNext' = sNext + 1
        /\ sPc' = IF sNext + 1 = sNum THEN "set" ELSE "render"
        /\ UNCHANGED <<sBuf, sSubPeriod, sSubBytes, sNum, sCycle, syncQ, receiverVars>>

-----------------------------------------------------------------------------
(* Network *)

\* A datagram is lost.
Lose ==
    /\ \E pkt \in net : net' = net \ {pkt}
    /\ UNCHANGED <<senderVars, syncQ, receiverVars>>

-----------------------------------------------------------------------------
(* Receiver *)

\* Variant of ActivePortsFromNetwork that does not first set every buffer
\* NULL: ports of the previous cycle stay non-NULL.
ActivePortsFromNetworkNoReset ==
    /\ rPhase = "sync" /\ rFault = "none" /\ syncQ # <<>>
    /\ LET m == Head(syncQ)
       IN  /\ rActive' = [p \in Ports |-> rActive[p] \/ \E i \in 1 .. m.num : m.ports[i] = p]
           /\ rCycle' = m.cycle
    /\ syncQ' = Tail(syncQ)
    /\ rPhase' = "data"
    /\ rSeq' = <<>> /\ rRecvs' = 0 /\ rErr' = FALSE
    /\ UNCHANGED <<senderVars, net, rBuf, rLast, rFault>>

\* ActivePortsFromNetwork: every buffer NULL, then the sentinel -1 for each
\* listed index in [0, fNPorts); an index out of range is only logged.  The
\* driver then hands a real buffer to every non-NULL port.
ActivePortsFromNetwork ==
    /\ rPhase = "sync" /\ rFault = "none" /\ syncQ # <<>>
    /\ LET m == Head(syncQ)
       IN  /\ rActive' = [p \in Ports |-> \E i \in 1 .. m.num : m.ports[i] = p]
           /\ rCycle' = m.cycle
    /\ syncQ' = Tail(syncQ)
    /\ rPhase' = "data"
    /\ rSeq' = <<>> /\ rRecvs' = 0 /\ rErr' = FALSE
    /\ UNCHANGED <<senderVars, net, rBuf, rLast, rFault>>

\* The word at 1-based position i of a payload; past the received bytes the
\* network buffer holds bytes of no packet of this model.
WordAt(pl, i) == IF i \in 1 .. Len(pl) THEN pl[i] ELSE [kind |-> "junk", val |-> 0]

\* The value a word gives as uint32_t port index, -1 when it is sample bytes.
AsIndex(w) == IF w.kind = "index" THEN w.val ELSE -1

\* Bytes of an index word or of no packet, read as a sample.
Garbage == [port |-> -1, cycle |-> 0, frame |-> -1]

\* The value memcpy stores from a word into a sample slot.
AsSample(w) == IF w.kind = "sample" THEN w.val ELSE Garbage

\* Variant: the receiver keeps the sub-period of its constructor instead of
\* recomputing it from the sender's port_num.
RecvSubPeriodFixed(n) == SubPeriodFor(PacketSize, NPorts, PeriodSize)

\* The receiver's layout of a packet from its port_num alone:
\* sub_period_size and sub_period_bytes_size, in words.
RecvSubPeriod(n) == SubPeriodFor(PacketSize, n, PeriodSize)
RecvStride(n) == OptSubPeriodBytes(RecvSubPeriod(n)) \div SampleSize

\* The chunks port_index = 0 .. port_num-1 copies: those whose
\* fPortBuffer[port_index] is non-NULL; each goes to fPortBuffer[active_port].
CopiedChunks(pkt) == {k \in 0 .. pkt.portNum - 1 : k \in Ports /\ rActive[k]}
ChunkPort(pkt, k) == AsIndex(WordAt(pkt.payload, k * RecvStride(pkt.portNum) + 1))
ChunkWord(pkt, k, j) == WordAt(pkt.payload, k * RecvStride(pkt.portNum) + 2 + j)

\* The (port, frame, value) stores of the memcpy calls of one packet.
Stores(pkt) ==
    {<<ChunkPort(pkt, k), pkt.sub * RecvSubPeriod(pkt.portNum) + j, k,
       AsSample(ChunkWord(pkt, k, j))>> :
        k \in CopiedChunks(pkt), j \in 0 .. RecvSubPeriod(pkt.portNum) - 1}

\* The undefined behaviour a store hits, if any: an index outside the port
\* array, a NULL destination buffer, or a frame past the buffer's end.
StoreFault(pkt) ==
    LET st == Stores(pkt) IN
    IF \E s \in st : s[1] \notin Ports THEN "bad_port"
    ELSE IF \E s \in st : ~rActive[s[1]] THEN "null_port"
    ELSE IF \E s \in st : s[2] \notin Frames THEN "overrun"
    ELSE "none"

\* Variant: the memset runs for every sub_cycle, not only the first.
ClearedEverySub(pkt) ==
    [p \in Ports |-> IF rActive[p] THEN [f \in Frames |-> Silence] ELSE rBuf[p]]

\* memset of every non-NULL buffer when sub_cycle = 0.
Cleared(pkt) ==
    IF pkt.sub = 0
    THEN [p \in Ports |-> IF rActive[p] THEN [f \in Frames |-> Silence] ELSE rBuf[p]]
    ELSE rBuf

\* The buffers after the stores, a later chunk overwriting an earlier one.
Stored(pkt) ==
    LET st == Stores(pkt)
        base == Cleared(pkt)
    IN  [p \in Ports |-> [f \in Frames |->
            IF \E s \in st : s[1] = p /\ s[2] = f
            THEN (CHOOSE s \in st : s[1] = p /\ s[2] = f
                     /\ \A t \in st : (t[1] = p /\ t[2] = f) => t[3] =< s[3])[4]
            ELSE base[p][f]]]

\* RenderFromNetwork(cycle, sub_cycle, copy_size, port_num) on a packet the
\* driver received; the cycle argument is not used.  A datagram may be
\* delivered again later (kept in net).
RenderFromNetwork ==
    /\ rPhase = "data" /\ rFault = "none" /\ rRecvs < MaxReceives
    /\ \E pkt \in net, keep \in BOOLEAN :
        /\ pkt.cycle \in rCycle - MaxLag .. rCycle
        /\ net' = IF keep THEN net ELSE net \ {pkt}
        /\ IF pkt.portNum > 0
           THEN /\ rBuf' = Stored(pkt)
                /\ rFault' = StoreFault(pkt)
                /\ rErr' = (rErr \/ pkt.sub # rLast + 1)
                /\ rLast' = pkt.sub
                /\ rSeq' = Append(rSeq, pkt.sub)
           ELSE /\ rBuf' = Cleared(pkt)
                /\ UNCHANGED <<rFault, rErr, rLast, rSeq>>
    /\ rRecvs' = rRecvs + 1
    /\ UNCHANGED <<senderVars, syncQ, rActive, rCycle, rPhase>>

\* Variant of RenderToJackPorts without the reset of fLastSubCycle.
RenderToJackPortsNoReset ==
    /\ rPhase = "data" /\ rFault = "none"
    /\ rPhase' = "sync"
    /\ UNCHANGED <<senderVars, syncQ, net, rBuf, rActive, rLast, rCycle, rSeq, rRecvs, rErr, rFault>>

\* RenderToJackPorts, inherited from JackPortList: reset fLastSubCycle for
\* the next cycle.  The driver calls it when it stops receiving the cycle.
RenderToJackPorts ==
    /\ rPhase = "data" /\ rFault = "none"
    /\ rLast' = -1
    /\ rPhase' = "sync"
    /\ UNCHANGED <<senderVars, syncQ, net, rBuf, rActive, rCycle, rSeq, rRecvs, rErr, rFault>>

\* Both hosts have run their cycles and every datagram is gone.
Finished ==
    /\ sCycle = MaxCycle /\ sPc = "set"
    /\ rPhase = "sync" /\ syncQ = <<>> /\ net = {}
    /\ UNCHANGED vars

Next ==
    \/ SetBuffers \/ ActivePortsToNetwork \/ GetNumPackets \/ RenderToNetwork
    \/ Lose
    \/ ActivePortsFromNetwork \/ RenderFromNetwork \/ RenderToJackPorts
    \/ Finished

Spec == Init /\ [][Next]_vars

\* Each host's driver runs its cycle on a real-time thread: a step of the
\* sender that is possible is taken, and the receiver takes every sync
\* packet and ends every cycle (RenderToJackPorts).  The network owes
\* nothing: no fairness on delivering or losing a datagram.
Fairness ==
    /\ WF_vars(SetBuffers) /\ WF_vars(ActivePortsToNetwork)
    /\ WF_vars(GetNumPackets) /\ WF_vars(RenderToNetwork)
    /\ WF_vars(ActivePortsFromNetwork) /\ WF_vars(RenderToJackPorts)

FairSpec == Spec /\ Fairness

-----------------------------------------------------------------------------
(* Properties *)

Words == {IndexWord(p) : p \in Ports} \cup {SampleWord(s) : s \in Samples}
Packets == [cycle : 1 .. MaxCycle, sub : 0 .. PeriodSize - 1, portNum : 0 .. NPorts,
            size : Nat, payload : Seq(Words)]

TypeOK ==
    /\ sBuf \in [Ports -> BOOLEAN] /\ rActive \in [Ports -> BOOLEAN]
    /\ sSubPeriod \in 0 .. PeriodSize /\ sNum \in 0 .. PeriodSize
    /\ sNext \in 0 .. sNum /\ sCycle \in 0 .. MaxCycle
    /\ sPc \in {"set", "sync", "size", "render"}
    /\ net \subseteq Packets
    /\ rBuf \in [Ports -> [Frames -> Samples \cup {Junk, Silence, Garbage}]]
    /\ rLast \in -1 .. PeriodSize - 1 /\ rCycle \in 0 .. MaxCycle
    /\ rPhase \in {"sync", "data"} /\ rSeq \in Seq(0 .. PeriodSize - 1)
    /\ rErr \in BOOLEAN /\ rFault \in {"none", "bad_port", "null_port", "overrun"}

\* Loss detection (RenderFromNetwork against fLastSubCycle, reset by
\* RenderToJackPorts): within a receiver cycle, NET_PACKET_ERROR has been
\* returned exactly when the sub-cycles rendered so far are not 0, 1, 2, ...
\* in this order, whatever the network lost, reordered or repeated.
ContiguousFromZero(s) == \A i \in 1 .. Len(s) : s[i] = i - 1
GapReported == rErr <=> ~ContiguousFromZero(rSeq)

\* The sender's layout (RenderToNetwork with fSubPeriodSize from
\* GetNumPackets) and the receiver's (sub_period_size recomputed from
\* port_num) agree: every sample the receiver stores lands on the port and
\* frame the sender took it from; nothing else but silence is written.
NoMisplacedSample ==
    \A p \in Ports, f \in Frames :
        \/ rBuf[p][f] \in {Junk, Silence}
        \/ rBuf[p][f].port = p /\ rBuf[p][f].frame = f

\* A cycle the receiver ends after rendering sub-cycles 0 .. n-1 once each
\* and in order (n the packet count of its active ports), i.e. without loss,
\* leaves every non-NULL port buffer holding exactly that cycle's samples.
ActiveCount == Cardinality({p \in Ports : rActive[p]})
CycleDelivered ==
    /\ rPhase = "sync" /\ rCycle > 0
    /\ rSeq = [i \in 1 .. NumPacketsFor(PeriodSize, RecvSubPeriod(ActiveCount)) |-> i - 1]
ReceivedCycleIsComplete ==
    CycleDelivered =>
        \A p \in Ports : rActive[p] => \A f \in Frames : rBuf[p][f] = Sample(p, rCycle, f)

\* The memset at sub_cycle 0 clears the whole period, also when sub-cycle 0
\* comes after later sub-cycles (reordered) or again (duplicated): within a
\* receiver cycle, a step that erases or replaces a sample of that cycle
\* already stored leaves NET_PACKET_ERROR reported for the cycle, so the
\* driver never takes a cycle with lost audio for a complete one.
DeliveredSampleKept ==
    [][rPhase = "data" /\ rPhase' = "data" =>
         \/ rErr'
         \/ \A p \in Ports, f \in Frames :
               rBuf[p][f] \in Samples /\ rBuf[p][f].cycle = rCycle =>
                   rBuf'[p][f] = rBuf[p][f]]_vars

\* RenderFromNetwork never stores through a NULL port buffer, outside the
\* port array or past the end of a buffer.
NoInvalidStore == rFault = "none"

\* Every audio packet fits the datagram: port_num * fSubPeriodBytesSize =<
\* PACKET_AVAILABLE_SIZE.
PayloadFitsMtu == \A pkt \in net : pkt.size =< PacketSize

\* The packets of a cycle carry the whole period:
\* GetNumPackets() * fSubPeriodSize = fPeriodSize.
CycleFullyCovered == sPc = "render" => sNum * sSubPeriod = PeriodSize

\* The audio path implements AudioTransfer: the sender has announced a cycle
\* once ActivePortsToNetwork has run for it; the announcements in flight
\* are the sync packets with their port lists as sets; the receiver's
\* cycle, phase and buffers are its own.  Every step of the two hosts and
\* the network is a step of AudioTransfer or leaves its state unchanged,
\* and under the drivers' fairness every announced cycle is taken and
\* ended.
Transfer == INSTANCE AudioTransfer WITH
    announced <- IF sPc = "sync" THEN sCycle - 1 ELSE sCycle,
    queue <- [i \in 1 .. Len(syncQ) |-> [cycle |-> syncQ[i].cycle, ports |-> Range(syncQ[i].ports)]],
    active <- {p \in Ports : rActive[p]},
    cycle <- rCycle,
    phase <- rPhase,
    out <- rBuf

TransferSpec == Transfer!Spec
=============================================================================
