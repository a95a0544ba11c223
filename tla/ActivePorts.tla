------------------------------ MODULE ActivePorts ------------------------------
(***************************************************************************)
(* The active-port list of JackOptimizedPortList (src/common/JackNetTool.h)*)
(* at its real scale: ActivePortsToNetwork writes the index of every       *)
(* non-NULL port buffer as a 16-bit short into the sync packet and asserts *)
(* after each one that fewer than 512 have been written;                   *)
(* ActivePortsFromNetwork sets every buffer NULL, then marks each listed   *)
(* index in [0, fNPorts) and logs any other.  One cycle after another the  *)
(* sender's driver sets the buffers, sends the list and the receiver's     *)
(* driver takes it.                                                        *)
(***************************************************************************)
EXTENDS Integers, Sequences, FiniteSets

CONSTANTS
    NPorts,      \* fNPorts, the same on both hosts
    ActiveSets,  \* the sets of connected ports the sender's driver may set
    MaxCycle     \* bound: cycles the hosts run

Ports == 0 .. NPorts - 1

ASSUME NPorts \in Nat /\ ActiveSets \subseteq SUBSET Ports /\ MaxCycle \in Nat

\* The value a short holds after *active_port_address = port_index: the
\* int truncated to 16 bits, read back signed.
Short(i) == LET u == i % 65536 IN IF u < 32768 THEN u ELSE u - 65536

\* The loop of ActivePortsToNetwork: the index of each non-NULL buffer, in
\* index order, as the short it is written as.
Listed(buf) ==
    LET indices == [i \in 1 .. NPorts |-> i - 1]
        L == SelectSeq(indices, LAMBDA port_index : port_index \in buf)
    IN  [i \in 1 .. Len(L) |-> Short(L[i])]

VARIABLES
    sBuf,     \* sender: the non-NULL port buffers
    wire,     \* the shorts of the sync packet, port_num of them
    rBuf,     \* receiver: the buffers marked (sample_t*)-1
    phase,    \* "set", "sync" (list to send), "sent" (list in flight)
    cycle,    \* cycles begun
    aborted   \* assert(port_num < 512) has failed

vars == <<sBuf, wire, rBuf, phase, cycle, aborted>>

Init ==
    /\ sBuf = {} /\ wire = <<>> /\ rBuf = {}
    /\ phase = "set" /\ cycle = 0 /\ aborted = FALSE

\* The driver sets every port's buffer for the new cycle.
SetBuffers ==
    /\ phase = "set" /\ cycle < MaxCycle
    /\ sBuf' \in ActiveSets
    /\ cycle' = cycle + 1 /\ phase' = "sync"
    /\ UNCHANGED <<wire, rBuf, aborted>>

\* ActivePortsToNetwork: the non-NULL ports in index order as shorts; the
\* assert fails as soon as the 512th has been written, and the process ends:
\* no action of either host follows.
ActivePortsToNetwork ==
    LET L == Listed(sBuf)
    IN  /\ phase = "sync" /\ ~aborted
        /\ IF Len(L) >= 512
           THEN /\ aborted' = TRUE
                /\ UNCHANGED <<wire, phase>>
           ELSE /\ wire' = L
                /\ phase' = "sent"
                /\ UNCHANGED aborted
        /\ UNCHANGED <<sBuf, rBuf, cycle>>

\* Variant of ActivePortsFromNetwork without the loop that sets every buffer
\* NULL first.
ActivePortsFromNetworkNoReset ==
    /\ phase = "sent"
    /\ rBuf' = rBuf \cup {wire[i] : i \in {j \in 1 .. Len(wire) : wire[j] >= 0 /\ wire[j] < NPorts}}
    /\ phase' = "set"
    /\ UNCHANGED <<sBuf, wire, cycle, aborted>>

\* ActivePortsFromNetwork(net_buffer, port_num): every buffer NULL, then the
\* marker for each listed index that is >= 0 and < fNPorts.
ActivePortsFromNetwork ==
    /\ phase = "sent"
    /\ rBuf' = {wire[i] : i \in {j \in 1 .. Len(wire) : wire[j] >= 0 /\ wire[j] < NPorts}}
    /\ phase' = "set"
    /\ UNCHANGED <<sBuf, wire, cycle, aborted>>

\* Both hosts have run their cycles.
Finished ==
    /\ cycle = MaxCycle /\ phase = "set"
    /\ UNCHANGED vars

Next == SetBuffers \/ ActivePortsToNetwork \/ ActivePortsFromNetwork \/ Finished

Spec == Init /\ [][Next]_vars

-----------------------------------------------------------------------------
(* Properties *)

TypeOK ==
    /\ sBuf \subseteq Ports /\ rBuf \subseteq Ports
    /\ wire \in Seq(-32768 .. 32767)
    /\ phase \in {"set", "sync", "sent"} /\ cycle \in 0 .. MaxCycle
    /\ aborted \in BOOLEAN

\* EncodeActivePorts then DecodeActivePorts reproduces the sender's set:
\* once the receiver has taken a cycle's list, its non-NULL ports are
\* exactly the sender's non-NULL ports of that cycle, and the sender has not
\* died on the 512-port assert on the way.
ActiveSetReachesReceiver ==
    /\ ~aborted
    /\ phase = "set" /\ cycle > 0 => rBuf = sBuf
=============================================================================
