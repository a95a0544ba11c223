----------------------------- MODULE WireCodec -----------------------------
(***************************************************************************)
(* The byte-order codec of the handshake and framing structures of         *)
(* src/common/JackNetTool.h: session_params_t, packet_header_t and         *)
(* net_transport_data_t, converted between host and network order by      *)
(* SessionParamsHToN/NToH, PacketHeaderHToN/NToH and                       *)
(* TransportDataHToN/NToH, and the packet type that GetPacketType and      *)
(* SetPacketType read and write in fPacketID.  The structs, the enums and  *)
(* the htonll/ntohll macros are in the header; the bodies of the           *)
(* conversion functions are not, and are modelled from the specification: *)
(* every multi-byte integer field is converted, character fields are not. *)
(*                                                                         *)
(* A field's value is its sequence of bytes, most significant first; a    *)
(* host stores it in memory in its own byte order.  A character array is   *)
(* stored as it is on every host.  Strings are shortened to two bytes.    *)
(***************************************************************************)
EXTENDS Integers, Sequences, SequencesExt

CONSTANTS Bytes   \* the byte values fields are built from

Hosts == {"LE", "BE"}

Width == [str |-> 2, char |-> 1, int32 |-> 4, int64 |-> 8]
Values(kind) == [1 .. Width[kind] -> Bytes]
Zero(kind) == [i \in 1 .. Width[kind] |-> 0]

\* The field layouts of the three structures: field -> kind.
SessionParamsLayout ==
    [fPacketType |-> "str", fProtocolVersion |-> "char", fPacketID |-> "int32",
     fName |-> "str", fMasterNetName |-> "str", fSlaveNetName |-> "str",
     fMtu |-> "int32", fID |-> "int32", fTransportSync |-> "int32",
     fSendAudioChannels |-> "int32", fReturnAudioChannels |-> "int32",
     fSendMidiChannels |-> "int32", fReturnMidiChannels |-> "int32",
     fSampleRate |-> "int32", fPeriodSize |-> "int32", fSampleEncoder |-> "int32",
     fKBps |-> "int32", fSlaveSyncMode |-> "int32", fNetworkLatency |-> "int32"]

PacketHeaderLayout ==
    [fPacketType |-> "str", fDataType |-> "char", fDataStream |-> "char",
     fID |-> "int32", fNumPacket |-> "int32", fPacketSize |-> "int32",
     fActivePorts |-> "int32", fCycle |-> "int32", fSubCycle |-> "int32",
     fIsLastPckt |-> "int32"]

\* net_transport_data_t with the integer fields of jack_position_t that
\* identify a position: its 64-bit unique_1 and usecs, frame_rate, frame.
TransportDataLayout ==
    [fNewState |-> "int32", fTimebaseMaster |-> "int32", fState |-> "int32",
     unique_1 |-> "int64", usecs |-> "int64", frame_rate |-> "int32",
     frame |-> "int32"]

Layouts == {SessionParamsLayout, PacketHeaderLayout, TransportDataLayout}

\* sync_packet_type_t, in declaration order.
PacketTypes == <<"INVALID", "SLAVE_AVAILABLE", "SLAVE_SETUP", "START_MASTER",
                 "START_SLAVE", "KILL_MASTER">>
EnumValue(t) == CHOOSE i \in 0 .. Len(PacketTypes) - 1 : PacketTypes[i + 1] = t
AsInt32(n) == <<0, 0, 0, n>>

(***************************************************************************)
(* Byte order.                                                             *)
(***************************************************************************)

\* The bytes of a field in a host's memory; reading memory back as a value
\* is the same permutation.
Store(h, kind, v) == IF kind \in {"int32", "int64"} /\ h = "LE" THEN Reverse(v) ELSE v

\* htonl/ntohl: the identity on a big-endian host, a byte swap otherwise.
Htonl(h, v) == IF h = "BE" THEN v ELSE Reverse(v)

\* Variant of htonll that puts the swapped halves back in their own places.
HtonllHalvesKept(h, x) ==
    IF h = "BE" THEN x ELSE Htonl(h, SubSeq(x, 1, 4)) \o Htonl(h, SubSeq(x, 5, 8))

\* htonll(x): ((uint64_t)htonl(x) << 32) + htonl(x >> 32): htonl of the low
\* half becomes the high half and htonl of the high half the low half.
Htonll(h, x) ==
    IF h = "BE" THEN x ELSE Htonl(h, SubSeq(x, 5, 8)) \o Htonl(h, SubSeq(x, 1, 4))

\* ntohll, the same expression with ntohl.
Ntohll(h, x) ==
    IF h = "BE" THEN x ELSE Htonl(h, SubSeq(x, 5, 8)) \o Htonl(h, SubSeq(x, 1, 4))

\* The conversion of one field: integers by htonl/htonll, characters kept.
ToNetwork(h, kind, v) ==
    CASE kind = "int32" -> Htonl(h, v)
      [] kind = "int64" -> Htonll(h, v)
      [] OTHER -> v
ToHost(h, kind, v) ==
    CASE kind = "int32" -> Htonl(h, v)
      [] kind = "int64" -> Ntohll(h, v)
      [] OTHER -> v

\* SessionParamsHToN, PacketHeaderHToN, TransportDataHToN (src -> dst):
\* every field converted by its kind; and the NToH functions.
HToN(h, L, s) == [f \in DOMAIN L |-> ToNetwork(h, L[f], s[f])]
NToH(h, L, s) == [f \in DOMAIN L |-> ToHost(h, L[f], s[f])]

\* The bytes a host sends of a struct, and the struct a host reads from bytes.
ToBytes(h, L, s) == [f \in DOMAIN L |-> Store(h, L[f], s[f])]
FromBytes(h, L, b) == [f \in DOMAIN L |-> Store(h, L[f], b[f])]

(***************************************************************************)
(* The packet type of the handshake.                                       *)
(***************************************************************************)

\* SetPacketType: the type's value in fPacketID.
SetPacketType(s, t) == [s EXCEPT !.fPacketID = AsInt32(EnumValue(t))]

\* GetPacketType: the type whose value fPacketID holds, INVALID otherwise.
GetPacketType(s) ==
    IF \E i \in 1 .. Len(PacketTypes) : s.fPacketID = AsInt32(i - 1)
    THEN PacketTypes[CHOOSE i \in 1 .. Len(PacketTypes) : s.fPacketID = AsInt32(i - 1)]
    ELSE "INVALID"

-----------------------------------------------------------------------------
(***************************************************************************)
(* One host sends a struct to another: the sender fills it (SetPacketType *)
(* for session parameters), converts it with HToN and sends its bytes; the *)
(* receiver converts the bytes with NToH.  The two hosts may differ in     *)
(* byte order.  A struct is any value of one field, all others zero: the   *)
(* conversions work field by field.                                       *)
(***************************************************************************)

Probes(L) ==
    UNION {{[g \in DOMAIN L |-> IF g = f THEN v ELSE Zero(L[g])] : v \in Values(L[f])} :
              f \in DOMAIN L}

VARIABLES
    sendHost, recvHost,  \* byte order of the two hosts
    layout,              \* the struct being exchanged
    msg,                 \* the sender's struct, in host order
    sentType,            \* the packet type the sender set
    wire,                \* the bytes on the network, <<>> before
    got,                 \* the receiver's struct after NToH, <<>> before
    phase                \* "idle", "filled", "sent", "received"

vars == <<sendHost, recvHost, layout, msg, sentType, wire, got, phase>>

NoMsg == [f \in DOMAIN SessionParamsLayout |-> Zero(SessionParamsLayout[f])]

Init ==
    /\ sendHost \in Hosts /\ recvHost \in Hosts
    /\ layout = SessionParamsLayout /\ msg = NoMsg
    /\ sentType = "none" /\ wire = <<>> /\ got = <<>>
    /\ phase = "idle"

\* The sender fills a struct in host order; session parameters also get
\* their packet type (SetPacketType).
Fill ==
    /\ phase = "idle"
    /\ \/ /\ layout' = SessionParamsLayout
          /\ \E s \in Probes(SessionParamsLayout), t \in Range(PacketTypes) :
                msg' = SetPacketType(s, t) /\ sentType' = t
       \/ /\ \E L \in {PacketHeaderLayout, TransportDataLayout} :
                layout' = L /\ \E s \in Probes(L) : msg' = s
          /\ sentType' = "none"
    /\ wire' = <<>> /\ got' = <<>>
    /\ phase' = "filled"
    /\ UNCHANGED <<sendHost, recvHost>>

\* The sender's HToN into the packet buffer, whose bytes go on the network.
Send ==
    /\ phase = "filled"
    /\ wire' = ToBytes(sendHost, layout, HToN(sendHost, layout, msg))
    /\ phase' = "sent"
    /\ UNCHANGED <<sendHost, recvHost, layout, msg, sentType, got>>

\* The receiver's NToH of the bytes it received.
Receive ==
    /\ phase = "sent"
    /\ got' = NToH(recvHost, layout, FromBytes(recvHost, layout, wire))
    /\ phase' = "received"
    /\ UNCHANGED <<sendHost, recvHost, layout, msg, sentType, wire>>

\* The receiver is done with the struct; the hosts go on to the next one.
Done ==
    /\ phase = "received"
    /\ layout' = SessionParamsLayout /\ msg' = NoMsg
    /\ sentType' = "none" /\ wire' = <<>> /\ got' = <<>>
    /\ phase' = "idle"
    /\ UNCHANGED <<sendHost, recvHost>>

Next == Fill \/ Send \/ Receive \/ Done

Spec == Init /\ [][Next]_vars

-----------------------------------------------------------------------------
(* Properties *)

TypeOK ==
    /\ sendHost \in Hosts /\ recvHost \in Hosts /\ layout \in Layouts
    /\ DOMAIN msg = DOMAIN layout
    /\ phase \in {"sent", "received"} => DOMAIN wire = DOMAIN layout
    /\ phase = "received" => DOMAIN got = DOMAIN layout
    /\ sentType \in Range(PacketTypes) \cup {"none"}
    /\ phase \in {"idle", "filled", "sent", "received"}

\* The codec between hosts of any byte order: what the receiver holds after
\* NToH is, field by field, what the sender held before HToN (the 64-bit
\* fields through htonll/ntohll), and GetPacketType on the receiver returns
\* the type SetPacketType wrote on the sender.  Between two hosts of the
\* same byte order any conversion that is its own inverse passes; only a
\* mixed pair tells a wrong one.
ReceiverSeesWhatSenderSet ==
    phase = "received" =>
        /\ got = msg
        /\ layout = SessionParamsLayout => GetPacketType(got) = sentType
=============================================================================
