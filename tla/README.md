# TLA+ models of the netjack packet layer (`src/common/JackNetTool.h`)

This directory holds TLA+ models of the packet layer that netjack uses to
carry audio between two JACK hosts. It has the modules, the TLC
configurations that check them, and `PROJECT.json`. `PROJECT.json` lists the
components, the runs, the mutants, the map from definitions to source lines,
the findings and the hazards.

## 1. Inventory

The only source file is `src/common/JackNetTool.h`. It declares the whole
layer. It contains the bodies of `JackPortList` and `JackOptimizedPortList`,
which size and render audio packets. The other classes and functions are
declared here, but their bodies live in `JackNetTool.cpp`, which is not among
the sources.

| Component | State it keeps | Operations | Source |
|---|---|---|---|
| Packet sizing (AudioFrameLayout) | `fPeriodSize`, `fSubPeriodSize`, `fSubPeriodBytesSize`, `fPacketSize`, `fCycleSize` | constructor, `GetNumPackets`, `GetCycleSize`, `GetCycleDuration` | lines 343-377, 543-565 |
| Active-port set | `fPortBuffer[]` (NULL = inactive) | `SetBuffer`, `ActivePortsToNetwork`, `ActivePortsFromNetwork` | 393-401, 639-673 |
| Optimized render path (little-endian) | `fPortBuffer[]`, `fLastSubCycle` | `RenderToNetwork`, `RenderFromNetwork`, `RenderToJackPorts` | 574-635, 486-490 |
| Plain render path and big-endian variants | same, plus `SwapFloat` | the same operations | 422-529, 567-569 |
| NetFloatAudioBuffer / NetFloatAudioBuffer1 | one port list | forwards to the port list | 677-772 |
| NetIntAudioBuffer, NetCeltAudioBuffer | integer / CELT buffers | declared only | 774-870 |
| NetMidiBuffer | intermediate MIDI buffer | declared only | 231-269 |
| Wire codec | `session_params_t`, `packet_header_t`, `net_transport_data_t` | HToN/NToH declared; `htonll` macro | 32-40, 87-212, 874-896 |
| Handshake packet type | `fPacketID` | `GetPacketType`/`SetPacketType` declared | 135-145 |

**How the parts interact.** A master and a slave each own one buffer
object per direction. Per cycle, the sending driver does these steps in
order:

1. It hands each port's buffer to the list with `SetBuffer`. A NULL buffer
   means the port is not connected.
2. It puts the active-port list in the sync packet (`ActivePortsToNetwork`).
3. It asks `GetNumPackets` for the packet count. This also sizes the
   sub-period.
4. It calls `RenderToNetwork(sub_cycle)` for sub-cycles 0 .. n-1 and sends
   each packet over UDP.

The receiving driver takes the list (`ActivePortsFromNetwork`). It renders
every audio packet it receives (`RenderFromNetwork`) and ends the cycle
(`RenderToJackPorts`). The two hosts share only the datagrams. The network
can lose, reorder, duplicate and delay them.

**What is hard.**

- Loss detection depends on the order packets arrive in. It must survive
  reordering and duplicates.
- The receiver recomputes the sender's layout from `port_num` alone.
- The active set changes between cycles while older packets may still be in
  flight.
- The sizing uses floating-point `log`/`powf` with truncation. It has edges
  at tiny MTUs and at exact powers of two.
- The packet budget (MTU minus header) must hold the samples and the 4-byte
  port indices.

**What makes each part correct.**

- Sizing: a packet fits the MTU, and the packets of a cycle cover the
  period.
- Active set: the receiver sees exactly the sender's active ports.
- Render path:
  - no sample lands on the wrong port or frame;
  - a cycle received without loss is delivered completely;
  - loss is reported exactly when the sub-cycle sequence has a gap;
  - no store goes through a NULL buffer or past the end of a buffer.
- Wire codec: encoding then decoding gives back the original (round trip).

## 2. Plan

Modules, most important first, with their state:

1. `NetLayout` (done): the sizing arithmetic as operators, shared by every
   layout, with the reference sizing rule of the specification.
2. `OptimizedPortList` + `MCOptimizedPortList` (done): the default audio path
   end to end, with the sender, a lossy network and the receiver, and its
   refinement of `AudioTransfer` under fairness.
3. `PortList` + `MCPortList` (done): the plain layout and the big-endian
   variants, and their refinement of `AudioTransfer`.
4. `AudioFrameLayout` + `MCAudioFrameLayout` (done): the sizing state of
   one list over a sweep of session parameters, checked against the rule.
5. `ActivePorts` + `MCActivePorts` (done): the index list at real scale.
6. `AudioTransfer` (done): the abstract per-cycle transfer.
7. `WireCodec` + `MCWireCodec` (done): the byte-order round trip of the
   three wire structures and the packet type. Their bodies are not in the
   sources, so they are modelled from the specification (`spec_modelled`).
8. Still open: `NetMidiBuffer` and `NetIntAudioBuffer`, declared only
   (see section 5).

## 3. Modules

### `NetLayout`

This module has no variables. Its operators are:

- `HeaderSize` (40 bytes, from the layout of `packet_header_t`) and
  `PacketAvailableSize`.
- `Pow2Trunc`. It computes `(int) powf(2, (int)(log(x)/log(2.)))`:
  - the exponent is truncated toward zero;
  - a quotient in (1/2, 1) gives 1, and a smaller quotient gives 0;
  - at 2^13, 2^15, ..., 2^23 a correctly rounded `logf` lands just below the
    exponent, so the result is one power too low.
- `SubPeriodFor`: the power of two, capped by the period.
- `NumPacketsFor`, `OptSubPeriodBytes` and `CycleSizeFor`.
- `SpecSubPeriod`: the reference rule of the specification, stated with
  sets rather than logarithms. It is the largest power of two P not above
  the period such that P * channels * 4 bytes fits in
  `PACKET_AVAILABLE_SIZE`. `AudioFrameLayout` checks `SubPeriodFor`
  against it.

### `OptimizedPortList`

**State.** Sender variables start with `s`:

- `sBuf` stands for `fPortBuffer` and is TRUE where the buffer is non-NULL.
- `sSubPeriod` and `sSubBytes` are `fSubPeriodSize` and
  `fSubPeriodBytesSize`.
- `sNum`, `sNext` and `sPc` are the driver's loop.

Receiver variables start with `r`:

- `rBuf` holds the receiver's port buffers frame by frame.
- `rActive` is the receiver's non-NULL set and `rLast` is `fLastSubCycle`.
- `rSeq` and `rErr` are history variables: the sub-cycles rendered this
  cycle, and whether `NET_PACKET_ERROR` was returned.
- `rFault` records undefined behaviour: a store through NULL, outside the
  port array, or past the end of a buffer.

Between the hosts, `syncQ` carries the sync packets and `net` the audio
datagrams.

**Data.** A payload is a sequence of 4-byte words, as on the wire:

- an index word `[kind |-> "index", val |-> p]`;
- sample words whose sample is `Sample(port, cycle, frame)` as taken on the
  sender.

The receiver parses the payload with its own stride. A misaligned parse
therefore reads sample bytes as an index, or index bytes as a sample
(`Garbage`).

**Actions.**

| Action | Models |
|---|---|
| `SetBuffers` | the driver's `SetBuffer` calls (any set in `ActiveSets`) |
| `ActivePortsToNetwork` | lines 639-654 |
| `GetNumPackets` | lines 543-565 |
| `RenderToNetwork` | lines 619-635, one call of the driver's loop |
| `Lose` | the network drops a datagram |
| `ActivePortsFromNetwork` | lines 656-673 |
| `RenderFromNetwork` | lines 574-617, including the memset at sub-cycle 0, the copies and the loss check |
| `RenderToJackPorts` | lines 486-490 |

`RenderFromNetwork` handles two network behaviours:

- Duplication: a delivered datagram may stay in `net` (`keep`).
- Delay: a packet up to `MaxLag` cycles old may be delivered.

**Abstractions.**

- Sample values are abstracted to their origin.
- The sync packet travels on a reliable FIFO. The slave's driver blocks until
  it has the sync packet.
- The driver ends a receive cycle at any point (`RenderToJackPorts` is always
  enabled in the data phase). In the real driver this happens on the last
  packet, on a timeout or on the next sync packet.
- After `ActivePortsFromNetwork`, the receiving driver gives every listed
  port a real buffer. The receiver's non-NULL set is therefore the sender's
  list.

### `PortList`

This module has the same sender/network/receiver shape as
`OptimizedPortList`, but for the render functions `JackPortList` itself
defines. It has three constants:

- `SenderBE` and `ReceiverBE` select the `__BIG_ENDIAN__` variant on each
  host.
- `Optimized` makes the lists big-endian `JackOptimizedPortList`s. Their
  sizing and active-port functions are the optimized ones, but their render
  functions are the inherited plain ones (line 569 is `// TODO`).

Byte order is modelled explicitly:

- A sample word carries the byte order it is in (`le`).
- `SwapFloat` flips that byte order.
- `Decoded` gives the receiver's value. A sample read in the wrong byte order
  becomes `Garbage`.

The sender's loads are checked like the receiver's stores (`sFault`): a load
through a NULL buffer or past the end of a buffer is recorded as a fault.

The receiver keeps the constructor's sizes (`fSubPeriodSize` from the larger
channel count). The receiving driver is not in the sources, so whether it
calls `GetNumPackets` on its list is not known. The findings of this module
only involve the sender's render and the receiver's loss check, so they do
not depend on this choice.

`PortList` also instantiates `AudioTransfer`, with the same mapping as
`OptimizedPortList` except that a plain sync packet announces every port
(the plain list sends no port list, and its receiver's driver gives every
port a buffer). `TransferSpec` is checked under `FairSpec` (weak fairness
on the same six driver actions). So both layouts are shown to implement
one abstract transfer. With the mixed-endian configuration, a word the
sender forgot to swap would be stored as `Garbage`, which `Deliver` never
allows.

### `AudioFrameLayout`

This module holds the sizing state of one `JackOptimizedPortList` over
every session-parameter record in `Params` (MTU, send and return channel
counts, period). The ports are reduced to how many are connected, because
the sizes depend only on that count.

| Action | Models |
|---|---|
| `Init` | the default constructor (lines 379-386) |
| `Construct` | `JackPortList(params, nports)` (lines 343-368). It sizes for max(send, return) channels and fixes `fCycleSize`. It only takes sessions that satisfy `ValidSession`, the specification's invariant that the MTU holds one sample per channel. |
| `Connect` / `Disconnect` | `SetBuffer` (lines 393-396), setting a NULL entry to a buffer or the reverse |
| `GetNumPackets` | lines 543-565: it resizes for the connected ports and leaves `fCycleSize` alone |

`counted` is a history variable. It holds the channel count of the last
sizing.

The MC module picks MTUs at every threshold where p frames of n channels
just fit, and one byte either side of each. Here p runs over the powers of
two up to 64 and n over 1 to 4. It adds the header-only MTU and 1500. This
gives about 100k states.

The periods are powers of two. For any other period the code caps the
sub-period at the period itself, which is not a power of two. No rule of
that form can then be met; `period_coverage` shows the consequence.

### `ActivePorts`

This module models `ActivePortsToNetwork` and `ActivePortsFromNetwork` at
their real scale: 515 ports, over several cycles.

- `Listed` is the sender's loop. It writes each non-NULL index in order as
  a 16-bit `short`, computed by `Short`.
- The sender aborts when the 512th index has been written
  (`assert(port_num < 512)`). Nothing runs after that.
- The receiver first sets every buffer NULL. It then marks each listed
  index that lies in `[0, fNPorts)`.

### `AudioTransfer`

This is the abstract specification of the audio path. It has no packets,
sub-periods or layouts.

- The sender announces each cycle with its set of ports (`Announce`).
- The receiver takes the announcements in order (`Take`).
- While a cycle is open, a port buffer changes only on the ports announced
  for that cycle (`Deliver`). It changes only to silence or to the sample
  that the cycle's sender took for that very port and frame.
- Any sample may be missing.
- `WF(Take)` and `WF(End)`: every announcement is eventually taken and
  every cycle ended.

`OptimizedPortList` defines `Transfer == INSTANCE AudioTransfer WITH ...`.
The refinement mapping is:

- `announced` is the sender's cycle, less one while the sync packet of that
  cycle is still to be sent.
- `queue` is the sync packets in flight, with each port list turned into a
  set.
- `active`, `cycle`, `phase` and `out` are the receiver's `rActive`,
  `rCycle`, `rPhase` and `rBuf`.

`FairSpec` is `Spec` with weak fairness on the six driver actions.
`TransferSpec` (`Transfer!Spec`) is checked as a `PROPERTY` under
`FairSpec`. It covers both safety (every step is an `AudioTransfer` step or
a stutter) and liveness (every announced cycle is taken and ended).

### `WireCodec`

This module models the byte-order codec of `session_params_t`,
`packet_header_t` and `net_transport_data_t`, and the packet type in
`fPacketID`.

- The field layouts, the `sync_packet_type_t` enum and the `htonll`/`ntohll`
  macros are in the header and are translated from it.
- The HToN/NToH bodies are modelled from the specification:
  - every integer field is converted;
  - character fields are left as they are.
- A field is a sequence of bytes, most significant first. `Store` gives a
  host's memory image of a field.
- `Htonll` is `htonl` of the low half followed by `htonl` of the high half,
  as the macro is written.

A sender fills one struct, with `SetPacketType` for session parameters.
The sender's host may differ from the receiver's in byte order. Each probe
sets one field to any value and all others to zero, because the conversion
works field by field. Strings are shortened to two bytes and byte values to
{0, 1}.

## 4. Runs

The `MCOptimizedPortList` runs use 3 ports, 2 cycles and at most 3 renders
per cycle. `Mtu = 60` leaves 20 bytes for audio. With a 4-frame period this
gives:

- 1 active port: sub-period 4, 1 packet;
- 2 active ports: sub-period 2, 2 packets;
- 3 active ports: sub-period 1, 4 packets.

So the runs reach single-packet and multi-packet cycles. They also reach
reordering within a cycle, and changes of the active set between cycles.

| Run | Expect | Shows |
|---|---|---|
| `within_cycle` | pass | Setup: any active sets; loss, reordering and duplicates within the current cycle (`MaxLag = 0`). `GapReported`: the error flag equals "the rendered sub-cycles are not 0,1,2,..". `NoMisplacedSample`: every stored sample sits at its own port and frame. `DeliveredSampleKept` (an action property): a step that erases or replaces a sample of the cycle already stored always leaves `NET_PACKET_ERROR` reported. The memset at sub-cycle 0 does erase samples when sub-cycle 0 arrives late or twice, so the property is about the loss report covering every such erasure. About 660k states. |
| `sparse_ports` | violation | `ReceivedCycleIsComplete` fails for active set {1}: the NULL test at line 603 looks at the chunk's position, not at its port. |
| `late_packet` | violation | `MaxLag = 1`: a cycle-1 packet for port 1 arrives after cycle 2 made only port 0 active, and is stored through a NULL buffer. |
| `mtu_budget` | violation | With 2 active ports a packet carries 24 bytes where 20 are available. |
| `period_coverage` | violation | A 6-frame period gives 1 packet of 4 frames. |
| `refines_transfer` | pass | 2 ports, 3 cycles, `FairSpec`: `OptimizedPortList` implements `AudioTransfer` under the refinement mapping, liveness included. |
| `plain_mixed_endian` | pass | `MCPortList`, 2 ports, plain layout. A big-endian sender swaps and a little-endian receiver copies, over a lossy, reordering, duplicating network. `GapReported` holds, and `ReceivedCycleIsComplete` holds in the receiver's byte order. Under `FairSpec`, the plain path implements `AudioTransfer` (`TransferSpec`), liveness included. |
| `be_receiver_reset` | violation | Big-endian receiver: the second cycle's sub-cycle 0 is reported as lost, because `fLastSubCycle` was never reset. |
| `be_optimized_sender` | violation | Big-endian optimized sender: `RenderToNetwork` reads the NULL buffer of an unconnected port. |
| `layout_rule` | pass | Over the MTU thresholds, 0-4 channels and periods 1-64: after the constructor and after every `GetNumPackets`, the sub-period is the specification's rule for the channels it was sized for (`SubPeriodIsSpecRule`). The packets a cycle takes never exceed the fixed `GetCycleSize()` (`CycleSizeBoundsTraffic`). About 103k states. |
| `wire_roundtrip` | pass | Between hosts of either byte order, NToH after HToN gives back every field of the three structs, and `GetPacketType` returns the type `SetPacketType` wrote. About 23k states. |
| `active_ports` | pass | 515 ports, 4 cycles, active sets {}, {0}, {3, 514} and 0..510. Every cycle the receiver's set equals the sender's, even when the set shrinks between cycles. |

**Mutants.** Every property of a passing run has a mutant in
`PROJECT.json`. Each mutant is a plausible bug, and TLC finds the property
violated with it:

| Run | Property | Mutant (definition replaced) |
|---|---|---|
| `within_cycle` | `TypeOK` | `RenderToNetworkPastEnd` (`RenderToNetwork`) |
| `within_cycle` | `GapReported` | `RenderToJackPortsNoReset` |
| `within_cycle` | `NoMisplacedSample` | `RecvSubPeriodFixed` (`RecvSubPeriod`) |
| `within_cycle` | `DeliveredSampleKept` | `ClearedEverySub`: the memset runs at every sub-cycle |
| `refines_transfer` | `TransferSpec` | `ActivePortsFromNetworkNoReset`: stale ports stay non-NULL |
| `plain_mixed_endian` | `TypeOK` | `RenderToNetworkPastEnd` |
| `plain_mixed_endian` | `GapReported` | `PacketMissingOffByOne` |
| `plain_mixed_endian` | `ReceivedCycleIsComplete` | `PortWordsNoSwap` |
| `plain_mixed_endian` | `TransferSpec` | `StoresNoOffset`: the receiver's copy forgets the `sub_cycle * fSubPeriodSize` offset |
| `layout_rule` | `TypeOK` | `ConnectPastEnd`: `SetBuffer` past `fNPorts` |
| `layout_rule` | `SubPeriodIsSpecRule` | `Pow2BelowStrict`, an off-by-one in the power of two |
| `layout_rule` | `CycleSizeBoundsTraffic` | `ConstructMinChannels`: sized for min(send, return) |
| `wire_roundtrip` | `ReceiverSeesWhatSenderSet` | `HtonllHalvesKept`: `htonll` that swaps each half in place. Only a mixed-endian pair exposes it. |
| `active_ports` | `ActiveSetReachesReceiver` | `ActivePortsFromNetworkNoReset` |

**Fairness.** Only `refines_transfer` and `plain_mixed_endian` use fairness. It assumes weak
fairness on the six driver actions: `SetBuffers`, `ActivePortsToNetwork`,
`GetNumPackets`, `RenderToNetwork`, `ActivePortsFromNetwork` and
`RenderToJackPorts`. Each driver runs a real-time thread that loops through
these calls every period, so a step that stays possible is eventually
taken.

The network gets no fairness at all. A datagram may be lost forever, so
liveness is stated only about cycles being taken and ended, never about
samples arriving. The sync packet is modelled as reliable, because the
slave's driver blocks until it has one.

## 5. Not modelled, and why

- `NetMidiBuffer`, `NetIntAudioBuffer` and `NetCeltAudioBuffer` are not
  modelled. Their bodies are declared here but live in `JackNetTool.cpp`,
  and the header gives only their fields. A model of them would be written
  from the specification alone. At most half of the map may be
  specification-modelled, and the wire codec already uses part of that
  share.
- `NetFloatAudioBuffer` and `NetFloatAudioBuffer1` are partly modelled.
  The header has only one-line bodies for them: delegations to the port
  list (`GetCycleDuration`, `GetNumPackets`) and the `fLastSubCycle` reset
  of `NetFloatAudioBuffer1::RenderToJackPorts`. Everything else, including
  their render functions, is in `JackNetTool.cpp`. What remains unmapped in
  the header is declarations, comments and field lists. Nothing more of it
  can be modelled from the code.
- The CELT codec itself is external.
- Socket setup and the display helpers do I/O and formatting only.
- `TransportSyncCodec` is partly modelled. `WireCodec` covers the integer
  fields of `net_transport_data_t`, including the 64-bit ones. It leaves out
  the rest of `jack_position_t`, whose fields are converted the same way.
- The values of samples are abstracted to their origin (port, cycle, frame)
  and their byte order. The `(int)` casts and the float arithmetic of
  `GetCycleDuration` are not modelled. No decision in this layer depends on
  that value; the scheduler outside the layer uses it for pacing.

## 6. Findings

| Run | Line | What the code does |
|---|---|---|
| `sparse_ports` | 603 | A sparse active set is dropped: the NULL test uses the chunk position, not the port. |
| `late_packet` | 574, 603 | The cycle argument is ignored. After the active set changes, a late packet is stored through a NULL buffer. |
| `mtu_budget` | 554-558 | The sub-period is sized without the 4 index bytes per port, so packets exceed the MTU. |
| `period_coverage` | 564 | When the sub-period does not divide the period (here a 6-frame period with a sub-period of 4), the tail frames of each cycle are never sent. |
| `be_receiver_reset` | 443 | Big-endian `RenderToJackPorts` does not reset `fLastSubCycle`, so every later cycle reports a loss. |
| `be_optimized_sender` | 569 | The big-endian optimized list renders through the plain functions and reads NULL buffers. |

Two further divergences came up while modelling. They lie outside the
bounds of the runs above, and TLC shows each of them when the bounds are
widened:

- **Line 554, float rounding.** Take `AudioFrameLayout` with MTU
  `40 + 4 * 2^13` (32808), one channel and an 8192-frame period. Then
  `SubPeriodIsSpecRule` fails: the code gives 4096 where the rule gives
  8192. `logf(2^13) / log(2.)` lands just below 13, and the cast truncates
  it. This needs an MTU above 32 KB, which only the loopback interface
  offers.
- **Line 651, port limit.** Take `ActivePorts` with the active set 0..511.
  Then `ActiveSetReachesReceiver` fails: `assert(port_num < 512)` stops the
  sender at 512 connected ports, and a build with `NDEBUG` writes past that
  count. The specification names no limit on the number of channels.

**Hazards beyond the runs.** These are listed in `PROJECT.json`:

- **Line 579, memset only on sub-cycle 0.** If sub-cycle 0 is lost, the
  frames of the missing sub-cycles keep the previous cycle's samples. If a
  whole cycle is lost, nothing is reported. The specification allows stale
  or silent frames for a lost slot, so no property forbids this. The other
  way a stale sample survives the memset is a late packet, since line 574
  ignores the cycle. `late_packet` shows that path.
- **Line 37, `htonll` on big-endian hosts.** The swapping `htonll` is used
  whenever `__BIG_ENDIAN__` is not defined. On a big-endian host whose
  compiler does not define it, the macro exchanges the two halves of every
  64-bit field. Such a host in `WireCodec` makes `ReceiverSeesWhatSenderSet`
  fail against a little-endian peer. Which compilers define the symbol lies
  outside the sources, so no run asserts either outcome.
- **Line 307, empty `ActivePortsToNetwork`.** The base class leaves
  `port_num` unassigned. `NetFloatAudioBuffer1` has its overrides commented
  out, and the integer and CELT buffers declare none. What the caller does
  with the value is not in the sources.
