---------------------------- MODULE AudioTransfer ----------------------------
(***************************************************************************)
(* What the audio path of NetFloatAudioBuffer promises the two drivers,    *)
(* without packets, sub-periods or layouts: the sender announces each      *)
(* cycle with the set of ports it sends; the receiver takes the            *)
(* announcements in order, and while a cycle is open its port buffers      *)
(* change only on the ports announced for it, and only to silence or to    *)
(* the sample that cycle's sender took for that very port and frame.      *)
(* Which samples arrive is the network's business: any may be missing.    *)
(* Every announced cycle is eventually taken and ended.                   *)
(***************************************************************************)
EXTENDS Integers, Sequences

CONSTANTS NPorts, PeriodSize, MaxCycle, ActiveSets, Junk, Silence

Ports == 0 .. NPorts - 1
Frames == 0 .. PeriodSize - 1
Sample(p, c, f) == [port |-> p, cycle |-> c, frame |-> f]

VARIABLES
    announced,  \* the last cycle the sender has announced
    queue,      \* announcements not yet taken: [cycle, ports]
    active,     \* the ports of the receiver's open cycle
    cycle,      \* the receiver's cycle
    phase,      \* "sync" (between cycles) or "data" (a cycle is open)
    out         \* the receiver's port buffers: port -> frame -> value

vars == <<announced, queue, active, cycle, phase, out>>

Init ==
    /\ announced = 0 /\ queue = <<>>
    /\ active = {} /\ cycle = 0 /\ phase = "sync"
    /\ out = [p \in Ports |-> [f \in Frames |-> Junk]]

Announce ==
    /\ announced < MaxCycle
    /\ \E A \in ActiveSets : queue' = Append(queue, [cycle |-> announced + 1, ports |-> A])
    /\ announced' = announced + 1
    /\ UNCHANGED <<active, cycle, phase, out>>

Take ==
    /\ phase = "sync" /\ queue # <<>>
    /\ active' = Head(queue).ports /\ cycle' = Head(queue).cycle
    /\ queue' = Tail(queue)
    /\ phase' = "data"
    /\ UNCHANGED <<announced, out>>

\* Some frames of the open cycle's ports get their sample; the ports may be
\* cleared to silence first, all of them or none.
Deliver ==
    /\ phase = "data"
    /\ \E clear \in BOOLEAN :
        \A p \in Ports, f \in Frames :
            out'[p][f] \in
                IF p \in active
                THEN {Sample(p, cycle, f), IF clear THEN Silence ELSE out[p][f]}
                ELSE {out[p][f]}
    /\ DOMAIN out' = Ports /\ \A p \in Ports : DOMAIN out'[p] = Frames
    /\ UNCHANGED <<announced, queue, active, cycle, phase>>

End ==
    /\ phase = "data"
    /\ phase' = "sync"
    /\ UNCHANGED <<announced, queue, active, cycle, out>>

Next == Announce \/ Take \/ Deliver \/ End

Spec == Init /\ [][Next]_vars /\ WF_vars(Take) /\ WF_vars(End)
=============================================================================
