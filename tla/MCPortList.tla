---------------------------- MODULE MCPortList ----------------------------
(* Model-checking instances of PortList. *)
EXTENDS PortList

\* Any subset of the ports connected on the sender.
AllPortSets == SUBSET Ports
=============================================================================
