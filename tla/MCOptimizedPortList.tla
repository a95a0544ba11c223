------------------------ MODULE MCOptimizedPortList ------------------------
(* Model-checking instances of OptimizedPortList. *)
EXTENDS OptimizedPortList

\* Any subset of the ports may be connected on the sender.
AllPortSets == SUBSET Ports

\* A sparse set: port 1 alone (the spec example {1,5,7} in small), or none.
SparsePortSets == {{1}, {}}
=============================================================================
