--------------------------- MODULE MCActivePorts ---------------------------
EXTENDS ActivePorts

\* A host with a few more than 512 ports.
ManyPorts == 515

\* No port, one port, two far apart, and 511 connected: the largest list the
\* assert lets through.
UpTo511 == {{}, {0}, {3, 514}, 0 .. 510}
=============================================================================
