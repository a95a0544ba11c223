---------------------------- MODULE MCWireCodec ----------------------------
EXTENDS WireCodec

\* Two byte values tell every permutation of a field's bytes from the
\* identity on some value.
TwoBytes == {0, 1}
=============================================================================
