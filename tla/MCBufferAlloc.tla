--------------------------- MODULE MCBufferAlloc ---------------------------
(* TLC instances of BufferAlloc: the ports are model values.                *)
EXTENDS BufferAlloc, TLC

Symmetry == Permutations(Ports)
=============================================================================
