-------------------------- MODULE MCMemoryViewer --------------------------
(***************************************************************************)
(* A target of ten addresses: five bytes of code, a hole, two bytes of     *)
(* data and a guard page.  The patterns match across a chunk boundary, at  *)
(* both ends of a region, and in more than one place.                      *)
(***************************************************************************)
EXTENDS MemoryViewer

Bytes == <<0, 1, 3, 2, 1, 3, 0, 1, 3, 0>>
Pages == <<"none", "ro", "ro", "ro", "ro", "ro", "none", "rw", "rw", "guard">>

MCMem == [a \in 0 .. 9 |-> Bytes[a + 1]]
MCProt == [a \in 0 .. 9 |-> Pages[a + 1]]
MCPatterns == {<<1, 3>>, <<3, -1, 1>>}
MCTargetWrites == {[addr |-> 7, byte |-> 2]}
==========================================================================
