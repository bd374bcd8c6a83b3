--------------------------- MODULE MCDebugSession ---------------------------
(* Instances of DebugSession for TLC. *)
EXTENDS DebugSession, TLC

\* Three instructions in a loop, none of them one byte long: the address an int3
\* leaves rip at is never the start of an instruction.
LongCode == {2, 4, 6}
LongFlow == (2 :> 4) @@ (4 :> 6) @@ (6 :> 2)
=============================================================================
