---------------------------- MODULE MCLuaEngine ----------------------------
(* LuaEngine for TLC: how many bindings a behaviour calls, by family.      *)
EXTENDS LuaEngine, TLC
MCMaxCalls == [f \in Families |-> CASE f = "target" -> 2 [] f = "objects" -> 4 [] f = "widgets" -> 4 [] f = "debug" -> 2]
Symmetry == Permutations(Fns) \cup Permutations(Pids) \cup Permutations(Tids)
=============================================================================
