----------------------------- MODULE MCRegistry -----------------------------
(* Registry, with finite values for TLC: a u64 of two bits and an i64 of two,  *)
(* so that every counter reaches its limit and every score both its ends.   *)
EXTENDS Registry, TLC

SmallDeltas == -2 .. 1

Symmetry == Permutations(Agents)
=============================================================================
