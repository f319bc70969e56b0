------------------------------ MODULE MCSetLib ------------------------------
(* Two sets, of two words of two bits or of four; 1 lies in the first word  *)
(* that every set has, 4 in one that only a large one has.                     *)
EXTENDS SetLib, TLC
CONSTANTS s1, s2
MCSets == {s1, s2}
MCBits == {1, 4}
Either == Permutations(MCSets)
==============================================================================
