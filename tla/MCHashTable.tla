---------------------------- MODULE MCHashTable -----------------------------
(* Five symbols, two pairs of the same name; the names a and b fall into one *)
(* bucket of two, c into the other.                                          *)
EXTENDS HashTable, TLC
CONSTANTS a1, a2, b1, b2, c1
MCSyms == {a1, a2, b1, b2, c1}
MCname == (a1 :> "a") @@ (a2 :> "a") @@ (b1 :> "b") @@ (b2 :> "b") @@ (c1 :> "c")
Alike  == {p @@ q : p \in Permutations({a1, a2}), q \in Permutations({b1, b2})}
MChash == [a |-> 1, b |-> 3, c |-> 2]
==============================================================================
