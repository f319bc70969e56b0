------------------------------- MODULE SetLib -------------------------------
(***************************************************************************)
(* compiler/lib/set.c and include/set.h: sets of numbers as arrays of      *)
(* words, which grow by _DEFWORDS words.  Sets of different sizes meet in  *)
(* every operation.  set_next_member() remembers, in static variables, the *)
(* set it went through last and how far.                                   *)
(*                                                                         *)
(* A word is the set of its bits that are 1, bit 0 the lowest.  set_new(), *)
(* GC_MALLOC'ed memory and defmap all start as zeros; that no memory is    *)
(* left ends the program and is left out.                                  *)
(***************************************************************************)
EXTENDS Integers, FiniteSets, FiniteSetsExt

CONSTANTS
  Sets,     \* the sets a client holds
  NONE,     \* NULL
  WORD,     \* _BITS_IN_WORD, 32 in the code
  DEFWORDS, \* _DEFWORDS, 16 in the code
  Bits,     \* the numbers clients add and remove
  MaxPos    \* bound: set_next_member() is not asked again beyond this place

ASSUME SizesAssumption ==
  /\ WORD \in Nat \ {0} /\ DEFWORDS \in Nat \ {0}
  /\ Bits \subseteq Nat /\ \E most \in Bits : \A bit \in Bits : most >= bit
  /\ MaxPos \in Nat /\ NONE \notin Sets \cup Int

VARIABLES
  s,              \* SET_S: map, [1 .. nwords -> words], and compl
  lastSet, current_member, \* static in set_next_member()
  ret             \* what set_next_member() has just returned, else NONE

vars      == <<s, lastSet, current_member, ret>>
iteration == <<lastSet, current_member>>

Word      == SUBSET (0 .. WORD - 1)
nwords(x) == Cardinality(DOMAIN x.map)
nbits(x)  == nwords(x) * WORD
ROUND(bit) == ((bit \div WORD + DEFWORDS) \div DEFWORDS) * DEFWORDS

WordOf(x, i)   == IF i <= nwords(x) THEN x.map[i] ELSE {}
Zeros(n)       == [i \in 1 .. n |-> {}]

SET_MEMBER(x, bit) ==
  bit < nbits(x) /\ bit % WORD \in x.map[bit \div WORD + 1]
SET_TEST(x, bit) == SET_MEMBER(x, bit) # x.compl
Kept(x) == {bit \in 0 .. nbits(x) - 1 : SET_MEMBER(x, bit)}

-----------------------------------------------------------------------------
(* The functions of set.c on the sets they are given. *)

set_new == [map |-> Zeros(DEFWORDS), compl |-> FALSE]

enlarge(x, need) ==
  IF need <= nwords(x) THEN x
  ELSE [x EXCEPT !.map = [i \in 1 .. need |-> WordOf(x, i)]]

\* SET_ADD(), by way of set_add() when the number is beyond the set, and
\* SET_REMOVE().
SET_ADD(x, bit) ==
  [enlarge(x, ROUND(bit)) EXCEPT !.map[bit \div WORD + 1] = @ \cup {bit % WORD}]
SET_REMOVE(x, bit) ==
  IF bit >= nbits(x) THEN x
  ELSE [x EXCEPT !.map[bit \div WORD + 1] = @ \ {bit % WORD}]

SET_CLEAR(x)  == [x EXCEPT !.map = Zeros(nwords(x))]
SET_FILL(x)   == [x EXCEPT !.map = [i \in DOMAIN @ |-> 0 .. WORD - 1]]
set_invert(x) == [x EXCEPT !.map = [i \in DOMAIN @ |-> (0 .. WORD - 1) \ @[i]]]
set_truncate(x) == [x EXCEPT !.map = Zeros(DEFWORDS)]

\* set_op(): the words that both have, and those only the destination has.
set_op_short_source(op, dst, src) ==
  LET d == enlarge(dst, nwords(src))
  IN [d EXCEPT !.map = [i \in DOMAIN @ |->
        IF i > nwords(src) THEN @[i]
        ELSE CASE op = "UNION"      -> @[i] \cup src.map[i]
               [] op = "INTERSECT"  -> @[i] \cap src.map[i]
               [] op = "DIFFERENCE" -> (@[i] \ src.map[i]) \cup (src.map[i] \ @[i])
               [] op = "ASSIGN"     -> src.map[i]]]
set_op(op, dst, src) ==
  LET d == enlarge(dst, nwords(src))
  IN [d EXCEPT !.map = [i \in DOMAIN @ |->
        IF i > nwords(src)
        THEN IF op \in {"INTERSECT", "ASSIGN"} THEN {} ELSE @[i]
        ELSE CASE op = "UNION"      -> @[i] \cup src.map[i]
               [] op = "INTERSECT"  -> @[i] \cap src.map[i]
               [] op = "DIFFERENCE" -> (@[i] \ src.map[i]) \cup (src.map[i] \ @[i])
               [] op = "ASSIGN"     -> src.map[i]]]

-----------------------------------------------------------------------------
(* The functions that only look. *)

Value(w) == MapThenSumSet(LAMBDA i : 2 ^ i, w)
\* An unsigned difference returned as an int.
Signed(v) ==
  LET u == v % (2 ^ WORD) IN IF u < 2 ^ (WORD - 1) THEN u ELSE u - 2 ^ WORD

Common(x, y)   == 1 .. (IF nwords(x) < nwords(y) THEN nwords(x) ELSE nwords(y))
Differing(x, y) == {i \in Common(x, y) : x.map[i] # y.map[i]}
Beyond(x, y)   == \E i \in DOMAIN x.map \ Common(x, y) : x.map[i] # {}

set_compare_common_words(x, y) ==
  IF Differing(x, y) = {} THEN 0
  ELSE LET i == Min(Differing(x, y)) IN Signed(Value(x.map[i]) - Value(y.map[i]))
set_compare(x, y) ==
  IF Differing(x, y) # {}
  THEN LET i == Min(Differing(x, y)) IN Signed(Value(x.map[i]) - Value(y.map[i]))
  ELSE IF Beyond(x, y) THEN 1
  ELSE IF Beyond(y, x) THEN -1 ELSE 0

set_subset(set, cmpset) ==
  /\ \A i \in Common(set, cmpset) : cmpset.map[i] \subseteq set.map[i]
  /\ ~Beyond(cmpset, set)

\* set_test() has made the sets the same size (see SetTest below).
set_test(x, y) ==
  IF \E i \in Differing(x, y) : x.map[i] \cap y.map[i] # {} THEN "INTER"
  ELSE IF Differing(x, y) # {} THEN "DISJ" ELSE "EQUIV"

set_num_ele(x) == MapThenSumSet(LAMBDA i : Cardinality(x.map[i]), DOMAIN x.map)
set_hash(x) == MapThenSumSet(LAMBDA i : Value(x.map[i]), DOMAIN x.map) % (2 ^ WORD)

-----------------------------------------------------------------------------
(* The calls of a client. *)

Init ==
  /\ s = [n \in Sets |-> set_new]
  /\ lastSet = NONE /\ current_member = 0 /\ ret = NONE

Becomes(n, x) ==
  s' = [s EXCEPT ![n] = x] /\ ret' = NONE /\ UNCHANGED iteration

Add(n)    == \E bit \in Bits : Becomes(n, SET_ADD(s[n], bit))
Remove(n) == \E bit \in Bits : Becomes(n, SET_REMOVE(s[n], bit))
Clear(n)    == Becomes(n, SET_CLEAR(s[n]))
Fill(n)     == Becomes(n, SET_FILL(s[n]))
Invert(n)   == Becomes(n, set_invert(s[n]))
Truncate(n) == Becomes(n, set_truncate(s[n]))
SET_COMPLEMENT(n) == Becomes(n, [s[n] EXCEPT !.compl = ~@])

Combine(d, n) ==
  \E op \in {"UNION", "INTERSECT", "DIFFERENCE", "ASSIGN"} : Becomes(d, set_op(op, s[d], s[n]))

\* SET_IS_DISJOINT() and SET_IS_INTERSECT(): looking enlarges the smaller.
SetTest(m, n) ==
  /\ s' = [[s EXCEPT ![m] = enlarge(@, nwords(s[n]))]
              EXCEPT ![n] = enlarge(@, nwords(s[m]))]
  /\ ret' = NONE /\ UNCHANGED iteration

\* set_del() of a set, and set_new() or set_dup() in its place: the new set
\* may or may not be allocated where the old one was.
Replace(n) ==
  /\ \E x \in {set_new} \cup {s[m] : m \in Sets} : s' = [s EXCEPT ![n] = x]
  /\ lastSet' \in {lastSet} \cup (IF lastSet = n THEN {NONE} ELSE {})
  /\ ret' = NONE /\ UNCHANGED current_member

\* Where a set that was not the last to be gone through is taken up: behind
\* its leading words of zeros.
FirstWord_skipping(x) ==
  LET used == {i \in DOMAIN x.map : x.map[i] # {}}
  IN WORD * (IF used = {} THEN nwords(x) ELSE Max(used) - 1)
FirstWord(x) ==
  LET used == {i \in DOMAIN x.map : x.map[i] # {}}
  IN WORD * (IF used = {} THEN nwords(x) ELSE Min(used) - 1)

set_next_member(n) ==
  LET from == IF lastSet = n THEN current_member ELSE FirstWord(s[n])
      left == {bit \in from .. nbits(s[n]) - 1 : SET_TEST(s[n], bit)}
  IN /\ from <= MaxPos
     /\ lastSet' = n
     /\ ret' = IF left = {} THEN -1 ELSE Min(left)
     /\ current_member' = 1 + (IF left # {} THEN Min(left)
                               ELSE IF from > nbits(s[n]) THEN from ELSE nbits(s[n]))
     /\ UNCHANGED s

ResetIteration ==
  lastSet' = NONE /\ ret' = NONE /\ UNCHANGED <<s, current_member>>

Next ==
  \/ ResetIteration
  \/ \E n \in Sets :
       \/ Add(n) \/ Remove(n) \/ Clear(n) \/ Fill(n) \/ Invert(n) \/ Truncate(n)
       \/ SET_COMPLEMENT(n) \/ Replace(n) \/ set_next_member(n)
       \/ \E m \in Sets : Combine(n, m) \/ SetTest(n, m)

Spec == Init /\ [][Next]_vars

-----------------------------------------------------------------------------
(* Properties. *)

\* What the functions that look at sets answer depends on the members only, not
\* on how many words each has: set_compare() is 0 for equal sets alone (so that
\* dfa.c:77 recognises a state), set_subset() is inclusion, equal sets hash
\* alike, set_num_ele() counts, and set_test() recognises equal sets and never
\* says that disjoint sets intersect.
AnswersByWords(x, y) ==
  LET e == enlarge(x, nwords(y))
      f == enlarge(y, nwords(x))
  IN /\ Kept(x) = Kept(y) => set_compare(x, y) = 0
     /\ set_subset(x, y) <=> Kept(y) \subseteq Kept(x)
     /\ set_test(e, f) = "EQUIV" <=> Kept(x) = Kept(y)
     /\ set_test(e, f) = "INTER" => Kept(x) \cap Kept(y) # {}
AnswersByMembers ==
  \A m, n \in Sets :
    LET x == s[m]
        y == s[n]
    IN /\ AnswersByWords(x, y)
       /\ set_compare(x, y) = 0 => Kept(x) = Kept(y)
       /\ Kept(x) = Kept(y) => set_hash(x) = set_hash(y)
       /\ set_num_ele(x) = Cardinality(Kept(x))

\* The words implement sets of numbers: union, intersection, difference and
\* assignment between sets of any sizes, growth, truncation, and an iteration
\* that returns every member in order, whatever is added, removed or replaced on
\* the way.
Abstract == INSTANCE IntSets WITH
  Sizes <- {k * WORD * DEFWORDS : k \in 1 .. 1 + Max(Bits) \div (WORD * DEFWORDS)},
  elems <- [n \in Sets |-> Kept(s[n])], co <- [n \in Sets |-> s[n].compl],
  it <- lastSet, pos <- current_member
ImplementsIntSets == Abstract!Spec
==============================================================================
