------------------------------ MODULE IntSets -------------------------------
(***************************************************************************)
(* What set.h promises its clients: each set is a set of numbers, whatever *)
(* the words it is kept in; an iteration goes up through the members of    *)
(* one set.  A complemented set keeps the numbers it does not have, and    *)
(* the operations on two sets work on what is kept (nothing in the tools   *)
(* combines a complemented set with another).                              *)
(***************************************************************************)
EXTENDS Integers, FiniteSetsExt

CONSTANTS
  Sets,  \* the sets
  Bits,  \* the numbers clients add and remove
  Sizes, \* the numbers of bits a set may have room for
  NONE   \* no set

VARIABLES
  elems, \* the numbers kept
  co,    \* the set is complemented
  it,    \* the set last gone through
  pos,   \* how far: the least number not yet considered
  ret    \* what the last call of set_next_member() returned, or NONE

iteration == <<it, pos>>

Keep(n, e) == elems' = [elems EXCEPT ![n] = e]

Init ==
  /\ elems = [n \in Sets |-> {}] /\ co = [n \in Sets |-> FALSE]
  /\ it = NONE /\ pos = 0 /\ ret = NONE

\* The operations on one set, and on a set and another.
Change(n) ==
  /\ \/ \E m \in Bits : Keep(n, elems[n] \cup {m}) \/ Keep(n, elems[n] \ {m})
     \/ Keep(n, {})
     \/ \E k \in Sizes : \/ Keep(n, 0 .. k - 1)
                         \/ elems[n] \subseteq 0 .. k - 1 /\ Keep(n, (0 .. k - 1) \ elems[n])
     \/ \E m \in Sets :
          \/ Keep(n, elems[n] \cup elems[m])
          \/ Keep(n, elems[n] \cap elems[m])
          \/ Keep(n, (elems[n] \ elems[m]) \cup (elems[m] \ elems[n]))
          \/ Keep(n, elems[m])
  /\ ret' = NONE
  /\ UNCHANGED <<co, iteration>>

Complement(n) ==
  /\ co' = [co EXCEPT ![n] = ~@] /\ ret' = NONE
  /\ UNCHANGED <<elems, iteration>>

\* A new set in the place of another, empty or a duplicate.  An iteration of
\* the set it replaces may go on with it, if it is allocated where that was.
Replace(n) ==
  /\ \/ Keep(n, {}) /\ co' = [co EXCEPT ![n] = FALSE]
     \/ \E m \in Sets : Keep(n, elems[m]) /\ co' = [co EXCEPT ![n] = co[m]]
  /\ it' \in {it} \cup (IF it = n THEN {NONE} ELSE {})
  /\ ret' = NONE /\ UNCHANGED pos

\* The next member: of a set asked for anew, from the start.
Next_member(n) ==
  LET from == IF it = n THEN pos ELSE 0
      left == {m \in elems[n] : m >= from}
  IN /\ it' = n
     /\ IF co[n] THEN ret' = -1 \/ (ret' # NONE /\ ret' >= from /\ ret' \notin elems[n])
        ELSE ret' = IF left = {} THEN -1 ELSE Min(left)
     /\ IF ret' = -1 THEN \A m \in elems[n] : m < pos' ELSE pos' = ret' + 1
     /\ UNCHANGED <<elems, co>>

Reset == it' = NONE /\ ret' = NONE /\ UNCHANGED <<elems, co, pos>>

Next ==
  \/ Reset
  \/ \E n \in Sets : Change(n) \/ Complement(n) \/ Replace(n) \/ Next_member(n)

Spec == Init /\ [][Next]_<<elems, co, iteration, ret>>
==============================================================================
