--------------------------------- MODULE Dfa ---------------------------------
(***************************************************************************)
(* compiler/lex/terp.c and dfa.c: the subset construction of LeX.  dfa()   *)
(* takes the NFA that thompson() built, numbers the sets of NFA states it  *)
(* meets, and fills in a table row for each, one character after another,  *)
(* until no state is left unmarked.                                        *)
(***************************************************************************)
EXTENDS Integers, FiniteSets

CONSTANTS
  MAX_CHARS,  \* the width of the table, 128 in the code
  DFA_MAX     \* the most DFA states, 254 in the code

ASSUME SizesAssumption == MAX_CHARS \in Nat \ {0} /\ DFA_MAX \in Nat \ {0}

VARIABLES
  phase,        \* how far min_dfa() has come
  nodes,        \* the array of NFA nodes, from 0
  sstate,       \* the NFA's start state
  nstates,      \* _nstates
  dstates,      \* _dstates: the state's NFA states, mark, accept and anchor
  dtran,        \* _dtran: the entries filled in, by state and character
  last_marked,  \* _last_marked
  ch            \* the next character of the row being filled in, -1 if none is

dfaVars == <<phase, nodes, sstate, nstates, dstates, dtran, last_marked, ch>>

EPSILON == -1
CCL     == -2
EMPTY   == -3
NULL    == -1   \* no node
F       == -1   \* no transition
NoString == 0   \* accept strings are numbered from 1
Chars   == 0 .. MAX_CHARS - 1

Least(S) == CHOOSE i \in S : \A j \in S : i <= j

-----------------------------------------------------------------------------
(* The interpreter, terp.c. *)

SET_TEST(node, c) == (c \in node.bitset) # node.compl

\* What a node's elisions lead to, and one round of e_closure().
Elisions(node) == IF node.edge = EPSILON THEN {node.next, node.next2} \ {NULL} ELSE {}
Elided(ns, input) == UNION {{i} \cup Elisions(ns[i]) : i \in input}
ClosureFrom(ns, input) ==
  LET after[n \in 0 .. Cardinality(DOMAIN ns)] ==
        IF n = 0 THEN input ELSE Elided(ns, after[n-1])
  IN after
e_closure(ns, input) == ClosureFrom(ns, input)[Cardinality(DOMAIN ns)]

\* The accept string and the anchor e_closure() reports: those of the lowest
\* accepting node.  (The anchor of a state that does not accept is never set,
\* nor used.)
AcceptOf_highest(ns, closure) ==
  LET accepting == {i \in closure : ns[i].accept # NoString}
  IN IF accepting = {} THEN [string |-> NoString, anchor |-> 0]
     ELSE LET i == CHOOSE i \in accepting : \A j \in accepting : j <= i
          IN [string |-> ns[i].accept, anchor |-> ns[i].anchor]
AcceptOf(ns, closure) ==
  LET accepting == {i \in closure : ns[i].accept # NoString}
  IN IF accepting = {} THEN [string |-> NoString, anchor |-> 0]
     ELSE [string |-> ns[Least(accepting)].accept, anchor |-> ns[Least(accepting)].anchor]

Takes(node, c) == node.edge = c \/ (node.edge = CCL /\ SET_TEST(node, c))
move(ns, inp_set, c) == {ns[i].next : i \in {i \in inp_set : Takes(ns[i], c)}}

-----------------------------------------------------------------------------
(* The construction, dfa.c. *)

\* What thompson() delivers.
Node(ns) ==
  [edge : {EPSILON, CCL, EMPTY} \cup Chars, bitset : SUBSET Chars, compl : BOOLEAN,
   next : {NULL} \cup DOMAIN ns, next2 : {NULL} \cup DOMAIN ns,
   accept : Nat, anchor : 0 .. 3]
IsNfa(ns, start) ==
  /\ \E n \in DOMAIN ns : DOMAIN ns = 0 .. n
  /\ ns \in [DOMAIN ns -> Node(ns)] /\ start \in DOMAIN ns
  /\ \A i \in DOMAIN ns : ns[i].edge \in {CCL} \cup Chars => ns[i].next # NULL

DState(set, mark) ==
  [set |-> set, mark |-> mark, accept |-> AcceptOf(nodes, set).string,
   anchor |-> AcceptOf(nodes, set).anchor]

DfaInit ==
  /\ phase = "nfa" /\ nodes = [i \in {} |-> 0] /\ sstate = NULL
  /\ nstates = 0 /\ dstates = [q \in {} |-> 0] /\ dtran = [e \in {} |-> F]
  /\ last_marked = 0 /\ ch = -1

\* nfa() returns.
ReadNfa ==
  /\ phase = "nfa"
  /\ IsNfa(nodes', sstate')
  /\ phase' = "start"
  /\ UNCHANGED <<nstates, dstates, dtran, last_marked, ch>>

StartState ==
  /\ phase = "start"
  /\ nstates' = 1
  /\ dstates' = [q \in 0 .. 0 |-> DState(e_closure(nodes, {sstate}), FALSE)]
  /\ phase' = "expand"
  /\ UNCHANGED <<nodes, sstate, dtran, last_marked, ch>>

Unmarked == {q \in last_marked .. nstates - 1 : ~dstates[q].mark}

\* get_unmarked() finds a state, which make_trans() marks.
GetUnmarked_never_marked ==
  /\ phase = "expand" /\ ch = -1 /\ Unmarked # {}
  /\ last_marked' = Least(Unmarked)
  /\ ch' = MAX_CHARS - 1
  /\ UNCHANGED <<phase, nodes, sstate, nstates, dstates, dtran>>
GetUnmarked ==
  /\ phase = "expand" /\ ch = -1 /\ Unmarked # {}
  /\ last_marked' = Least(Unmarked)
  /\ dstates' = [dstates EXCEPT ![Least(Unmarked)].mark = TRUE]
  /\ ch' = MAX_CHARS - 1
  /\ UNCHANGED <<phase, nodes, sstate, nstates, dtran>>

AllMarked ==
  /\ phase = "expand" /\ ch = -1 /\ Unmarked = {}
  /\ last_marked' = nstates
  /\ phase' = "dfa"
  /\ UNCHANGED <<nodes, sstate, nstates, dstates, dtran, ch>>

\* The set reached from the state being expanded, and the states that have it.
Reached == move(nodes, dstates[last_marked].set, ch)
InDstates_unmarked_only(set) ==
  {p \in 0 .. nstates - 1 : ~dstates[p].mark /\ dstates[p].set = set}
InDstates(set) == {p \in 0 .. nstates - 1 : dstates[p].set = set}

SetEntry(next) ==
  dtran' = [e \in DOMAIN dtran \cup {<<last_marked, ch>>} |->
              IF e = <<last_marked, ch>> THEN next ELSE dtran[e]]

Expanding == phase = "expand" /\ ch >= 0

NoMove ==
  /\ Expanding /\ Reached = {}
  /\ SetEntry(F)
  /\ ch' = ch - 1
  /\ UNCHANGED <<phase, nodes, sstate, nstates, dstates, last_marked>>

KnownState ==
  /\ Expanding /\ Reached # {} /\ InDstates(e_closure(nodes, Reached)) # {}
  /\ SetEntry(Least(InDstates(e_closure(nodes, Reached))))
  /\ ch' = ch - 1
  /\ UNCHANGED <<phase, nodes, sstate, nstates, dstates, last_marked>>

NewState ==
  /\ Expanding /\ Reached # {} /\ InDstates(e_closure(nodes, Reached)) = {}
  /\ nstates < DFA_MAX
  /\ SetEntry(nstates)
  /\ dstates' = [q \in 0 .. nstates |->
                   IF q = nstates THEN DState(e_closure(nodes, Reached), FALSE)
                   ELSE dstates[q]]
  /\ nstates' = nstates + 1
  /\ ch' = ch - 1
  /\ UNCHANGED <<phase, nodes, sstate, last_marked>>

\* com_ferr("Too many DFA states").
TooManyStates ==
  /\ Expanding /\ Reached # {} /\ InDstates(e_closure(nodes, Reached)) = {}
  /\ nstates >= DFA_MAX
  /\ phase' = "failed"
  /\ UNCHANGED <<nodes, sstate, nstates, dstates, dtran, last_marked, ch>>

DfaNext ==
  \/ ReadNfa \/ StartState \/ GetUnmarked \/ AllMarked
  \/ NoMove \/ KnownState \/ NewState \/ TooManyStates

DfaSpec == DfaInit /\ [][DfaNext]_dfaVars

-----------------------------------------------------------------------------
(* Properties. *)

\* When no state is left unmarked the table is complete and exact: every state
\* has an entry for every character, F where the NFA cannot move and otherwise
\* the one state that stands for exactly the NFA states reached; the accept
\* strings are those of these sets.
DfaFinished == phase = "dfa"
DfaComplete ==
  DfaFinished =>
    /\ nstates >= 1 /\ dstates[0].set = e_closure(nodes, {sstate})
    /\ \A p, q \in 0 .. nstates - 1 : dstates[p].set = dstates[q].set => p = q
    /\ \A q \in 0 .. nstates - 1 :
         /\ dstates[q].accept = AcceptOf(nodes, dstates[q].set).string
         /\ \A c \in Chars :
              LET to == move(nodes, dstates[q].set, c)
              IN /\ <<q, c>> \in DOMAIN dtran
                 /\ to = {} => dtran[<<q, c>>] = F
                 /\ to # {} => /\ dtran[<<q, c>>] \in 0 .. nstates - 1
                               /\ dstates[dtran[<<q, c>>]].set = e_closure(nodes, to)
==============================================================================
