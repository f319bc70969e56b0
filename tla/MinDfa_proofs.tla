----------------------------- MODULE MinDfa_proofs -----------------------------
(***************************************************************************)
(* Proofs about Dfa and MinDfa for every NFA, alphabet and limit: the      *)
(* table of the subset construction is complete and exact, the two arrays  *)
(* of the minimiser stay each other's inverse, and the groups it ends with *)
(* are stable.                                                             *)
(***************************************************************************)
EXTENDS MinDfa, FiniteSetTheorems, WellFoundedInduction, TLAPS

\* What is known of a DFA state and of a table entry once they are written.
StateOk(q) ==
  /\ DOMAIN dstates[q] = {"set", "mark", "accept", "anchor"}
  /\ dstates[q].accept = AcceptOf(nodes, dstates[q].set).string
  /\ dstates[q].anchor = AcceptOf(nodes, dstates[q].set).anchor
EntryOk(q, c) ==
  LET to == move(nodes, dstates[q].set, c)
  IN /\ <<q, c>> \in DOMAIN dtran
     /\ to = {} => dtran[<<q, c>>] = F
     /\ to # {} => /\ dtran[<<q, c>>] \in States
                   /\ dstates[dtran[<<q, c>>]].set = e_closure(nodes, to)

Shape ==
  /\ nstates \in Nat /\ nstates <= DFA_MAX /\ DOMAIN dstates = States
  /\ last_marked \in Nat /\ ch \in -1 .. MAX_CHARS - 1
  /\ phase \in {"nfa", "start", "expand", "dfa", "split", "done", "failed"}

Built ==
  /\ nstates >= 1 /\ dstates[0].set = e_closure(nodes, {sstate})
  /\ \A p, q \in States : dstates[p].set = dstates[q].set => p = q
  /\ \A q \in States : StateOk(q)

\* The worklist: the states up to last_marked are marked, and of these only
\* the last one's row is not complete.
NoneMarked == last_marked = 0 /\ ch = -1 /\ \A q \in States : ~dstates[q].mark
Marked == last_marked \in States /\ \A q \in States : dstates[q].mark <=> q <= last_marked
FilledIn ==
  \A q \in States, c \in Chars :
    dstates[q].mark /\ (q = last_marked => ch < c) => EntryOk(q, c)

DfaInv ==
  /\ Shape
  /\ phase \in {"nfa", "start"} => last_marked = 0 /\ ch = -1
  /\ phase = "expand" => Built /\ (NoneMarked \/ Marked) /\ FilledIn
  /\ phase \in {"dfa", "split", "done"} =>
       Built /\ \A q \in States, c \in Chars : EntryOk(q, c)

\* The minimiser.  While a group is being split the new one is not counted in
\* ngroups yet.
Partition ==
  /\ DOMAIN ingroup = States
  /\ \A q \in States : ingroup[q] \in DOMAIN groups
  /\ \A g \in DOMAIN groups : groups[g] = {q \in States : ingroup[q] = g}
GroupShape ==
  /\ ngroups \in Nat /\ current \in Nat /\ current <= ngroups
  /\ old_numgroups \in Nat /\ old_numgroups <= ngroups
  /\ member \in {NULL} \cup States
  /\ DOMAIN groups = 0 .. IF member = NULL THEN ngroups - 1 ELSE ngroups
  /\ member # NULL => current < ngroups

SameAccept(p, q) == dstates[p].accept = dstates[q].accept
AcceptsAlike == \A p, q \in States : SameGroup(p, q) => SameAccept(p, q)
NewGroupAlike ==
  member # NULL => \A p \in groups[ngroups], q \in groups[current] : SameAccept(p, q)

\* As long as a pass has moved nothing, the groups it has been through are
\* stable, and so is the part of the current one it has looked at.
Alike(p, q) == \A c \in Chars : GotoGroup(p, c) = GotoGroup(q, c)
Quiet == old_numgroups = ngroups /\ (member # NULL => groups[ngroups] = {})
Compared ==
  Quiet =>
    /\ \A g \in 0 .. current - 1 : \A p, q \in groups[g] : Alike(p, q)
    /\ member # NULL => \A q \in groups[current] : q <= member => Alike(First, q)

SplitInv == GroupShape /\ Partition /\ AcceptsAlike /\ NewGroupAlike /\ Compared
MinInv ==
  /\ DfaInv
  /\ phase = "split" => SplitInv
  /\ phase = "done" => Partition /\ AcceptsAlike /\ \A p, q \in States : SameGroup(p, q) => Alike(p, q)

-----------------------------------------------------------------------------

LEMMA LeastElement ==
  ASSUME NEW S \in SUBSET Nat, S # {}
  PROVE  Least(S) \in S /\ \A j \in S : Least(S) <= j
<1> DEFINE R == OpToRel(<, Nat)
<1>1. IsWellFoundedOn(R, Nat)
  BY NatLessThanWellFounded
<1>2. PICK m \in S : \A y \in S : ~(<<y, m>> \in R)
  <2> HIDE DEF R
  <2> QED BY <1>1, WFMin
<1>3. \A y \in S : ~(y < m)
  BY <1>2 DEF OpToRel
<1>4. \A y \in S : m <= y
  BY <1>3
<1> QED BY <1>4 DEF Least

\* An entry stays right while states are added and other entries are set.
LEMMA EntryKept ==
  ASSUME Shape, nodes' = nodes, nstates' \in Nat, nstates <= nstates',
         \A p \in States : dstates'[p].set = dstates[p].set,
         NEW q \in States, NEW c \in Chars, EntryOk(q, c),
         <<q, c>> \in DOMAIN dtran', dtran'[<<q, c>>] = dtran[<<q, c>>]
  PROVE  EntryOk(q, c)'
<1>1. States \subseteq States'
  BY DEF States, Shape
<1>2. dstates'[q].set = dstates[q].set
  OBVIOUS
<1> QED
  BY <1>1, <1>2 DEF EntryOk

\* Setting the entry of the row being filled in keeps the others.
LEMMA RowGrows ==
  ASSUME Shape, FilledIn, Marked, Expanding, nodes' = nodes, last_marked' = last_marked,
         ch' = ch - 1, nstates' \in Nat, nstates <= nstates',
         \A p \in States : dstates'[p] = dstates[p],
         \A p \in States' \ States : ~dstates'[p].mark,
         NEW next, SetEntry(next),
         \A q \in States, c \in Chars : q = last_marked /\ c = ch => EntryOk(q, c)'
  PROVE  FilledIn'
<1>1. ch \in Chars /\ ch \in Int /\ last_marked \in States /\ nstates \in Nat
  BY DEF Shape, Expanding, Marked, Chars
<1> SUFFICES ASSUME NEW q \in States', NEW c \in Chars, dstates'[q].mark, q = last_marked => ch - 1 < c
             PROVE  EntryOk(q, c)'
  BY DEF FilledIn, Chars
<1>2. q \in States /\ dstates[q].mark
  OBVIOUS
<1>3. CASE q = last_marked /\ c = ch
  BY <1>2, <1>3
<1>4. CASE ~(q = last_marked /\ c = ch)
  <2>1. c \in Int /\ (q = last_marked => ch < c)
    BY <1>1, <1>4 DEF Chars
  <2>2. EntryOk(q, c)
    BY <1>2, <2>1 DEF FilledIn
  <2>3. <<q, c>> \in DOMAIN dtran' /\ dtran'[<<q, c>>] = dtran[<<q, c>>]
    BY <1>4, <2>2 DEF SetEntry, EntryOk
  <2> QED BY <1>2, <2>2, <2>3, EntryKept
<1> QED BY <1>3, <1>4

LEMMA DfaInitially == DfaInit => DfaInv
<1> SUFFICES ASSUME DfaInit PROVE DfaInv
  OBVIOUS
<1>1. Shape
  BY SizesAssumption DEF DfaInit, Shape, States
<1> QED BY <1>1 DEF DfaInit, DfaInv

LEMMA StartStateKeeps ==
  ASSUME DfaInv, StartState PROVE DfaInv'
<1>1. States' = {0} /\ States' = 0 .. 0
  BY DEF StartState, States
<1>2. dstates'[0] = [set |-> e_closure(nodes, {sstate}), mark |-> FALSE,
                     accept |-> AcceptOf(nodes, e_closure(nodes, {sstate})).string,
                     anchor |-> AcceptOf(nodes, e_closure(nodes, {sstate})).anchor]
  BY DEF StartState, DState
<1>3. Shape'
  <2>1. DOMAIN dstates' = States'
    BY <1>1 DEF StartState
  <2> QED BY <2>1, SizesAssumption DEF StartState, Shape, DfaInv
<1>4. Built'
  <2>1. dstates'[0].set = e_closure(nodes', {sstate'}) /\ nstates' >= 1
    <3>1. nodes' = nodes /\ sstate' = sstate /\ nstates' = 1
      BY DEF StartState
    <3>2. dstates'[0].set = e_closure(nodes, {sstate})
      BY <1>2
    <3> QED BY <3>1, <3>2
  <2>2. ASSUME NEW q \in States' PROVE StateOk(q)'
    <3>1. q = 0 /\ nodes' = nodes
      BY <1>1 DEF StartState
    <3>2. DOMAIN dstates'[0] = {"set", "mark", "accept", "anchor"}
      BY <1>2
    <3>3. dstates'[0].set = e_closure(nodes, {sstate})
      BY <1>2
    <3>4. /\ dstates'[0].accept = AcceptOf(nodes, dstates'[0].set).string
          /\ dstates'[0].anchor = AcceptOf(nodes, dstates'[0].set).anchor
      BY <1>2, <3>3
    <3> QED BY <3>1, <3>2, <3>4 DEF StateOk
  <2> QED BY <1>1, <2>1, <2>2 DEF Built
<1>5. NoneMarked' /\ FilledIn'
  <2>1. \A q \in States' : ~dstates'[q].mark
    BY <1>1, <1>2
  <2>2. last_marked' = 0 /\ ch' = -1
    BY DEF DfaInv, StartState
  <2> QED BY <2>1, <2>2 DEF NoneMarked, FilledIn
<1> QED BY <1>3, <1>4, <1>5 DEF DfaInv, StartState

LEMMA GetUnmarkedKeeps ==
  ASSUME DfaInv, GetUnmarked PROVE DfaInv'
<1> DEFINE n == Least(Unmarked)
<1>1. Shape /\ Built /\ (NoneMarked \/ Marked) /\ FilledIn
  BY DEF DfaInv, GetUnmarked
<1>2. Unmarked \in SUBSET Nat /\ Unmarked # {}
  BY <1>1 DEF Unmarked, GetUnmarked, Shape
<1>3. n \in Unmarked /\ \A j \in Unmarked : n <= j
  BY <1>2, LeastElement
<1>4. n \in States /\ n \in last_marked .. nstates - 1 /\ n \in Nat /\ ~dstates[n].mark
  BY <1>1, <1>3 DEF Unmarked, States, Shape
<1> HIDE DEF n
<1>5. /\ last_marked' = n /\ ch' = MAX_CHARS - 1
      /\ dstates' = [dstates EXCEPT ![n].mark = TRUE]
      /\ UNCHANGED <<nodes, sstate, nstates, dtran, phase>>
  BY DEF GetUnmarked, n
<1>6. /\ DOMAIN dstates' = States /\ States' = States
      /\ \A p \in States : dstates'[p].set = dstates[p].set
      /\ \A p \in States : p # n => dstates'[p] = dstates[p]
  BY <1>1, <1>5 DEF Shape, States
<1>7. dstates'[n] = [dstates[n] EXCEPT !.mark = TRUE]
  BY <1>1, <1>4, <1>5 DEF Shape
<1>8. StateOk(n)
  BY <1>1, <1>4 DEF Built
<1>9. dstates'[n].mark
  BY <1>7, <1>8 DEF StateOk
<1>10. Shape'
  BY <1>1, <1>4, <1>5, <1>6, SizesAssumption DEF Shape
<1>11. Built'
  <2>1. ASSUME NEW q \in States PROVE StateOk(q)'
    <3>1. CASE q = n
      <4>1. /\ DOMAIN dstates'[n] = DOMAIN dstates[n]
            /\ dstates'[n].accept = dstates[n].accept /\ dstates'[n].anchor = dstates[n].anchor
            /\ dstates'[n].set = dstates[n].set
        BY <1>7
      <4> QED BY <3>1, <4>1, <1>5, <1>8 DEF StateOk
    <3>2. CASE q # n
      BY <3>2, <1>1, <1>5, <1>6 DEF StateOk, Built
    <3> QED BY <3>1, <3>2
  <2> QED BY <2>1, <1>1, <1>5, <1>6 DEF Built, States, Shape
<1>12. \A q \in States : q <= n => q = n \/ dstates[q].mark
  <2> SUFFICES ASSUME NEW q \in States, q <= n, q # n, ~dstates[q].mark PROVE FALSE
    OBVIOUS
  <2>1. q \notin Unmarked /\ q \in Nat
    BY <1>3, <1>4, <1>1 DEF States, Shape
  <2>2. q < last_marked
    BY <2>1, <1>1 DEF Unmarked, States, Shape
  <2> QED BY <2>2, <1>1, <2>1 DEF NoneMarked, Marked, Shape
<1>13. \A q \in States : dstates[q].mark => q <= n
  BY <1>1, <1>4 DEF NoneMarked, Marked, Shape, States
<1>14. Marked'
  <2>1. \A q \in States : dstates'[q].mark <=> q <= n
    <3> TAKE q \in States
    <3>1. CASE q = n
      BY <3>1, <1>9, <1>4
    <3>2. CASE q # n
      BY <3>2, <1>6, <1>12, <1>13
    <3> QED BY <3>1, <3>2
  <2> QED BY <2>1, <1>4, <1>5, <1>6 DEF Marked
<1>15. FilledIn'
  <2> SUFFICES ASSUME NEW q \in States, NEW c \in Chars, dstates'[q].mark,
                      q = n => MAX_CHARS - 1 < c
               PROVE  EntryOk(q, c)'
    BY <1>5, <1>6 DEF FilledIn
  <2>1. q # n /\ dstates[q].mark
    <3>1. ~(MAX_CHARS - 1 < c)
      BY SizesAssumption DEF Chars
    <3> QED BY <3>1, <1>6
  <2>2. q # last_marked \/ ch = -1
    BY DEF GetUnmarked
  <2>3. EntryOk(q, c)
    BY <1>1, <2>1, <2>2 DEF FilledIn, Chars, GetUnmarked
  <2>4. <<q, c>> \in DOMAIN dtran
    BY <2>3 DEF EntryOk
  <2> QED BY <2>3, <2>4, <1>1, <1>5, <1>6, EntryKept DEF Shape
<1> QED
  BY <1>5, <1>10, <1>11, <1>14, <1>15 DEF DfaInv, GetUnmarked

\* No state is left: every row is filled in.
LEMMA AllMarkedKeeps ==
  ASSUME DfaInv, AllMarked PROVE DfaInv'
<1>1. Shape /\ Built /\ (NoneMarked \/ Marked) /\ FilledIn /\ ch = -1 /\ Unmarked = {}
  BY DEF DfaInv, AllMarked
<1>2. UNCHANGED <<nodes, sstate, nstates, dstates, dtran, ch>> /\ States' = States
      /\ last_marked' = nstates /\ phase' = "dfa"
  BY DEF AllMarked, States
<1>3. \A q \in States : last_marked <= q => dstates[q].mark
  BY <1>1 DEF Unmarked, States, Shape
<1>4. \A q \in States : dstates[q].mark
  <2>1. 0 \in States
    BY <1>1 DEF Built, Shape, States
  <2>2. CASE NoneMarked
    BY <2>1, <2>2, <1>3 DEF NoneMarked
  <2>3. CASE Marked
    BY <2>3, <1>3 DEF Marked, States
  <2> QED BY <2>2, <2>3, <1>1
<1>5. \A q \in States, c \in Chars : EntryOk(q, c)
  BY <1>1, <1>4 DEF FilledIn, Chars
<1>6. Shape'
  BY <1>1, <1>2 DEF Shape
<1>7. Built'
  BY <1>1, <1>2 DEF Built, StateOk
<1>8. \A q \in States', c \in Chars : EntryOk(q, c)'
  BY <1>2, <1>5 DEF EntryOk
<1> QED
  BY <1>2, <1>6, <1>7, <1>8 DEF DfaInv

\* What the three steps that set an entry have in common.
LEMMA WhileExpanding ==
  ASSUME DfaInv, Expanding
  PROVE  Shape /\ Built /\ Marked /\ FilledIn /\ last_marked \in States /\ ch \in Chars
<1>1. Shape /\ Built /\ (NoneMarked \/ Marked) /\ FilledIn
  BY DEF DfaInv, Expanding
<1>2. ch # -1 /\ ch \in Chars
  BY <1>1 DEF Expanding, Shape, Chars
<1> QED BY <1>1, <1>2 DEF NoneMarked, Marked

LEMMA NoNewState ==
  ASSUME DfaInv, Expanding, ch' = ch - 1, NEW next, SetEntry(next),
         UNCHANGED <<phase, nodes, sstate, nstates, dstates, last_marked>>,
         Reached = {} => next = F,
         Reached # {} => next \in States /\ dstates[next].set = e_closure(nodes, Reached)
  PROVE  DfaInv'
<1>1. Shape /\ Built /\ Marked /\ FilledIn /\ last_marked \in States /\ ch \in Chars
  BY WhileExpanding
<1>2. States' = States /\ nstates' \in Nat /\ nstates <= nstates'
  BY <1>1 DEF States, Shape
<1>3. \A q \in States, c \in Chars : q = last_marked /\ c = ch => EntryOk(q, c)'
  <2> SUFFICES ASSUME NEW q \in States, NEW c \in Chars, q = last_marked, c = ch
               PROVE  EntryOk(q, c)'
    OBVIOUS
  <2>1. <<q, c>> \in DOMAIN dtran' /\ dtran'[<<q, c>>] = next
    BY DEF SetEntry
  <2>2. move(nodes', dstates'[q].set, c) = Reached
    BY DEF Reached
  <2> QED BY <2>1, <2>2, <1>2 DEF EntryOk
<1>4. FilledIn'
  BY <1>1, <1>2, <1>3, RowGrows
<1>5. Shape'
  BY <1>1, <1>2, SizesAssumption DEF Shape, Chars
<1>6. Built'
  BY <1>1, <1>2 DEF Built, StateOk
<1>7. Marked'
  BY <1>1, <1>2 DEF Marked
<1> QED BY <1>4, <1>5, <1>6, <1>7 DEF DfaInv, Expanding

LEMMA NoMoveKeeps ==
  ASSUME DfaInv, NoMove PROVE DfaInv'
BY NoNewState DEF NoMove

LEMMA KnownStateKeeps ==
  ASSUME DfaInv, KnownState PROVE DfaInv'
<1> DEFINE found == InDstates(e_closure(nodes, Reached))
           next  == Least(found)
<1>1. Shape
  BY WhileExpanding DEF KnownState
<1>2. found \in SUBSET Nat /\ found # {}
  BY <1>1 DEF InDstates, KnownState, Shape
<1>3. next \in found
  BY <1>2, LeastElement
<1>4. next \in States /\ dstates[next].set = e_closure(nodes, Reached)
  BY <1>3 DEF InDstates, States
<1>5. /\ Expanding /\ Reached # {} /\ ch' = ch - 1 /\ SetEntry(next)
      /\ UNCHANGED <<phase, nodes, sstate, nstates, dstates, last_marked>>
  BY DEF KnownState
<1> HIDE DEF next, found
<1> QED BY <1>4, <1>5, NoNewState

LEMMA NewStateKeeps ==
  ASSUME DfaInv, NewState PROVE DfaInv'
<1> DEFINE set == e_closure(nodes, Reached)
<1>1. Shape /\ Built /\ Marked /\ FilledIn /\ last_marked \in States /\ ch \in Chars /\ Expanding
  BY WhileExpanding DEF NewState
<1>2. /\ nstates' = nstates + 1 /\ nstates \in Nat /\ nstates < DFA_MAX /\ DFA_MAX \in Nat
      /\ UNCHANGED <<phase, nodes, sstate, last_marked>> /\ ch' = ch - 1
      /\ SetEntry(nstates) /\ Reached # {} /\ InDstates(set) = {}
  BY <1>1, SizesAssumption DEF NewState, Shape
<1>3. /\ States' = States \cup {nstates} /\ nstates \notin States /\ nstates \in States'
      /\ DOMAIN dstates' = States' /\ \A p \in States : dstates'[p] = dstates[p]
      /\ dstates'[nstates] = DState(set, FALSE)
  <2>1. dstates' = [q \in 0 .. nstates |-> IF q = nstates THEN DState(set, FALSE) ELSE dstates[q]]
    BY DEF NewState
  <2>2. States' = 0 .. nstates /\ States' = States \cup {nstates} /\ nstates \notin States
    BY <1>2 DEF States
  <2> QED BY <2>1, <2>2
<1> HIDE DEF set
<1>4. /\ DOMAIN dstates'[nstates] = {"set", "mark", "accept", "anchor"}
      /\ dstates'[nstates].set = set /\ ~dstates'[nstates].mark
      /\ dstates'[nstates].accept = AcceptOf(nodes, set).string
      /\ dstates'[nstates].anchor = AcceptOf(nodes, set).anchor
  BY <1>3 DEF DState
<1>5. \A p \in States : dstates[p].set # set
  BY <1>2 DEF InDstates, States
<1>6. Shape'
  BY <1>1, <1>2, <1>3, SizesAssumption DEF Shape, Chars
<1>7. Built'
  <2>1. nstates' >= 1 /\ dstates'[0].set = e_closure(nodes', {sstate'})
    <3>1. 0 \in States /\ dstates[0].set = e_closure(nodes, {sstate})
      BY <1>1 DEF Built, States, Shape
    <3>2. dstates'[0] = dstates[0]
      BY <3>1, <1>3
    <3> QED BY <3>1, <3>2, <1>2
  <2>2. ASSUME NEW p \in States', NEW q \in States', dstates'[p].set = dstates'[q].set
        PROVE  p = q
    <3>1. CASE p \in States /\ q \in States
      BY <3>1, <2>2, <1>1, <1>3 DEF Built
    <3>2. CASE p = nstates \/ q = nstates
      BY <3>2, <2>2, <1>3, <1>4, <1>5
    <3> QED BY <3>1, <3>2, <1>3
  <2>3. ASSUME NEW q \in States' PROVE StateOk(q)'
    <3>1. CASE q \in States
      BY <3>1, <1>1, <1>2, <1>3 DEF Built, StateOk
    <3>2. CASE q = nstates
      BY <3>2, <1>2, <1>4 DEF StateOk
    <3> QED BY <3>1, <3>2, <1>3
  <2> QED BY <2>1, <2>2, <2>3 DEF Built
<1>8. Marked'
  <2>1. ASSUME NEW q \in States' PROVE dstates'[q].mark <=> q <= last_marked
    <3>1. CASE q \in States
      BY <3>1, <1>1, <1>3 DEF Marked
    <3>2. CASE q = nstates
      <4>1. ~(q <= last_marked)
        BY <3>2, <1>1, <1>2 DEF States
      <4> QED BY <3>2, <4>1, <1>4
    <3> QED BY <3>1, <3>2, <1>3
  <2> QED BY <2>1, <1>1, <1>2, <1>3 DEF Marked
<1>9. \A q \in States, c \in Chars : q = last_marked /\ c = ch => EntryOk(q, c)'
  <2> SUFFICES ASSUME NEW q \in States, NEW c \in Chars, q = last_marked, c = ch
               PROVE  EntryOk(q, c)'
    OBVIOUS
  <2>1. <<q, c>> \in DOMAIN dtran' /\ dtran'[<<q, c>>] = nstates
    BY <1>2 DEF SetEntry
  <2>2. move(nodes', dstates'[q].set, c) = Reached
    BY <1>2, <1>3 DEF Reached
  <2>3. dstates'[nstates].set = e_closure(nodes', Reached)
    BY <1>2, <1>4 DEF set
  <2> QED BY <2>1, <2>2, <2>3, <1>2, <1>3 DEF EntryOk
<1>10. FilledIn'
  <2>1. nstates' \in Nat /\ nstates <= nstates'
    BY <1>2
  <2>2. ASSUME NEW p \in States' \ States PROVE ~dstates'[p].mark
    <3>1. p = nstates
      BY <1>3
    <3> QED BY <3>1, <1>4
  <2> QED BY <2>1, <2>2, <1>1, <1>2, <1>3, <1>9, RowGrows
<1> QED BY <1>6, <1>7, <1>8, <1>10, <1>1, <1>2 DEF DfaInv, Expanding

\* The steps of the minimiser leave the DFA alone.
LEMMA DfaKept ==
  ASSUME DfaInv, UNCHANGED <<nodes, sstate, nstates, dstates, dtran, last_marked, ch>>,
         \/ phase' = phase
         \/ phase = "dfa" /\ phase' = "split"
         \/ phase = "split" /\ phase' = "done"
         \/ phase = "expand" /\ phase' = "failed"
  PROVE  DfaInv'
<1>1. States' = States
  BY DEF States
<1>2. Shape'
  BY <1>1 DEF Shape, DfaInv
<1>3. \A q, c : EntryOk(q, c) <=> EntryOk(q, c)'
  BY <1>1 DEF EntryOk
<1>4. Built <=> Built'
  BY <1>1 DEF Built, StateOk
<1>5. /\ NoneMarked <=> NoneMarked'
      /\ Marked <=> Marked'
      /\ FilledIn <=> FilledIn'
  BY <1>1, <1>3 DEF NoneMarked, Marked, FilledIn
<1> QED BY <1>1, <1>2, <1>3, <1>4, <1>5 DEF DfaInv

LEMMA DfaNextKeeps ==
  ASSUME DfaInv, DfaNext PROVE DfaInv'
<1>1. CASE ReadNfa
  <2>1. Shape'
    BY <1>1 DEF ReadNfa, DfaInv, Shape, States
  <2> QED BY <1>1, <2>1 DEF ReadNfa, DfaInv
<1>2. CASE StartState
  BY <1>2, StartStateKeeps
<1>3. CASE GetUnmarked
  BY <1>3, GetUnmarkedKeeps
<1>4. CASE AllMarked
  BY <1>4, AllMarkedKeeps
<1>5. CASE NoMove
  BY <1>5, NoMoveKeeps
<1>6. CASE KnownState
  BY <1>6, KnownStateKeeps
<1>7. CASE NewState
  BY <1>7, NewStateKeeps
<1>8. CASE TooManyStates
  BY <1>8, DfaKept DEF TooManyStates, Expanding
<1> QED
  BY <1>1, <1>2, <1>3, <1>4, <1>5, <1>6, <1>7, <1>8 DEF DfaNext

-----------------------------------------------------------------------------
(* The minimiser. *)

LEMMA StatesFinite ==
  ASSUME Shape PROVE IsFiniteSet(States) /\ States \in SUBSET Nat /\ nstates \in Nat
<1>1. nstates \in Nat /\ nstates - 1 \in Int /\ States \in SUBSET Nat
  BY DEF Shape, States
<1>2. IsFiniteSet(0 .. nstates - 1)
  BY <1>1, FS_Interval
<1> QED BY <1>1, <1>2 DEF States

\* The first state with the accept string of q.
LEMMA FirstAlikeOf ==
  ASSUME Shape, NEW q \in States
  PROVE  /\ FirstAlike(q) \in States /\ FirstAlike(q) <= q
         /\ SameAccept(FirstAlike(q), q)
         /\ FirstAlike(FirstAlike(q)) = FirstAlike(q)
<1> DEFINE alike(r) == {p \in States : dstates[p].accept = dstates[r].accept}
<1>1. \A r : FirstAlike(r) = Least(alike(r))
  BY DEF FirstAlike
<1>2. alike(q) \in SUBSET Nat /\ q \in alike(q)
  BY StatesFinite
<1> HIDE DEF alike
<1>3. FirstAlike(q) \in alike(q) /\ FirstAlike(q) <= q
  BY <1>1, <1>2, LeastElement
<1>4. FirstAlike(q) \in States /\ SameAccept(FirstAlike(q), q)
  BY <1>3 DEF alike, SameAccept
<1>5. alike(FirstAlike(q)) = alike(q)
  BY <1>4 DEF alike, SameAccept
<1> QED BY <1>1, <1>3, <1>4, <1>5

\* init_groups() numbers the groups from 0 without a gap beyond, and tells
\* states with different accept strings apart.
LEMMA InitialGroups ==
  ASSUME Shape
  PROVE  LET leaders == {p \in States : FirstAlike(p) = p}
         IN /\ Cardinality(leaders) \in Nat
            /\ \A q \in States : InitialGroup(q) \in 0 .. Cardinality(leaders) - 1
            /\ \A p, q \in States : InitialGroup(p) = InitialGroup(q) => SameAccept(p, q)
<1> DEFINE leaders  == {p \in States : FirstAlike(p) = p}
           below(f) == {p \in 0 .. f - 1 : FirstAlike(p) = p}
<1>1. IsFiniteSet(States) /\ States \in SUBSET Nat /\ nstates \in Nat
  BY StatesFinite
<1>2. IsFiniteSet(leaders) /\ Cardinality(leaders) \in Nat
  BY <1>1, FS_Subset, FS_CardinalityType
<1>3. \A q : InitialGroup(q) = Cardinality(below(FirstAlike(q)))
  BY DEF InitialGroup
<1>4. \A f \in States : f \notin below(f)
  BY <1>1
<1>5. \A f \in States : below(f) \subseteq leaders
  BY <1>1 DEF States
<1>6. \A f, g \in States : f < g => below(f) \subseteq below(g)
  BY <1>1
<1>7. \A f, g \in States : f < g /\ FirstAlike(f) = f => f \in below(g)
  BY <1>1
<1>8. \A f \in States : FirstAlike(f) = f => f \in leaders
  OBVIOUS
<1> HIDE DEF leaders, below
<1>9. ASSUME NEW f \in States, NEW S, IsFiniteSet(S), below(f) \subseteq S, f \in S
      PROVE  Cardinality(below(f)) \in Nat /\ Cardinality(below(f)) < Cardinality(S)
  <2>1. IsFiniteSet(S \ {f}) /\ Cardinality(S \ {f}) = Cardinality(S) - 1
    BY <1>9, FS_RemoveElement
  <2>2. below(f) \in SUBSET (S \ {f})
    BY <1>4, <1>9
  <2>3. IsFiniteSet(below(f)) /\ Cardinality(below(f)) <= Cardinality(S \ {f})
    BY <2>1, <2>2, FS_Subset
  <2>4. Cardinality(below(f)) \in Nat /\ Cardinality(S) \in Nat
    BY <1>9, <2>3, FS_CardinalityType
  <2> QED BY <2>1, <2>3, <2>4
<1>10. ASSUME NEW q \in States PROVE InitialGroup(q) \in 0 .. Cardinality(leaders) - 1
  <2>1. FirstAlike(q) \in States /\ FirstAlike(q) \in leaders
    BY FirstAlikeOf, <1>8
  <2>2. Cardinality(below(FirstAlike(q))) \in Nat
        /\ Cardinality(below(FirstAlike(q))) < Cardinality(leaders)
    BY <2>1, <1>2, <1>5, <1>9
  <2> QED BY <2>2, <1>2, <1>3
<1>11. ASSUME NEW p \in States, NEW q \in States, FirstAlike(p) < FirstAlike(q)
       PROVE  InitialGroup(p) # InitialGroup(q)
  <2>1. /\ FirstAlike(p) \in States /\ FirstAlike(FirstAlike(p)) = FirstAlike(p)
        /\ FirstAlike(q) \in States
    BY FirstAlikeOf
  <2>2. below(FirstAlike(p)) \subseteq below(FirstAlike(q)) /\ FirstAlike(p) \in below(FirstAlike(q))
    BY <2>1, <1>6, <1>7, <1>11
  <2>3. IsFiniteSet(below(FirstAlike(q)))
    BY <2>1, <1>2, <1>5, FS_Subset
  <2>4. Cardinality(below(FirstAlike(p))) \in Nat
        /\ Cardinality(below(FirstAlike(p))) < Cardinality(below(FirstAlike(q)))
    BY <2>1, <2>2, <2>3, <1>9
  <2>5. Cardinality(below(FirstAlike(q))) \in Nat
    BY <2>3, FS_CardinalityType
  <2> QED BY <2>4, <2>5, <1>3
<1>12. ASSUME NEW p \in States, NEW q \in States, InitialGroup(p) = InitialGroup(q)
       PROVE  SameAccept(p, q)
  <2>1. /\ FirstAlike(p) \in States /\ SameAccept(FirstAlike(p), p)
        /\ FirstAlike(q) \in States /\ SameAccept(FirstAlike(q), q)
    BY FirstAlikeOf
  <2>2. ~(FirstAlike(p) < FirstAlike(q)) /\ ~(FirstAlike(q) < FirstAlike(p))
    BY <1>11, <1>12
  <2>3. FirstAlike(p) = FirstAlike(q)
    <3>1. FirstAlike(p) \in Nat /\ FirstAlike(q) \in Nat
      BY <2>1, <1>1
    <3>2. \A m, n \in Nat : ~(m < n) /\ ~(n < m) => m = n
      OBVIOUS
    <3> QED BY <3>1, <3>2, <2>2
  <2> QED BY <2>1, <2>3 DEF SameAccept
<1> QED BY <1>2, <1>10, <1>12 DEF leaders

\* The facts of SplitInv do not change with what they do not mention.
LEMMA SplitKept ==
  ASSUME UNCHANGED <<nstates, dstates, dtran, groups, ngroups, ingroup>>
  PROVE  /\ States' = States
         /\ \A p, q : SameAccept(p, q) <=> SameAccept(p, q)'
         /\ \A p, q : Alike(p, q) <=> Alike(p, q)'
         /\ \A p, q : SameGroup(p, q) <=> SameGroup(p, q)'
BY DEF States, SameAccept, Alike, GotoGroup, SameGroup

LEMMA AlikeIsEquivalence ==
  /\ \A p : Alike(p, p)
  /\ \A p, q, r : Alike(p, q) /\ Alike(p, r) => Alike(q, r)
  /\ \A p, q : Alike(p, q) <=> ~Differ(p, q)
BY DEF Alike, Differ

LEMMA InitGroupsKeeps ==
  ASSUME MinInv, InitGroups PROVE MinInv'
<1>1. Shape
  BY DEF MinInv, DfaInv
<1>2. /\ ngroups' \in Nat
      /\ \A q \in States : InitialGroup(q) \in 0 .. ngroups' - 1
      /\ \A p, q \in States : InitialGroup(p) = InitialGroup(q) => SameAccept(p, q)
  BY <1>1, InitialGroups DEF InitGroups
<1>3. /\ States' = States
      /\ ingroup' = [q \in States |-> InitialGroup(q)]
      /\ groups' = [g \in 0 .. ngroups' - 1 |-> {q \in States : InitialGroup(q) = g}]
      /\ old_numgroups' = ngroups' /\ current' = 0 /\ member' = NULL /\ phase' = "split"
      /\ UNCHANGED <<nstates, dstates>>
  BY DEF InitGroups, States
<1>4. DfaInv'
  BY DfaKept DEF MinInv, InitGroups
<1>5. DOMAIN groups' = 0 .. ngroups' - 1
  BY <1>3
<1>6. GroupShape'
  BY <1>2, <1>3, <1>5 DEF GroupShape, NULL
<1>7. Partition'
  <2>1. \A q \in States : ingroup'[q] = InitialGroup(q)
    BY <1>3
  <2>2. \A g \in 0 .. ngroups' - 1 : groups'[g] = {q \in States : ingroup'[q] = g}
    BY <1>3, <2>1
  <2> QED BY <1>2, <1>3, <1>5, <2>1, <2>2 DEF Partition
<1>8. AcceptsAlike' /\ NewGroupAlike'
  BY <1>2, <1>3 DEF AcceptsAlike, NewGroupAlike, SameGroup, SameAccept
<1>9. Compared'
  BY <1>3 DEF Compared
<1> QED BY <1>3, <1>4, <1>6, <1>7, <1>8, <1>9 DEF MinInv, SplitInv

LEMMA SkipSmallGroupKeeps ==
  ASSUME MinInv, SkipSmallGroup PROVE MinInv'
<1>1. SplitInv /\ Shape /\ current < ngroups /\ member = NULL /\ phase = "split"
      /\ Cardinality(groups[current]) <= 1
  BY DEF MinInv, DfaInv, SkipSmallGroup, Splitting
<1>2. /\ current' = current + 1
      /\ UNCHANGED <<dfaVars, groups, ngroups, ingroup, old_numgroups, member>>
  BY DEF SkipSmallGroup
<1>3. /\ States' = States
      /\ UNCHANGED <<phase, nodes, sstate, nstates, dstates, dtran, last_marked, ch,
                     groups, ngroups, ingroup, old_numgroups, member>>
  BY <1>2 DEF dfaVars, States
<1>4. DfaInv'
  BY <1>3, DfaKept DEF MinInv
<1>5. GroupShape'
  BY <1>1, <1>2, <1>3 DEF SplitInv, GroupShape
<1>6. Partition' /\ AcceptsAlike' /\ NewGroupAlike'
  BY <1>1, <1>3, SplitKept DEF SplitInv, Partition, AcceptsAlike, NewGroupAlike
<1>7. \A p, q \in groups[current] : p = q
  <2> DEFINE G == groups[current]
  <2>1. G \in SUBSET States
    BY <1>1 DEF SplitInv, GroupShape, Partition
  <2>2. IsFiniteSet(G) /\ Cardinality(G) \in Nat
    BY <1>1, <2>1, StatesFinite, FS_Subset, FS_CardinalityType
  <2>3. Cardinality(G) = 0 \/ Cardinality(G) = 1
    BY <1>1, <2>2
  <2> HIDE DEF G
  <2>4. G = {} \/ \E x : G = {x}
    BY <2>2, <2>3, FS_EmptySet, FS_Singleton
  <2>5. \A p, q \in G : p = q
    BY <2>4
  <2> QED BY <2>5 DEF G
<1>8. Compared'
  <2> SUFFICES ASSUME Quiet PROVE \A g \in 0 .. current : \A p, q \in groups[g] : Alike(p, q)
    BY <1>1, <1>2, <1>3, SplitKept DEF Compared, Quiet, SplitInv, GroupShape
  <2>1. \A g \in 0 .. current - 1 : \A p, q \in groups[g] : Alike(p, q)
    BY <1>1 DEF SplitInv, Compared
  <2>2. \A p, q \in groups[current] : Alike(p, q)
    BY <1>7, AlikeIsEquivalence
  <2> QED BY <1>1, <2>1, <2>2 DEF SplitInv, GroupShape
<1> QED BY <1>1, <1>3, <1>4, <1>5, <1>6, <1>8 DEF MinInv, SplitInv

LEMMA BeginGroupKeeps ==
  ASSUME MinInv, BeginGroup PROVE MinInv'
<1> DEFINE G == groups[current]
<1>1. SplitInv /\ Shape /\ current < ngroups /\ member = NULL /\ phase = "split"
      /\ Cardinality(G) > 1
  BY DEF MinInv, DfaInv, BeginGroup, Splitting
<1>2. /\ groups' = [g \in 0 .. ngroups |-> IF g = ngroups THEN {} ELSE groups[g]]
      /\ member' = Least(G)
      /\ UNCHANGED <<dfaVars, ngroups, ingroup, old_numgroups, current>>
  BY DEF BeginGroup
<1>3. /\ States' = States
      /\ UNCHANGED <<phase, nodes, sstate, nstates, dstates, dtran, last_marked, ch,
                     ngroups, ingroup, old_numgroups, current>>
  BY <1>2 DEF dfaVars, States
<1>4. DfaInv'
  BY <1>3, DfaKept DEF MinInv
<1>5. ngroups \in Nat /\ current \in Nat /\ DOMAIN groups = 0 .. ngroups - 1
  BY <1>1 DEF SplitInv, GroupShape
<1>6. /\ DOMAIN groups' = 0 .. ngroups /\ groups'[ngroups] = {}
      /\ \A g \in 0 .. ngroups - 1 : groups'[g] = groups[g]
  BY <1>2, <1>5
<1>7. G \in SUBSET States /\ G \in SUBSET Nat /\ G # {}
  <2>1. G \in SUBSET States
    BY <1>1, <1>5 DEF SplitInv, Partition
  <2>2. Cardinality({}) = 0
    BY FS_EmptySet
  <2> QED BY <1>1, <2>1, <2>2, StatesFinite
<1> HIDE DEF G
<1>8. member' \in G /\ \A q \in G : member' <= q
  BY <1>2, <1>7, LeastElement
<1>9. groups'[current] = G /\ member' # NULL
  BY <1>1, <1>5, <1>6, <1>7, <1>8 DEF G, NULL
<1>10. GroupShape'
  BY <1>1, <1>3, <1>5, <1>6, <1>7, <1>8, <1>9 DEF SplitInv, GroupShape
<1>11. Partition'
  <2>1. \A q \in States : ingroup[q] \in 0 .. ngroups - 1
    BY <1>1, <1>5 DEF SplitInv, Partition
  <2>2. {q \in States : ingroup[q] = ngroups} = {}
    BY <2>1, <1>5
  <2>3. ASSUME NEW g \in 0 .. ngroups PROVE groups'[g] = {q \in States : ingroup[q] = g}
    <3>1. CASE g = ngroups
      BY <3>1, <2>2, <1>6
    <3>2. CASE g # ngroups
      <4>1. g \in 0 .. ngroups - 1
        BY <3>2, <1>5
      <4> QED BY <4>1, <1>1, <1>5, <1>6 DEF SplitInv, Partition
    <3> QED BY <3>1, <3>2
  <2>4. \A q \in States : ingroup[q] \in 0 .. ngroups
    BY <2>1, <1>5
  <2>5. DOMAIN ingroup = States
    BY <1>1 DEF SplitInv, Partition
  <2> QED BY <2>3, <2>4, <2>5, <1>3, <1>6 DEF Partition
<1>12. AcceptsAlike' /\ NewGroupAlike'
  <2>1. AcceptsAlike'
    BY <1>1, <1>3 DEF SplitInv, AcceptsAlike, SameGroup, SameAccept
  <2> QED BY <2>1, <1>3, <1>6 DEF NewGroupAlike
<1>13. \A p, q : Alike(p, q) <=> Alike(p, q)'
  BY <1>3 DEF Alike, GotoGroup
<1>14. Compared'
  <2> SUFFICES ASSUME Quiet'
               PROVE  /\ \A g \in 0 .. current - 1 : \A p, q \in groups'[g] : Alike(p, q)
                      /\ \A q \in groups'[current] : q <= member' => Alike(First', q)
    BY <1>3, <1>13 DEF Compared
  <2>1. Quiet
    BY <1>1, <1>3 DEF Quiet
  <2>2. ASSUME NEW g \in 0 .. current - 1 PROVE \A p, q \in groups'[g] : Alike(p, q)
    <3>1. g \in 0 .. ngroups - 1
      BY <1>1, <1>5
    <3>2. \A p, q \in groups[g] : Alike(p, q)
      BY <2>1, <1>1 DEF SplitInv, Compared
    <3> QED BY <3>1, <3>2, <1>6
  <2>3. First' = member'
    BY <1>2, <1>3, <1>9 DEF First, G
  <2>4. ASSUME NEW q \in groups'[current], q <= member' PROVE Alike(First', q)
    <3>1. q = member'
      BY <2>4, <1>7, <1>8, <1>9
    <3> QED BY <3>1, <2>3, AlikeIsEquivalence
  <2> QED BY <2>2, <2>4
<1> QED BY <1>1, <1>3, <1>4, <1>10, <1>11, <1>12, <1>14 DEF MinInv, SplitInv

\* What is known while a group is being compared.
LEMMA WhileComparing ==
  ASSUME MinInv, Splitting, member # NULL
  PROVE  /\ SplitInv /\ Shape /\ phase = "split"
         /\ ngroups \in Nat /\ current \in Nat /\ current < ngroups
         /\ member \in States /\ DOMAIN groups = 0 .. ngroups
         /\ groups[current] \in SUBSET States /\ groups[current] \in SUBSET Nat
         /\ Rest # {} => /\ Least(Rest) \in groups[current] /\ member < Least(Rest)
                         /\ \A q \in groups[current] : q <= Least(Rest) => q <= member \/ q = Least(Rest)
<1>1. SplitInv /\ Shape /\ phase = "split" /\ current < ngroups
  BY DEF MinInv, DfaInv, Splitting
<1>2. /\ ngroups \in Nat /\ current \in Nat /\ member \in States /\ DOMAIN groups = 0 .. ngroups
  BY <1>1 DEF SplitInv, GroupShape
<1>3. groups[current] \in SUBSET States /\ groups[current] \in SUBSET Nat /\ member \in Nat
  <2>1. groups[current] = {q \in States : ingroup[q] = current}
    BY <1>1, <1>2 DEF SplitInv, Partition
  <2> QED BY <2>1, <1>1, <1>2, StatesFinite
<1>4. ASSUME Rest # {}
      PROVE  /\ Least(Rest) \in groups[current] /\ member < Least(Rest)
             /\ \A q \in groups[current] : q <= Least(Rest) => q <= member \/ q = Least(Rest)
  <2>1. Rest \in SUBSET Nat
    BY <1>3 DEF Rest
  <2>2. Least(Rest) \in Rest /\ \A j \in Rest : Least(Rest) <= j
    BY <1>4, <2>1, LeastElement
  <2>3. Least(Rest) \in groups[current] /\ member < Least(Rest) /\ Least(Rest) \in Nat
    BY <2>1, <2>2, <1>3 DEF Rest
  <2>4. ASSUME NEW q \in groups[current], q <= Least(Rest), ~(q <= member)
        PROVE  q = Least(Rest)
    <3>1. q \in Rest /\ q \in Nat
      BY <2>4, <1>3 DEF Rest
    <3>2. Least(Rest) <= q
      BY <3>1, <2>2
    <3> QED BY <2>3, <2>4, <3>1, <3>2
  <2> QED BY <2>3, <2>4
<1> QED BY <1>1, <1>2, <1>3, <1>4

LEMMA KeepKeeps ==
  ASSUME MinInv, Keep PROVE MinInv'
<1> DEFINE next == Least(Rest)
<1>1. /\ SplitInv /\ Shape /\ phase = "split"
      /\ ngroups \in Nat /\ current \in Nat /\ current < ngroups
      /\ member \in States /\ DOMAIN groups = 0 .. ngroups
      /\ groups[current] \in SUBSET States /\ groups[current] \in SUBSET Nat
      /\ next \in groups[current]
      /\ \A q \in groups[current] : q <= next => q <= member \/ q = next
  BY WhileComparing DEF Keep
<1>2. member # NULL /\ ~Differ(First, next) /\ member' = next
  BY DEF Keep
<1>3. UNCHANGED <<phase, nodes, sstate, nstates, dstates, dtran, last_marked, ch,
                  groups, ngroups, ingroup, old_numgroups, current>>
  BY DEF Keep, dfaVars
<1>4. DfaInv'
  BY <1>3, DfaKept DEF MinInv
<1> HIDE DEF next
<1>5. next \in States /\ next \in Nat /\ next # NULL
  BY <1>1 DEF NULL
<1>6. GroupShape'
  <2>1. States' = States
    BY <1>3 DEF States
  <2> QED BY <2>1, <1>1, <1>2, <1>3, <1>5 DEF SplitInv, GroupShape
<1>7. Partition' /\ AcceptsAlike' /\ NewGroupAlike'
  BY <1>1, <1>2, <1>3, SplitKept DEF SplitInv, Partition, AcceptsAlike, NewGroupAlike
<1>8. Compared'
  <2> SUFFICES ASSUME Quiet'
               PROVE  /\ \A g \in 0 .. current - 1 : \A p, q \in groups[g] : Alike(p, q)
                      /\ \A q \in groups[current] : q <= next => Alike(First, q)
    <3>1. First' = First
      BY <1>3 DEF First
    <3>2. \A p, q : Alike(p, q) <=> Alike(p, q)'
      BY <1>3 DEF Alike, GotoGroup
    <3> QED BY <3>1, <3>2, <1>2, <1>3 DEF Compared
  <2>1. Quiet
    BY <1>2, <1>3, <1>5 DEF Quiet
  <2>2. /\ \A g \in 0 .. current - 1 : \A p, q \in groups[g] : Alike(p, q)
        /\ \A q \in groups[current] : q <= member => Alike(First, q)
    BY <2>1, <1>1, <1>2 DEF SplitInv, Compared
  <2>3. Alike(First, next)
    BY <1>2, AlikeIsEquivalence
  <2> QED BY <2>2, <2>3, <1>1
<1> QED BY <1>1, <1>3, <1>4, <1>6, <1>7, <1>8 DEF MinInv, SplitInv

LEMMA MoveKeeps ==
  ASSUME MinInv, Move PROVE MinInv'
<1> DEFINE next == Least(Rest)
<1>1. /\ SplitInv /\ Shape /\ phase = "split"
      /\ ngroups \in Nat /\ current \in Nat /\ current < ngroups
      /\ member \in States /\ DOMAIN groups = 0 .. ngroups
      /\ groups[current] \in SUBSET States /\ groups[current] \in SUBSET Nat
      /\ next \in groups[current]
  BY WhileComparing DEF Move
<1>2. /\ groups' = [groups EXCEPT ![current] = @ \ {next}, ![ngroups] = @ \cup {next}]
      /\ ingroup' = [ingroup EXCEPT ![next] = ngroups] /\ member' = next /\ member # NULL
  BY DEF Move
<1>3. UNCHANGED <<phase, nodes, sstate, nstates, dstates, dtran, last_marked, ch,
                  ngroups, old_numgroups, current>>
  BY DEF Move, dfaVars
<1>4. DfaInv'
  BY <1>3, DfaKept DEF MinInv
<1> HIDE DEF next
<1>5. next \in States /\ next \in Nat /\ next # NULL /\ States' = States
  BY <1>1, <1>3 DEF NULL, States
<1>6. /\ DOMAIN ingroup = States /\ \A q \in States : ingroup[q] \in 0 .. ngroups
      /\ \A g \in 0 .. ngroups : groups[g] = {q \in States : ingroup[q] = g}
  BY <1>1 DEF SplitInv, Partition
<1>7. /\ DOMAIN groups' = 0 .. ngroups /\ DOMAIN ingroup' = States
      /\ groups'[current] = groups[current] \ {next}
      /\ groups'[ngroups] = groups[ngroups] \cup {next}
      /\ \A g \in 0 .. ngroups : g # current /\ g # ngroups => groups'[g] = groups[g]
      /\ ingroup'[next] = ngroups
      /\ \A q \in States : q # next => ingroup'[q] = ingroup[q]
  BY <1>1, <1>2, <1>5, <1>6
<1>8. ingroup[next] = current
  BY <1>1, <1>5, <1>6
<1>9. GroupShape'
  BY <1>1, <1>2, <1>3, <1>5, <1>7 DEF SplitInv, GroupShape
<1>10. Partition'
  <2>1. ASSUME NEW g \in 0 .. ngroups PROVE groups'[g] = {q \in States : ingroup'[q] = g}
    <3>1. groups[g] = {q \in States : ingroup[q] = g}
      BY <1>6
    <3>2. CASE g = current
      BY <3>1, <3>2, <1>1, <1>7
    <3>3. CASE g = ngroups
      BY <3>1, <3>3, <1>5, <1>7
    <3>4. CASE g # current /\ g # ngroups
      BY <3>1, <3>4, <1>7, <1>8
    <3> QED BY <3>2, <3>3, <3>4
  <2>2. \A q \in States : ingroup'[q] \in 0 .. ngroups
    BY <1>1, <1>6, <1>7
  <2> QED BY <2>1, <2>2, <1>5, <1>7 DEF Partition
<1>11. \A p, q : SameAccept(p, q) <=> SameAccept(p, q)'
  BY <1>3 DEF SameAccept
<1>12. AcceptsAlike'
  <2>1. \A p \in groups[ngroups], q \in groups[current] : SameAccept(p, q)
    BY <1>1, <1>2 DEF SplitInv, NewGroupAlike
  <2>2. ASSUME NEW q \in States, q # next, ingroup[q] = ngroups PROVE SameAccept(q, next)
    BY <2>1, <2>2, <1>1, <1>6
  <2>3. ASSUME NEW p \in States, NEW q \in States, ingroup'[p] = ingroup'[q]
        PROVE  SameAccept(p, q)
    <3>1. CASE p # next /\ q # next
      BY <2>3, <3>1, <1>1, <1>7 DEF SplitInv, AcceptsAlike, SameGroup
    <3>2. CASE p = next /\ q # next
      BY <2>2, <2>3, <3>2, <1>7 DEF SameAccept
    <3>3. CASE p # next /\ q = next
      BY <2>2, <2>3, <3>3, <1>7
    <3>4. CASE p = next /\ q = next
      BY <3>4 DEF SameAccept
    <3> QED BY <3>1, <3>2, <3>3, <3>4
  <2> QED BY <2>3, <1>5, <1>11 DEF AcceptsAlike, SameGroup
<1>13. NewGroupAlike'
  <2>1. ASSUME NEW p \in groups'[ngroups], NEW q \in groups'[current] PROVE SameAccept(p, q)
    <3>1. q \in groups[current]
      BY <1>7
    <3>2. CASE p \in groups[ngroups]
      BY <3>1, <3>2, <1>1, <1>2 DEF SplitInv, NewGroupAlike
    <3>3. CASE p = next
      <4>1. SameGroup(p, q) /\ p \in States /\ q \in States
        BY <3>1, <3>3, <1>1, <1>5, <1>6, <1>8 DEF SameGroup
      <4> QED BY <4>1, <1>1 DEF SplitInv, AcceptsAlike
    <3> QED BY <3>2, <3>3, <1>7
  <2> QED BY <2>1, <1>3, <1>11 DEF NewGroupAlike
<1>14. Compared'
  BY <1>2, <1>3, <1>5, <1>7 DEF Compared, Quiet
<1> QED BY <1>1, <1>3, <1>4, <1>9, <1>10, <1>12, <1>13, <1>14 DEF MinInv, SplitInv

LEMMA EndGroupKeeps ==
  ASSUME MinInv, EndGroup PROVE MinInv'
<1>1. /\ SplitInv /\ Shape /\ phase = "split"
      /\ ngroups \in Nat /\ current \in Nat /\ current < ngroups
      /\ member \in States /\ DOMAIN groups = 0 .. ngroups
      /\ groups[current] \in SUBSET Nat
  BY WhileComparing DEF EndGroup
<1>2. /\ ngroups' = IF groups[ngroups] # {} THEN ngroups + 1 ELSE ngroups
      /\ groups' = [g \in 0 .. ngroups' - 1 |-> groups[g]]
      /\ current' = current + 1 /\ member' = NULL /\ member # NULL /\ Rest = {}
  BY DEF EndGroup
<1>3. UNCHANGED <<phase, nodes, sstate, nstates, dstates, dtran, last_marked, ch,
                  ingroup, old_numgroups>>
  BY DEF EndGroup, dfaVars
<1>4. DfaInv'
  BY <1>3, DfaKept DEF MinInv
<1>5. ngroups' \in Nat /\ ngroups <= ngroups' /\ ngroups' - 1 <= ngroups /\ States' = States
  BY <1>1, <1>2, <1>3 DEF States
<1>6. /\ DOMAIN groups' = 0 .. ngroups' - 1
      /\ \A g \in 0 .. ngroups' - 1 : g \in 0 .. ngroups /\ groups'[g] = groups[g]
  BY <1>1, <1>2, <1>5
<1>7. GroupShape'
  BY <1>1, <1>2, <1>3, <1>5, <1>6 DEF SplitInv, GroupShape
<1>8. Partition'
  <2>1. /\ DOMAIN ingroup = States /\ \A q \in States : ingroup[q] \in 0 .. ngroups
        /\ \A g \in 0 .. ngroups : groups[g] = {q \in States : ingroup[q] = g}
    BY <1>1 DEF SplitInv, Partition
  <2>2. ASSUME NEW q \in States PROVE ingroup[q] \in 0 .. ngroups' - 1
    <3>1. CASE groups[ngroups] # {}
      BY <3>1, <2>1, <1>1, <1>2
    <3>2. CASE groups[ngroups] = {}
      <4>1. ingroup[q] # ngroups
        BY <3>2, <2>1, <1>1
      <4> QED BY <3>2, <4>1, <2>1, <1>1, <1>2
    <3> QED BY <3>1, <3>2
  <2> QED BY <2>1, <2>2, <1>3, <1>5, <1>6 DEF Partition
<1>9. AcceptsAlike' /\ NewGroupAlike'
  <2>1. AcceptsAlike'
    BY <1>1, <1>3, <1>5 DEF SplitInv, AcceptsAlike, SameGroup, SameAccept
  <2> QED BY <2>1, <1>2 DEF NewGroupAlike
<1>10. Compared'
  <2> SUFFICES ASSUME Quiet' PROVE \A g \in 0 .. current : \A p, q \in groups'[g] : Alike(p, q)
    <3>1. \A p, q : Alike(p, q) <=> Alike(p, q)'
      BY <1>3 DEF Alike, GotoGroup
    <3>2. 0 .. current' - 1 = 0 .. current /\ ~(member' # NULL)
      BY <1>1, <1>2
    <3> QED BY <3>1, <3>2 DEF Compared
  <2>1. old_numgroups \in Nat /\ old_numgroups <= ngroups
    BY <1>1 DEF SplitInv, GroupShape
  <2>2. groups[ngroups] = {} /\ ngroups' = ngroups /\ Quiet
    BY <2>1, <1>1, <1>2, <1>3 DEF Quiet
  <2>3. /\ \A g \in 0 .. current - 1 : \A p, q \in groups[g] : Alike(p, q)
        /\ \A q \in groups[current] : q <= member => Alike(First, q)
    BY <2>2, <1>1, <1>2 DEF SplitInv, Compared
  <2>4. member \in Nat
    BY <1>1, StatesFinite
  <2>5. \A q \in groups[current] : q <= member
    BY <1>1, <1>2, <2>4 DEF Rest
  <2>6. \A p, q \in groups[current] : Alike(p, q)
    BY <2>3, <2>5, AlikeIsEquivalence
  <2>7. \A g \in 0 .. current : groups'[g] = groups[g]
    BY <2>2, <1>1, <1>6
  <2> QED BY <2>3, <2>6, <2>7, <1>1
<1> QED BY <1>1, <1>3, <1>4, <1>7, <1>8, <1>9, <1>10 DEF MinInv, SplitInv

LEMMA NextPassKeeps ==
  ASSUME MinInv, NextPass PROVE MinInv'
<1>1. SplitInv /\ phase = "split" /\ current = ngroups
  BY DEF MinInv, NextPass, PassEnded
<1>2. /\ old_numgroups' = ngroups /\ current' = 0
      /\ UNCHANGED <<phase, nodes, sstate, nstates, dstates, dtran, last_marked, ch,
                     groups, ngroups, ingroup, member>>
  BY DEF NextPass, dfaVars
<1>3. DfaInv'
  BY <1>2, DfaKept DEF MinInv
<1>4. ngroups \in Nat /\ member = NULL
  BY <1>1 DEF SplitInv, GroupShape
<1>5. GroupShape'
  <2>1. States' = States
    BY <1>2 DEF States
  <2> QED BY <2>1, <1>1, <1>2, <1>4 DEF SplitInv, GroupShape
<1>6. Partition' /\ AcceptsAlike' /\ NewGroupAlike'
  BY <1>1, <1>2, <1>4, SplitKept DEF SplitInv, Partition, AcceptsAlike, NewGroupAlike
<1>7. Compared'
  BY <1>2, <1>4 DEF Compared
<1> QED BY <1>1, <1>2, <1>3, <1>5, <1>6, <1>7 DEF MinInv, SplitInv

\* A pass that ends without having moved anything has compared every group.
LEMMA FixDtranKeeps ==
  ASSUME MinInv, FixDtran PROVE MinInv'
<1>1. SplitInv /\ phase = "split" /\ current = ngroups /\ old_numgroups = ngroups
  BY DEF MinInv, FixDtran, PassEnded
<1>2. /\ phase' = "done"
      /\ UNCHANGED <<nodes, sstate, nstates, dstates, dtran, last_marked, ch,
                     groups, ngroups, ingroup>>
  BY DEF FixDtran, minOnly
<1>3. DfaInv'
  BY <1>1, <1>2, DfaKept DEF MinInv
<1>4. member = NULL /\ DOMAIN groups = 0 .. ngroups - 1
  BY <1>1 DEF SplitInv, GroupShape
<1>5. \A g \in 0 .. ngroups - 1 : \A p, q \in groups[g] : Alike(p, q)
  BY <1>1, <1>4 DEF SplitInv, Compared, Quiet
<1>6. ASSUME NEW p \in States, NEW q \in States, SameGroup(p, q) PROVE Alike(p, q)
  <2>1. /\ ingroup[p] \in 0 .. ngroups - 1 /\ p \in groups[ingroup[p]]
        /\ q \in groups[ingroup[p]]
    BY <1>1, <1>4, <1>6 DEF SplitInv, Partition, SameGroup
  <2> QED BY <2>1, <1>5
<1>7. Partition' /\ AcceptsAlike' /\ \A p, q \in States' : SameGroup(p, q)' => Alike(p, q)'
  BY <1>1, <1>2, <1>6, SplitKept DEF SplitInv, Partition, AcceptsAlike
<1> QED BY <1>2, <1>3, <1>7 DEF MinInv

-----------------------------------------------------------------------------

LEMMA MinInitially == MinInit => MinInv
<1>1. MinInit => DfaInv /\ phase = "nfa"
  BY DfaInitially DEF MinInit, DfaInit
<1> QED BY <1>1 DEF MinInv

LEMMA MinNextKeeps == MinInv /\ [MinNext]_minVars => MinInv'
<1> SUFFICES ASSUME MinInv, [MinNext]_minVars PROVE MinInv'
  OBVIOUS
<1>1. CASE DfaNext /\ UNCHANGED <<minOnly, mindtran, minaccept>>
  <2>1. DfaInv'
    BY <1>1, DfaNextKeeps DEF MinInv
  <2>2. phase' \notin {"split", "done"}
    BY <1>1 DEF DfaNext, ReadNfa, StartState, GetUnmarked, AllMarked, NoMove, KnownState,
               NewState, TooManyStates, Expanding
  <2> QED BY <2>1, <2>2 DEF MinInv
<1>2. CASE InitGroups
  BY <1>2, InitGroupsKeeps
<1>3. CASE SkipSmallGroup
  BY <1>3, SkipSmallGroupKeeps
<1>4. CASE BeginGroup
  BY <1>4, BeginGroupKeeps
<1>5. CASE Keep
  BY <1>5, KeepKeeps
<1>6. CASE Move
  BY <1>6, MoveKeeps
<1>7. CASE EndGroup
  BY <1>7, EndGroupKeeps
<1>8. CASE NextPass
  BY <1>8, NextPassKeeps
<1>9. CASE FixDtran
  BY <1>9, FixDtranKeeps
<1>10. CASE UNCHANGED minVars
  <2>1. /\ UNCHANGED <<phase, nodes, sstate, nstates, dstates, dtran, last_marked, ch>>
        /\ UNCHANGED <<groups, ngroups, ingroup, old_numgroups, current, member>>
    BY <1>10 DEF minVars, dfaVars, minOnly
  <2>2. DfaInv'
    BY <2>1, DfaKept DEF MinInv
  <2>3. First' = First
    BY <2>1 DEF First
  <2>4. SplitInv <=> SplitInv'
    BY <2>1, <2>3, SplitKept
       DEF SplitInv, GroupShape, Partition, AcceptsAlike, NewGroupAlike, Compared, Quiet
  <2>5. /\ Partition <=> Partition'
        /\ AcceptsAlike <=> AcceptsAlike'
        /\ (\A p, q \in States : SameGroup(p, q) => Alike(p, q))
             <=> (\A p, q \in States' : SameGroup(p, q)' => Alike(p, q)')
    BY <2>1, SplitKept DEF Partition, AcceptsAlike
  <2> QED BY <2>1, <2>2, <2>4, <2>5 DEF MinInv
<1> QED
  BY <1>1, <1>2, <1>3, <1>4, <1>5, <1>6, <1>7, <1>8, <1>9, <1>10 DEF MinNext

\* The invariant of dfa() and min_dfa(): the worklist of the one, and the
\* groups and what is known of them of the other.
THEOREM MinInvariant == MinSpec => []MinInv
<1> QED BY MinInitially, MinNextKeeps, PTL DEF MinSpec

\* make_trans() leaves get_unmarked() nothing to do only when every row is
\* filled in, each entry with the one state that has the set reached.
THEOREM TableComplete == MinSpec => []DfaComplete
<1>1. MinInv => DfaComplete
  <2> SUFFICES ASSUME MinInv, phase = "dfa" PROVE DfaComplete
    BY DEF DfaComplete, DfaFinished
  <2>1. Built /\ \A q \in States, c \in Chars : EntryOk(q, c)
    BY DEF MinInv, DfaInv
  <2>2. /\ nstates >= 1 /\ dstates[0].set = e_closure(nodes, {sstate})
        /\ \A p, q \in States : dstates[p].set = dstates[q].set => p = q
        /\ \A q \in States : dstates[q].accept = AcceptOf(nodes, dstates[q].set).string
    BY <2>1 DEF Built, StateOk
  <2>3. ASSUME NEW q \in States, NEW c \in Chars
        PROVE  LET to == move(nodes, dstates[q].set, c)
               IN /\ <<q, c>> \in DOMAIN dtran
                  /\ to = {} => dtran[<<q, c>>] = F
                  /\ to # {} => /\ dtran[<<q, c>>] \in States
                                /\ dstates[dtran[<<q, c>>]].set = e_closure(nodes, to)
    BY <2>1 DEF EntryOk
  <2>4. States = 0 .. nstates - 1
    BY DEF States
  <2> HIDE DEF States
  <2> QED BY <2>2, <2>3, <2>4 DEF DfaComplete
<1> QED BY <1>1, MinInvariant, PTL

\* _ingroup is the inverse of _groups at every step of minimize(), while a
\* group is being split too.
THEOREM GroupsAreInverse == MinSpec => []IngroupIsInverse
<1>1. MinInv => IngroupIsInverse
  BY DEF MinInv, SplitInv, Partition, IngroupIsInverse
<1> QED BY <1>1, MinInvariant, PTL

\* The groups minimize() ends with are stable, though each was compared while
\* later groups had still to be split: merging their states loses nothing.
THEOREM GroupsAreStable == MinSpec => []StableWhenDone
<1>1. MinInv => StableWhenDone
  BY DEF MinInv, AcceptsAlike, SameAccept, Alike, StableWhenDone
<1> QED BY <1>1, MinInvariant, PTL
==============================================================================
