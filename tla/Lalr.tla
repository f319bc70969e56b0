-------------------------------- MODULE Lalr --------------------------------
(***************************************************************************)
(* occs.  compiler/parser/yypatch.c takes the actions out of the grammar;  *)
(* yystate.c makes the LALR(1) machine: lr() closes states off a list of   *)
(* unfinished ones, until no state's lookaheads grow any more, and         *)
(* add_reductions() decides what to do on every token.                     *)
(*                                                                         *)
(* Items are values here.  Left out: the free list of items, the order in  *)
(* which the tables are printed (rows that are equal are printed once),    *)
(* the listing, and the files that hold the output.                        *)
(***************************************************************************)
EXTENDS Grammar

CONSTANTS MAXSTATE, MAXKERNEL, MAXCLOSE, MAXEPSILON, MAXUNFINISHED

ASSUME LalrAssumption ==
  /\ ~LLAMA
  /\ {MAXSTATE, MAXKERNEL, MAXCLOSE, MAXEPSILON, MAXUNFINISHED} \subseteq Nat \ {0}

VARIABLES
  does,       \* the action done when a production is reduced: [act, in, size], where
              \* it stands in that production after so many symbols
  lrstates,   \* [kernel, epsilon, closed]; the state numbered s is at s + 1
  unfinished, \* the states to be closed
  cur_state,  \* the one being closed
  items,      \* its closure_items: the lookaheads of every production in them, and
              \* when they are complete the items themselves
  actions,    \* for every state a function from tokens: > 0 shift, <= 0 reduce
  gotos,      \* for every state a function from nonterminals
  conflicts   \* lr_conflicts(): those reported

machine == <<does, lrstates, unfinished, cur_state, items, actions, gotos, conflicts>>

LalrInit ==
  /\ Init
  /\ does = <<>> /\ lrstates = <<>> /\ unfinished = {} /\ cur_state = NONE
  /\ items = <<>> /\ actions = <<>> /\ gotos = <<>> /\ conflicts = 0

-----------------------------------------------------------------------------
(* yypatch.c *)

\* An action ends a production or is inside; dopatch() meets those inside from the last
\* production of a nonterminal to the first, and from the end to the beginning.
EndsInAction(n) == prods[n].rhs # <<>> /\ ISACT(Last(prods[n].rhs))
Inside == {p \in (DOMAIN prods) \X (1 .. MAXRHS) :
             p[2] < Len(prods[p[1]].rhs) /\ ISACT(prods[p[1]].rhs[p[2]])}
Bucket(n) == CHOOSE k \in DOMAIN order : order[k] = prods[n].lhs
Met(x, y) == LET i == Bucket(x[1])
                 j == Bucket(y[1])
             IN i < j \/ (i = j /\ (x[1] > y[1] \/ (x[1] = y[1] /\ x[2] > y[2])))
Number(x) == Cardinality({y \in Inside : Met(y, x)}) + 1

\* What is done for the action at place i of production n.
Does(n, i) == [act |-> prods[n].rhs[i], in |-> n, size |-> i - 1]

\* The action at the end is taken off; one inside becomes a nonterminal, with an empty
\* production of its own.
patch ==
  /\ FirstDone
  /\ LET inner  == [k \in 1 .. Cardinality(Inside) |-> CHOOSE x \in Inside : Number(x) = k]
         new(k) == Val(Len(nonterms) + k)
         patched(n) ==
           LET rhs == IF EndsInAction(n) THEN Front(prods[n].rhs) ELSE prods[n].rhs
           IN [i \in DOMAIN rhs |-> IF ISACT(rhs[i]) THEN new(Number(<<n, i>>)) ELSE rhs[i]]
         done(n) == IF EndsInAction(n) THEN Does(n, Len(prods[n].rhs))
                    ELSE [act |-> NONE, in |-> n, size |-> 0]
     IN IF Len(nonterms) + Len(inner) > MINACT - MINNONTERM
        THEN at' = "fatal" /\ UNCHANGED <<nonterms, prods, first, does>>
        ELSE /\ prods' = [n \in DOMAIN prods |-> [prods[n] EXCEPT !.rhs = patched(n)]]
                           \o [k \in DOMAIN inner |-> [lhs |-> new(k), rhs |-> <<>>, prec |-> 0]]
             /\ does' = [n \in DOMAIN prods |-> done(n)]
                          \o [k \in DOMAIN inner |-> Does(inner[k][1], inner[k][2])]
             /\ nonterms' = nonterms \o [k \in DOMAIN inner |-> [name |-> "{}", set |-> TRUE]]
             /\ first' = [A \in {new(k) : k \in DOMAIN inner} |-> {EPSILON}] @@ first
             /\ at' = "patched"
  /\ order' = <<>> /\ turn' = 1 /\ did' = FALSE
  /\ UNCHANGED <<file, made, acts, sp, goal, nerrors, lrstates, unfinished, cur_state, items,
                 actions, gotos, conflicts>>

\* The first state of make_parse_tables().
make_parse_tables ==
  /\ at = "patched"
  /\ LET start == Productions(goal)
     IN IF goal = NONE \/ Cardinality(start) > 1
        THEN at' = "fatal" /\ UNCHANGED <<lrstates, unfinished, actions, gotos>>
        ELSE /\ at' = "lr"
             /\ lrstates' = <<[kernel  |-> <<[prod |-> Min(start), dot |-> 0, la |-> {_EOI_}]>>,
                               epsilon |-> <<>>, closed |-> FALSE]>>
             /\ unfinished' = {1} /\ actions' = <<<<>>>> /\ gotos' = <<<<>>>>
  /\ UNCHANGED <<file, made, built, first, closing, does, cur_state, items, conflicts>>

-----------------------------------------------------------------------------
(* Closure of a state. *)

right_of_dot(item) ==
  LET rhs == prods[item.prod].rhs IN IF item.dot < Len(rhs) THEN rhs[item.dot + 1] ELSE 0
Rest(item) == SubSeq(prods[item.prod].rhs, item.dot + 2, Len(prods[item.prod].rhs))

\* What may follow the nonterminal right of the dot.
closure_set(item) ==
  (Begins(Rest(item)) \ {EPSILON}) \cup IF Nullable(Rest(item)) THEN item.la ELSE {}

\* The productions, with an item each in closure_items, that do_close() finds for the
\* items of S, and their lookaheads.  Within a pass the program goes on from what it has
\* just added; the closure is the same.
Closed(S) == UNION {Productions(right_of_dot(it)) : it \in S}
Coming(S, n) ==
  UNION {closure_set(it) : it \in {x \in S : right_of_dot(x) = prods[n].lhs}}

Kernel(s) == lrstates[s].kernel
fresh_item(n) == [prod |-> n, dot |-> 0, la |-> items[n]]
Closing(S, old) ==
  LET new == [n \in DOMAIN old \cup Closed(S) |->
                Coming(S, n) \cup IF n \in DOMAIN old THEN old[n] ELSE {}]
  IN /\ items' = new /\ did' = (new # old)
     /\ at' = IF Cardinality(DOMAIN new) > MAXCLOSE THEN "fatal" ELSE "close"

\* The unfinished state of the lowest number; closure() of its kernel.
get_unfinished ==
  /\ at = "lr" /\ unfinished # {}
  /\ LET s == Min(unfinished)
     IN cur_state' = s /\ unfinished' = unfinished \ {s} /\ Closing(ToSet(Kernel(s)), <<>>)
  /\ UNCHANGED <<file, made, built, first, order, turn, does, lrstates, actions, gotos,
                 conflicts>>

\* A pass of closure() over the items there are when it begins.
closure ==
  /\ at = "close" /\ did
  /\ Closing({fresh_item(n) : n \in DOMAIN items}, items)
  /\ UNCHANGED <<file, made, built, first, order, turn, does, lrstates, unfinished,
                 cur_state, actions, gotos, conflicts>>

-----------------------------------------------------------------------------
(* The transitions of the state. *)

item_less(i, j) ==
  \/ right_of_dot(i) < right_of_dot(j)
  \/ right_of_dot(i) = right_of_dot(j) /\ i.prod < j.prod
  \/ right_of_dot(i) = right_of_dot(j) /\ i.prod = j.prod /\ i.dot < j.dot

\* sys_ssort() is a shell sort: two items that are equal, as the goal's production may be
\* when it is on a right-hand side, stay in their order or do not.
Tie(stay, i) == IF stay THEN i ELSE -i
Precedes(seq, stay, i, j) ==
  \/ item_less(seq[i], seq[j])
  \/ ~item_less(seq[j], seq[i]) /\ Tie(stay, i) < Tie(stay, j)
Place(seq, stay, i) == Cardinality({j \in DOMAIN seq : Precedes(seq, stay, j, i)}) + 1
Sorted(seq, stay) ==
  [k \in DOMAIN seq |-> seq[CHOOSE i \in DOMAIN seq : Place(seq, stay, i) = k]]

IsEpsilon(item) == prods[item.prod].rhs = <<>>
MergeLa(old, new) == [k \in DOMAIN old |-> [old[k] EXCEPT !.la = @ \cup new[k].la]]

\* kclosure() adds the kernel's items that are not at their end.
kclosure ==
  /\ at = "close" /\ ~did
  /\ LET fresh == Those([n \in DOMAIN prods |-> n], DOMAIN items)
         going == {it \in ToSet(Kernel(cur_state)) : right_of_dot(it) # 0}
     IN items' = [k \in DOMAIN fresh |-> fresh_item(fresh[k])] \o Those(Kernel(cur_state), going)
  /\ at' = IF Len(items') > MAXCLOSE THEN "fatal" ELSE "sort"
  /\ UNCHANGED <<file, made, built, first, closing, does, lrstates, unfinished, cur_state,
                 actions, gotos, conflicts>>

sort ==
  /\ at = "sort"
  /\ \E stay \in BOOLEAN : items' = Sorted(items, stay)
  /\ at' = "sorted"
  /\ UNCHANGED <<file, made, built, first, closing, does, lrstates, unfinished, cur_state,
                 actions, gotos, conflicts>>

\* The empty productions move into the state, or their lookaheads are merged.
MergedEps(old, new) == IF old = <<>> THEN new ELSE MergeLa(old, new)
move_eps ==
  /\ at = "sorted"
  /\ LET empty == {it \in ToSet(items) : IsEpsilon(it)}
         eps   == Those(items, empty)
     IN /\ items' = Those(items, ToSet(items) \ empty)
        /\ lrstates' = [lrstates EXCEPT ![cur_state].epsilon = MergedEps(@, eps)]
        /\ at' = IF Len(eps) > MAXEPSILON THEN "fatal" ELSE "shift"
  /\ UNCHANGED <<file, made, built, first, closing, does, unfinished, cur_state, actions,
                 gotos, conflicts>>

\* newstate() finds a state by the productions and dots of its kernel.
Core(kernel) == [k \in DOMAIN kernel |-> <<kernel[k].prod, kernel[k].dot>>]
Existing(kernel) == {s \in DOMAIN lrstates : Core(Kernel(s)) = Core(kernel)}
Grows(s, kernel) == \E k \in DOMAIN kernel : ~(kernel[k].la \subseteq Kernel(s)[k].la)

\* A state already there takes the lookaheads, and is unfinished again if it grows.
merge_lookaheads_once(s, kernel) ==
  /\ lrstates' = [lrstates EXCEPT ![s].kernel = MergeLa(@, kernel)]
  /\ unfinished' = IF lrstates[s].closed THEN unfinished
                   ELSE unfinished \cup IF Grows(s, kernel) THEN {s} ELSE {}
merge_lookaheads(s, kernel) ==
  /\ lrstates' = [lrstates EXCEPT ![s].kernel = MergeLa(@, kernel)]
  /\ unfinished' = unfinished \cup IF Grows(s, kernel) THEN {s} ELSE {}

\* An entry in a row of a table.
Entered(row, x, do) == [y \in DOMAIN row \cup {x} |-> IF y = x THEN do ELSE row[y]]

\* The items with the next symbol right of the dot move to another state.
newstate ==
  /\ at = "shift" /\ items # <<>>
  /\ LET sym    == right_of_dot(Head(items))
         same   == {it \in ToSet(items) : right_of_dot(it) = sym}
         moved  == Those(items, same)
         kernel == [k \in DOMAIN moved |-> [moved[k] EXCEPT !.dot = @ + 1]]
         new    == Existing(kernel) = {}
         next   == IF new THEN Len(lrstates) + 1 ELSE Min(Existing(kernel))
         add(t, entry) ==
           LET u == IF lrstates[cur_state].closed \/ ~entry THEN t
                    ELSE [t EXCEPT ![cur_state] = Entered(@, sym, next - 1)]
           IN IF new THEN Append(u, <<>>) ELSE u
     IN /\ items' = Those(items, ToSet(items) \ same)
        /\ actions' = add(actions, ISTERM(sym)) /\ gotos' = add(gotos, ISNONTERM(sym))
        /\ IF new
           THEN /\ lrstates' = Append(lrstates, [kernel |-> kernel, epsilon |-> <<>>,
                                                 closed |-> FALSE])
                /\ unfinished' = unfinished \cup {next}
           ELSE merge_lookaheads(next, kernel)
        /\ at' = IF \/ Len(kernel) > MAXKERNEL \/ Len(lrstates') > MAXSTATE
                    \/ Cardinality(unfinished') > MAXUNFINISHED
                 THEN "fatal" ELSE "shift"
  /\ UNCHANGED <<file, made, built, first, closing, does, cur_state, conflicts>>

closed ==
  /\ at = "shift" /\ items = <<>>
  /\ lrstates' = [lrstates EXCEPT ![cur_state].closed = TRUE]
  /\ at' = "lr" /\ cur_state' = NONE
  /\ UNCHANGED <<file, made, built, first, closing, does, unfinished, items, actions, gotos,
                 conflicts>>

-----------------------------------------------------------------------------
(* Reductions.  A cell is [do, conflicts]. *)

Precedence(t) == IF t = _EOI_ THEN [level |-> 0, assoc |-> ""] ELSE file.prec[t]

\* reduce_one_item() for one token: of two reductions the earlier production, of shift
\* and reduction what the precedences say, and otherwise the shift.
resolve_equal_shifts(do, n, t) ==
  LET p == prods[n].prec  q == Precedence(t)
  IN IF p # 0 /\ q.level # 0 /\ q.level < p THEN 1 - n ELSE do
resolve(do, n, t) ==
  LET p == prods[n].prec  q == Precedence(t)
  IN IF do <= 0 THEN Max({do, 1 - n})
     ELSE IF /\ p # 0 /\ q.level # 0
             /\ \/ q.level < p
                \/ q.level = p /\ q.assoc # "r"
     THEN 1 - n ELSE do
Reported(do, n, t) == do <= 0 \/ prods[n].prec = 0 \/ Precedence(t).level = 0

\* r is [acts, conflicts].
reduce_one_item(r, item) ==
  IF right_of_dot(item) # 0 THEN r
  ELSE LET n == item.prod
           old == item.la \cap DOMAIN r.acts
       IN [acts |-> [t \in item.la \cup DOMAIN r.acts |->
                       IF t \notin item.la THEN r.acts[t]
                       ELSE IF t \in old THEN resolve(r.acts[t], n, t) ELSE 1 - n],
           conflicts |-> r.conflicts + Cardinality({t \in old : Reported(r.acts[t], n, t)})]

\* What can be reduced in a state: its kernel, then its empty productions.
Reduced_kernel(s) == Kernel(s)
Reduced(s) == Kernel(s) \o lrstates[s].epsilon

\* What a state does when the items of seq have been reduced one after the other.
Reductions(acts_of, seq) ==
  LET done[k \in 0 .. Len(seq)] ==
        IF k = 0 THEN [acts |-> acts_of, conflicts |-> conflicts]
        ELSE reduce_one_item(done[k - 1], seq[k])
  IN done[Len(seq)]

\* lr() is done; add_reductions() goes through the states in the order of their numbers.
add_reductions ==
  /\ at = "lr" /\ unfinished = {} /\ turn <= Len(lrstates)
  /\ LET r == Reductions(actions[turn], Reduced(turn))
     IN actions' = [actions EXCEPT ![turn] = r.acts] /\ conflicts' = r.conflicts
  /\ turn' = turn + 1
  /\ UNCHANGED <<file, made, built, at, first, order, did, does, lrstates, unfinished,
                 cur_state, items, gotos>>

print_tab ==
  /\ at = "lr" /\ unfinished = {} /\ turn > Len(lrstates)
  /\ at' = "made" /\ turn' = 1
  /\ UNCHANGED <<file, made, built, first, order, did, machine>>

LalrNext ==
  \/ patch \/ make_parse_tables \/ get_unfinished \/ closure \/ kclosure \/ sort
  \/ move_eps \/ newstate \/ closed \/ add_reductions \/ print_tab

=============================================================================
