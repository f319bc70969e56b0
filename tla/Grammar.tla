------------------------------ MODULE Grammar -------------------------------
(***************************************************************************)
(* compiler/parser/acts.c and first.c: llama and occs read a grammar.  The *)
(* parser of the grammar file calls the functions of acts.c in the order   *)
(* of the text (parser.lma:100-119, llpar.c:118-171); a file is the        *)
(* sequence of these calls, one action each.  Optional and repeated parts  *)
(* become nonterminals of their own.  Then first() goes over the symbol    *)
(* table, in the order of its buckets, until nothing changes.              *)
(*                                                                         *)
(* Symbols are their numbers (val), as in parser.h.  Left out: the text of *)
(* actions (one is looked up by its text, and is taken to be new), %type   *)
(* fields, warnings, and line numbers but for "set", the line on which a   *)
(* symbol is defined, of which only whether it is 0 matters.               *)
(***************************************************************************)
EXTENDS Integers, Sequences, FiniteSets, FiniteSetsExt, SequencesExt

CONSTANTS
  LLAMA,       \* compiled as llama, otherwise as occs
  Files,       \* a set of [terms, calls, ...]: the tokens a file declares and
               \* the calls that reading it makes
  MINNONTERM,  \* 256 in the code
  MINACT,      \* 512: the last nonterminal is MINACT - 1
  MAXPROD, MAXRHS, SSIZE,
  OPT_NAMES    \* the names start_opt() makes up, one after the other

ASSUME NumbersAssumption ==
  /\ LLAMA \in BOOLEAN
  /\ MINNONTERM \in Nat /\ MINACT \in Nat /\ MINNONTERM < MINACT
  /\ MAXPROD \in Nat /\ MAXRHS \in Nat /\ SSIZE \in Nat
  /\ \A f \in Files : Len(f.terms) \in 0 .. MINNONTERM - 2

\* The calls come as the parser of the grammar file makes them (parser.lma:89-119): a
\* rule has right-hand sides, and what is opened in one is closed in it.
Opened(calls, i) ==
  Cardinality({j \in 1 .. i : calls[j].c = "["})
    - Cardinality({j \in 1 .. i : calls[j].c \in {"]", "]*"}})
ASSUME CallsAssumption ==
  \A f \in Files : f.calls \in Seq(Range(f.calls)) /\ \A i \in 1 .. Len(f.calls) :
    LET c         == f.calls[i].c
        before(C) == i > 1 /\ f.calls[i - 1].c \in C
    IN /\ c = "type" => i = 1 \/ before({"type"})
       /\ c = "lhs" => /\ Opened(f.calls, i) = 0
                       /\ i < Len(f.calls) /\ f.calls[i + 1].c = "rhs"
       /\ c = "rhs" => Opened(f.calls, i) = 0 /\ i > 1 /\ ~before({"type"})
       /\ c \in {"symbol", "action", "prec", "[", "]", "]*"} =>
            Opened(f.calls, i) >= 0 /\ i > 1 /\ ~before({"type", "lhs"})

_EOI_ == 0
NONE  == -1  \* no symbol, no production

VARIABLES
  file,     \* the grammar file, of Files
  made,     \* how many of its calls have been made
  nonterms, \* the nonterminals, in the order of their numbers: [name, set]
  acts,     \* the number of actions
  prods,    \* the productions, in the order of their numbers (the one numbered
            \* n is at n + 1): [lhs, rhs, prec]
  sp,       \* the stack Statck, top first: [lhs, rhs], the latter a number
  goal,     \* g_goal_symbol, NONE before the first rule
  nerrors,  \* errors reported that do not end the program
  at,       \* "read", "first", a later stage, or how it ended
  first,    \* the FIRST set of every nonterminal
  order,    \* the order of the nonterminals in the symbol table
  turn,     \* the one first_closure() is called for next
  did       \* _did_somthing

built   == <<nonterms, acts, prods, sp, goal, nerrors>>
closing == <<order, turn, did>>
grammar == <<file, made, built, at, first, closing>>

terms == file.terms
Calls == file.calls

EPSILON == Len(terms) + 1
ISTERM(x) == x \in 1 .. Len(terms)
ISNONTERM(x) == x \in MINNONTERM .. MINACT - 1
ISACT(x) == x >= MINACT
Val(i) == MINNONTERM - 1 + i
Nonterms == {Val(i) : i \in 1 .. Len(nonterms)}
Productions(A) == {n \in 1 .. Len(prods) : prods[n].lhs = A}

Init ==
  /\ file \in Files /\ made = 0
  /\ nonterms = <<>> /\ acts = 0 /\ prods = <<>> /\ nerrors = 0
  /\ sp = <<[lhs |-> NONE, rhs |-> NONE]>> /\ goal = NONE
  /\ at = "read"
  /\ first = <<>> /\ order = <<>> /\ turn = 1 /\ did = FALSE

-----------------------------------------------------------------------------
(* acts.c.  The functions work on the record g of what has been built.     *)

Built == [nonterms |-> nonterms, acts |-> acts, prods |-> prods, sp |-> sp,
          goal |-> goal, nerrors |-> nerrors, fatal |-> FALSE]
Becomes(g) ==
  /\ nonterms' = g.nonterms /\ acts' = g.acts /\ prods' = g.prods /\ sp' = g.sp
  /\ goal' = g.goal /\ nerrors' = g.nerrors
  /\ at' = IF g.fatal THEN "fatal" ELSE at
  /\ UNCHANGED <<first, closing>>

\* hash_find_sym() in the symbol table.
Lookup(g, name) ==
  {i \in 1 .. Len(terms) : terms[i] = name}
    \cup {Val(i) : i \in {j \in 1 .. Len(g.nonterms) : g.nonterms[j].name = name}}

\* new_nonterm(): find or make the nonterminal; the first on a left-hand side is
\* the goal.
new_nonterm(g, name, is_lhs) ==
  LET found == Lookup(g, name)
      new   == Append(g.nonterms, [name |-> name, set |-> FALSE])
      h     == IF found = {} THEN [g EXCEPT !.nonterms = new] ELSE g
      val   == IF found = {} THEN Val(Len(new)) ELSE Min(found)
  IN IF ISTERM(val) THEN [g EXCEPT !.nerrors = @ + 1]
     ELSE IF val = MINACT THEN [g EXCEPT !.fatal = TRUE]
     ELSE IF ~is_lhs THEN h
     ELSE [h EXCEPT !.nonterms[val - MINNONTERM + 1].set = TRUE,
                    !.goal = IF @ = NONE THEN val ELSE @,
                    !.sp = <<[lhs |-> val, rhs |-> NONE]>> \o Tail(@)]

\* Without a left-hand side (the first rule's is a terminal) a null pointer is used.
new_rhs(g) ==
  IF Len(g.prods) >= MAXPROD \/ Head(g.sp).lhs = NONE THEN [g EXCEPT !.fatal = TRUE]
  ELSE [g EXCEPT !.prods = Append(@, [lhs |-> Head(g.sp).lhs, rhs |-> <<>>, prec |-> 0]),
                 !.sp = <<[Head(@) EXCEPT !.rhs = Len(g.prods) + 1]>> \o Tail(@)]

\* The precedence of a production is that of its last token (occs).
level(x) == IF ISTERM(x) THEN file.prec[x].level ELSE 0

\* A symbol at the end of the right-hand side on top of the stack.
append(g, val) ==
  LET top == Head(g.sp)
      n   == top.rhs
  IN IF Len(g.prods[n].rhs) >= MAXRHS THEN [g EXCEPT !.fatal = TRUE]
     ELSE [g EXCEPT !.prods[n].rhs = Append(@, val),
                    !.prods[n].prec = IF ~LLAMA /\ ISTERM(val) THEN level(val) ELSE @,
                    !.nerrors = IF LLAMA /\ g.prods[n].rhs = <<>> /\ val = top.lhs
                                THEN @ + 1 ELSE @]

add_to_rhs(g, name) ==
  LET h == IF Lookup(g, name) = {} THEN new_nonterm(g, name, FALSE) ELSE g
  IN IF h.fatal THEN h ELSE append(h, Min(Lookup(h, name)))

add_action(g) == append([g EXCEPT !.acts = @ + 1], MINACT + g.acts)

\* [ opens a nonterminal of its own with an empty right-hand side and one for
\* what is inside.
start_opt(g) ==
  LET num    == Cardinality({i \in 1 .. Len(g.nonterms) : g.nonterms[i].name \in Range(OPT_NAMES)})
      pushed == [g EXCEPT !.sp = <<[lhs |-> NONE, rhs |-> NONE]>> \o @]
      h      == new_nonterm(pushed, OPT_NAMES[num + 1], TRUE)
      e      == IF h.fatal THEN h ELSE new_rhs(h)
  IN IF e.fatal THEN e ELSE new_rhs(e)

\* ] closes it, ]* repeats it: at the end for llama, at the beginning for occs.
Repeated_once(g, name) == g
Repeated(g, name) ==
  LET h == add_to_rhs(g, name)
      n == Head(g.sp).rhs
  IN IF LLAMA \/ h.fatal THEN h
     ELSE [h EXCEPT !.prods[n].rhs = <<Last(@)>> \o Front(@)]

end_opt(g, star) ==
  LET name == g.nonterms[Head(g.sp).lhs - MINNONTERM + 1].name
      h    == IF star THEN Repeated(g, name) ELSE g
  IN IF h.fatal THEN h ELSE add_to_rhs([h EXCEPT !.sp = Tail(@)], name)

\* %prec, with a token.
prec(g, name) == [g EXCEPT !.prods[Head(g.sp).rhs].prec = level(Min(Lookup(g, name)))]

-----------------------------------------------------------------------------
(* The calls, in the order of the file. *)

Call == Calls[made + 1]
Made(c) ==
  at = "read" /\ made < Len(Calls) /\ Call.c = c /\ made' = made + 1 /\ UNCHANGED file

\* A nonterminal may be declared by %type, before any rule.
Type   == Made("type")   /\ Becomes(new_nonterm(Built, Call.name, FALSE))
Lhs    == Made("lhs")    /\ Becomes(new_nonterm(Built, Call.name, TRUE))
Rhs    == Made("rhs")    /\ Becomes(new_rhs(Built))
Symbol == Made("symbol") /\ Becomes(add_to_rhs(Built, Call.name))
Action == Made("action") /\ Becomes(add_action(Built))
StartOpt == Made("[") /\ Len(sp) < SSIZE /\ Becomes(start_opt(Built))
EndOpt == Made("]") /\ Becomes(end_opt(Built, FALSE))
EndRep == Made("]*") /\ Becomes(end_opt(Built, TRUE))
\* The stack Statck is not checked: what lies in front of it is written to.
NestTooDeep ==
  /\ Made("[") /\ Len(sp) = SSIZE
  /\ at' = "undefined" /\ UNCHANGED <<built, first, closing>>
Prec   == Made("prec") /\ ~LLAMA /\ Becomes(prec(Built, Call.name))

\* find_problems(): a nonterminal that is not defined is an error, and so is a
\* grammar without one.  Otherwise the analysis begins.
Problems == {i \in 1 .. Len(nonterms) : ~nonterms[i].set}

EndOfFile ==
  /\ at = "read" /\ made = Len(Calls)
  /\ nerrors' = nerrors + Cardinality(Problems)
  /\ IF nerrors' > 0
     THEN at' = "errors" /\ UNCHANGED <<first, closing>>
     ELSE /\ at' = "first"
          /\ first' = [A \in Nonterms |-> {}]
          /\ order' \in SetToSeqs(Nonterms)
          /\ turn' = 1 /\ did' = FALSE
  /\ UNCHANGED <<file, made, nonterms, acts, prods, sp, goal>>

-----------------------------------------------------------------------------
(* first.c *)

\* The elements of seq that are in S, in their order.
Those(seq, S) ==
  LET kept[k \in 0 .. Len(seq)] ==
        IF k = 0 THEN <<>>
        ELSE IF seq[k] \in S THEN Append(kept[k - 1], seq[k]) ELSE kept[k - 1]
  IN kept[Len(seq)]

NULLABLE(x) == ISNONTERM(x) /\ EPSILON \in first[x]
NonActs(rhs) == Those(rhs, {x \in ToSet(rhs) : ~ISACT(x)})

\* What a right-hand side begins with: its symbols (actions aside) up to the
\* first that is not nullable.
Leading_one(rhs) ==
  LET s == NonActs(rhs) IN {s[i] : i \in {j \in DOMAIN s : j = 1}}
Leading(rhs) ==
  LET s == NonActs(rhs)
  IN {s[i] : i \in {j \in DOMAIN s : \A k \in 1 .. j - 1 : NULLABLE(s[k])}}
FirstOf(x) == IF ISTERM(x) THEN {x} ELSE first[x]

\* The FIRST set of a nullable symbol is added as it is, EPSILON included.
FirstOfRhs(rhs) ==
  IF NonActs(rhs) = <<>> THEN {EPSILON} ELSE UNION {FirstOf(x) : x \in Leading(rhs)}

\* first_closure() for one nonterminal.
FirstClosure ==
  /\ at = "first" /\ turn <= Len(order)
  /\ LET A   == order[turn]
         set == first[A] \cup UNION {FirstOfRhs(prods[n].rhs) : n \in Productions(A)}
     IN /\ first' = [first EXCEPT ![A] = set]
        /\ did' = (did \/ set # first[A])
  /\ turn' = turn + 1
  /\ UNCHANGED <<file, made, built, at, order>>

FirstPass ==
  /\ at = "first" /\ turn > Len(order) /\ did
  /\ turn' = 1 /\ did' = FALSE
  /\ UNCHANGED <<file, made, built, at, first, order>>

\* first_rhs(): what a sequence of symbols begins with, and whether it can vanish.
Begins(rhs)   == UNION {FirstOf(x) : x \in Leading(rhs)}
Nullable(rhs) == \A i \in DOMAIN NonActs(rhs) : NULLABLE(NonActs(rhs)[i])

FirstDone == at = "first" /\ turn > Len(order) /\ ~did

ReadNext ==
  \/ Type \/ Lhs \/ Rhs \/ Symbol \/ Action \/ StartOpt \/ NestTooDeep \/ EndOpt \/ EndRep
  \/ Prec \/ EndOfFile
FirstNext == FirstClosure \/ FirstPass

-----------------------------------------------------------------------------
(* Properties. *)

\* The symbols, productions and the stack of open right-hand sides are made of the
\* numbers that parser.h gives them, and within its limits; only yypatch.c, which makes a
\* production of an action, does not look at MAXPROD (yypatch.c:133).
GrammarTypeOK ==
  /\ Len(nonterms) <= MINACT - MINNONTERM /\ acts \in Nat /\ nerrors \in Nat
  /\ Len(prods) <= MAXPROD + IF LLAMA THEN 0 ELSE acts
  /\ \A n \in 1 .. Len(prods) :
       /\ prods[n].lhs \in Nonterms /\ Len(prods[n].rhs) <= MAXRHS
       /\ \A i \in DOMAIN prods[n].rhs :
            \/ ISTERM(prods[n].rhs[i]) \/ prods[n].rhs[i] \in Nonterms
            \/ prods[n].rhs[i] \in MINACT .. MINACT + acts - 1
  /\ \A i \in DOMAIN sp : sp[i].rhs # NONE => prods[sp[i].rhs].lhs = sp[i].lhs
  /\ goal \in Nonterms \cup {NONE}
  /\ \A A \in DOMAIN first : A \in Nonterms /\ first[A] \subseteq 1 .. EPSILON
==============================================================================
