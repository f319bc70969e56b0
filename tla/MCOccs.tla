------------------------------- MODULE MCOccs -------------------------------
(* Grammars, small but of every kind occs tells apart, for TLC. *)
EXTENDS OccsMeaning, GrammarFiles

none  == [level |-> 0, assoc |-> ""]
plain == <<none, none, none>>
left(n)  == [level |-> n, assoc |-> "l"]
right(n) == [level |-> n, assoc |-> "r"]
nonassoc(n) == [level |-> n, assoc |-> "n"]

\* bound = 0: what the file means is not compared with.
File(bound, levels, rules) ==
  [num |-> 0, terms |-> abc, prec |-> levels, bound |-> bound, rules |-> rules,
   expr |-> <<>>, unary |-> NONE,
   undefined |-> {"S", "T", "U", "V", "W"},
   calls |-> FlattenSeq([i \in DOMAIN rules |-> RuleCalls(rules[i])])]

\* Expressions, with b an operator, c another or the same sign before an operand.
Expression(levels) ==
  [File(9, levels, <<rule("S", <<<<T>>>>),
                   rule("T", <<<<T, b, T, do(0)>>, <<T, c, T, do(1)>>, <<a>>>>)>>)
     EXCEPT !.expr = (2 :> MINACT) @@ (3 :> MINACT + 1)]
Signed(levels) ==
  [File(9, levels, <<rule("S", <<<<T>>>>),
                   rule("T", <<<<T, b, T, do(0)>>, <<b, T, As("c"), do(1)>>, <<a>>>>)>>)
     EXCEPT !.expr = (2 :> MINACT), !.unary = MINACT + 1]

Listed == <<
  Expression(<<none, left(1), left(2)>>),
  Expression(<<none, left(1), right(2)>>),
  Expression(<<none, left(1), left(1)>>),
  Expression(<<none, nonassoc(2), left(1)>>),
  Expression(<<none, right(2), right(1)>>),
  Signed(<<none, left(1), left(2)>>),
  Signed(<<none, right(1), left(2)>>),
  \* statements, with actions in the middle
  File(8, plain, <<rule("S", <<<<T>>>>),
                   rule("T", <<<<T, a, do(0), U, c, do(1)>>, <<>>>>),
                   rule("U", <<<<b, do(2)>>, <<do(3), c>>>>)>>),
  File(8, plain, <<rule("S", <<<<a, do(0), b, do(1), T, do(2)>>>>),
                   rule("T", <<<<do(3), c, T>>, <<c>>>>)>>),
  \* optional and repeated parts, one in the other
  File(8, plain, <<rule("S", <<<<Rep(<<a, do(0), Opt(<<b, do(1)>>)>>), c>>>>)>>),
  File(8, plain, <<rule("S", <<<<Opt(<<a>>), do(0), Rep(<<b, do(1)>>), c>>>>)>>),
  \* LALR(1) but not SLR(1); LR(1) but not LALR(1)
  File(8, plain, <<rule("S", <<<<T>>>>), rule("T", <<<<U, b, T>>, <<U>>>>),
                   rule("U", <<<<c, U>>, <<a>>>>)>>),
  File(8, plain, <<rule("S", <<<<T>>>>), rule("T", <<<<a, U, c>>, <<b, U, b>>, <<a, b>>>>),
                   rule("U", <<<<a>>, <<>>>>)>>),
  File(8, plain, <<rule("S", <<<<V>>>>),
                   rule("V", <<<<a, T, a>>, <<b, T, b>>, <<a, U, b>>, <<b, U, a>>>>),
                   rule("T", <<<<c>>>>), rule("U", <<<<c>>>>)>>),
  \* the dangling else; reductions that are in conflict
  File(8, plain, <<rule("S", <<<<T>>>>), rule("T", <<<<a, T>>, <<a, T, b, T>>, <<c>>>>)>>),
  File(8, plain, <<rule("S", <<<<T>>, <<b>>>>), rule("T", <<<<a>>>>)>>),
  File(8, plain, <<rule("S", <<<<V>>>>), rule("V", <<<<T, do(0)>>, <<U, do(1)>>>>),
                   rule("T", <<<<a>>>>), rule("U", <<<<a>>, <<b>>>>)>>),
  \* EPSILON leaks into FIRST(T)
  File(8, plain, <<rule("S", <<<<a, V, T, b>>>>), rule("V", <<<<>>>>),
                   rule("T", <<<<U, c>>>>), rule("U", <<<<c, c>>, <<>>>>)>>),
  \* the goal in a production
  File(8, plain, <<rule("S", <<<<T>>>>), rule("T", <<<<S, a>>, <<b>>>>)>>),
  \* nothing but empty productions in front of a token: the stack may be full
  File(8, plain, <<rule("S", <<<<T, a>>>>), rule("T", <<<<U, a, T>>, <<>>>>),
                   rule("U", <<<<>>>>)>>),
  \* one that derives nothing; undefined; the limits
  File(8, plain, <<rule("S", <<<<a>>>>), rule("T", <<<<c, T>>>>)>>),
  File(8, plain, <<rule("S", <<<<T, a>>>>), rule("T", <<<<c, T>>, <<b, U>>>>),
                   rule("U", <<<<U, b>>>>)>>),
  File(0, plain, <<rule("S", <<<<a, T>>>>)>>),
  \* more productions after yypatch.c than MAXPROD
  File(8, plain, <<rule("S", <<<<a>>>>),
                   rule("T", <<<<a, do(0), b>>, <<a>>, <<a>>, <<a>>, <<a>>, <<a>>, <<a>>, <<a>>>>)>>),
  \* over the limits: symbols, productions, nonterminals,
  File(0, plain, <<rule("S", <<<<a, b, c, a, b, c, a, b, c>>>>)>>),
  File(0, plain, <<rule("S", <<<<a>>, <<a>>, <<a>>, <<a>>, <<a>>, <<a>>, <<a>>, <<a>>, <<a>>, <<a>>>>)>>),
  File(0, plain, <<rule("S", <<<<T, U, V>>>>), rule("T", <<<<a, do(0), b, do(1), c>>>>),
                   rule("U", <<<<do(2), a, do(3), b>>>>), rule("V", <<<<a>>>>)>>),
  \* states, items of a kernel, of a closure and of both,
  File(0, plain, <<rule("S", <<<<T, a, b, c, a, b, c>>>>), rule("T", <<<<a, b, c, a, b, c, a>>>>)>>),
  File(0, plain, <<rule("S", <<<<T>>>>), rule("T", <<<<U, a>>, <<U, b>>, <<U, c>>, <<U, U>>, <<U>>>>),
                   rule("U", <<<<a>>>>)>>),
  File(0, plain, <<rule("S", <<<<T>>>>), rule("T", <<<<U, a>>, <<U, b>>, <<U, c>>, <<V, a>>, <<V, b>>, <<c>>>>),
                   rule("U", <<<<>>>>), rule("V", <<<<>>>>)>>),
  File(0, plain, <<rule("S", <<<<T>>>>), rule("T", <<<<U, a>>, <<U, b>>, <<U, c>>, <<V, a>>, <<V, b>>>>),
                   rule("U", <<<<>>>>), rule("V", <<<<>>>>)>>),
  \* empty productions of a state, unfinished states
  File(0, plain, <<rule("S", <<<<T>>>>), rule("T", <<<<U, a>>, <<V, b>>, <<W, c>>>>),
                   rule("U", <<<<>>>>), rule("V", <<<<>>>>), rule("W", <<<<>>>>)>>),
  File(0, plain, <<rule("S", <<<<T>>>>), rule("T", <<<<U>>, <<V>>, <<W>>>>),
                   rule("U", <<<<a>>>>), rule("V", <<<<b>>>>), rule("W", <<<<c>>>>)>>) >>

\* Every grammar of two nonterminals below the goal with two alternatives each, of a few.
OfT == <<<<>>, <<a>>, <<U, b>>, <<a, U>>, <<U, U>>, <<U, T>>>>
OfU == <<<<b>>, <<>>, <<a>>, <<b, T>>, <<T, a>>, <<a, U>>>>
Small == {[File(6, plain, <<rule("S", <<<<T>>>>), rule("T", Two(OfT, k)),
                            rule("U", Two(OfU, m))>>)
             EXCEPT !.num = 100 * k + m, !.terms = ab]
            : k \in DOMAIN Pairs, m \in DOMAIN Pairs}

MCFiles == {[Listed[i] EXCEPT !.num = i] : i \in DOMAIN Listed} \cup Small
=============================================================================
