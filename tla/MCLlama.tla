------------------------------- MODULE MCLlama -------------------------------
(* Grammars, small but of every kind llama tells apart, for TLC. *)
EXTENDS LlamaMeaning, GrammarFiles

\* bound = 0: what the file means is not compared with.
File(types, synch, bound, rules) ==
  [num |-> 0, terms |-> abc, synch |-> synch, bound |-> bound, rules |-> rules,
   undefined |-> {"S", "T", "U", "V"},
   calls |-> [i \in DOMAIN types |-> [c |-> "type", name |-> types[i]]]
               \o FlattenSeq([i \in DOMAIN rules |-> RuleCalls(rules[i])])]

Listed == <<
  \* statements: recovery at c
  File(<<>>, {3}, 8, <<rule("S", <<<<T, c, do(0), S>>, <<>>>>),
                       rule("T", <<<<a, do(1), U>>, <<b>>>>),
                       rule("U", <<<<b>>, <<do(2)>>>>)>>),
  \* optional and repeated parts, one in the other
  File(<<>>, {2, 3}, 8, <<rule("S", <<<<Rep(<<a, do(0), Opt(<<b, do(1)>>)>>), c>>>>)>>),
  File(<<>>, {}, 8, <<rule("S", <<<<Opt(<<a>>), do(0), Rep(<<b, do(1)>>), c>>, <<c, T>>>>),
                      rule("T", <<<<a, T>>, <<>>>>)>>),
  \* EPSILON leaks into FIRST(T), harmlessly, and to a conflict that is none
  File(<<>>, {3}, 8, <<rule("S", <<<<T, c, S>>, <<>>>>), rule("T", <<<<U, a>>>>),
                       rule("U", <<<<b>>, <<>>>>)>>),
  File(<<>>, {}, 8, <<rule("S", <<<<T, c>>, <<c, a>>>>), rule("T", <<<<U, a>>>>),
                      rule("U", <<<<b>>, <<>>>>)>>),
  \* the dangling else
  File(<<>>, {2}, 8, <<rule("S", <<<<a, S, T>>, <<c>>>>), rule("T", <<<<>>, <<b, S>>>>)>>),
  \* nesting, to the end of the parser's stack
  File(<<>>, {2}, 8, <<rule("S", <<<<a, S, T, b>>, <<c>>>>), rule("T", <<<<>>, <<a, c>>>>)>>),
  \* left recursion through another, and two that replace each other
  File(<<>>, {}, 8, <<rule("S", <<<<T, a>>>>), rule("T", <<<<S, b>>, <<c>>>>)>>),
  File(<<>>, {}, 8, <<rule("S", <<<<T>>>>), rule("T", <<<<a>>, <<S>>>>)>>),
  \* left recursion, of the rule itself
  File(<<>>, {}, 8, <<rule("S", <<<<S, a>>, <<b>>>>)>>),
  \* nothing selects the last nonterminal; one that derives nothing
  File(<<>>, {}, 8, <<rule("S", <<<<a>>>>), rule("T", <<<<>>>>)>>),
  File(<<>>, {3}, 8, <<rule("S", <<<<a>>, <<b, T>>>>), rule("T", <<<<c, T>>>>)>>),
  \* more productions than a YY_TTYPE tells apart
  File(<<>>, {}, 8, <<rule("S", <<<<a, T>>, <<b, U>>, <<c>>>>),
                      rule("T", <<<<a>>, <<b>>, <<c>>>>), rule("U", <<<<a>>, <<b>>, <<c>>>>)>>),
  \* a nonterminal declared before the goal
  File(<<"T">>, {}, 8, <<rule("S", <<<<a, T>>>>), rule("T", <<<<b>>>>)>>),
  \* no rule, undefined, a terminal on the left, and the limits
  File(<<>>, {}, 0, <<>>),
  File(<<"b">>, {}, 0, <<rule("S", <<<<a, T>>, <<b>>>>)>>),
  File(<<>>, {}, 0, <<rule("S", <<<<a>>>>), rule("b", <<<<c>>>>)>>),
  File(<<>>, {}, 0, <<rule("a", <<<<b>>>>)>>),
  File(<<>>, {}, 0, <<rule("S", <<<<a, b, c, a, b, c>>>>)>>),
  File(<<>>, {}, 0, <<rule("S", <<<<T, U, V, Opt(<<a>>)>>>>)>>),
  File(<<>>, {}, 0, <<rule("S", <<<<a>>, <<b>>, <<c>>, <<a>>, <<b>>, <<c>>, <<a>>, <<b>>,
                                  <<c>>, <<a>>>>)>>),
  File(<<>>, {}, 0, <<rule("S", <<<<Opt(<<Opt(<<Opt(<<a>>)>>)>>)>>>>)>>) >>

\* Every grammar of two nonterminals with two alternatives each, of a few.
OfS == <<<<>>, <<a>>, <<T, b>>, <<a, T>>, <<T, T>>, <<T, S>>>>
OfT == <<<<b>>, <<>>, <<a>>, <<b, S>>, <<S, a>>, <<a, T>>>>
Small == {[File(<<>>, {2}, 6, <<rule("S", Two(OfS, k)), rule("T", Two(OfT, m))>>)
             EXCEPT !.num = 100 * k + m, !.terms = ab] : k \in DOMAIN Pairs, m \in DOMAIN Pairs}

MCFiles == {[Listed[i] EXCEPT !.num = i] : i \in DOMAIN Listed} \cup Small
=============================================================================
