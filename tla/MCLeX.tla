-------------------------------- MODULE MCLeX --------------------------------
(***************************************************************************)
(* Rules for the model checker, over an alphabet of four characters: 0 is  *)
(* '\n', 1 is '\r' and all white space there is, 2 is a letter and 3 a '*'. *)
(***************************************************************************)
EXTENDS LeX

a == [op |-> "lit", c |-> 2]
z == [op |-> "lit", c |-> 3]
star == [op |-> "quote", c |-> 3]
any  == [op |-> "any"]
Class(neg, text, cs) == [op |-> "class", neg |-> neg, text |-> text, cs |-> cs]
range == Class(FALSE, Lit(1) \o T("DASH") \o Lit(3), {1, 2, 3})
noneOf == Class(TRUE, Lit(2), {2})
white == Class(FALSE, <<>>, {0, 1})
macro == [op |-> "macro", name |-> "m"]
Bin(op, ls, rs) == {[op |-> op, l |-> x, r |-> y] : x \in ls, y \in rs}
Un(rs) == {[op |-> op, l |-> x] : op \in DOMAIN Postfix, x \in rs}

Atoms  == {a, star, any, range, noneOf, white, macro}
Few    == {a, z}
Exprs1 == Atoms \cup Bin("cat", Atoms, Few) \cup Bin("or", Few, Atoms) \cup Un(Atoms)
Small1 == Few \cup Bin("cat", Few, Few) \cup Bin("or", Few, Few) \cup Un(Few)
Exprs2 == Bin("cat", Small1, Small1) \cup Bin("or", Small1, Small1) \cup Un(Small1)

MCMacroExprs == [m |-> range]
MCMacros     == [m |-> Render(range)]

Rule(re, bol, eol, bar, layout) ==
  [re |-> re, bol |-> bol, eol |-> eol, bar |-> bar, layout |-> layout]
Plain(re) == Rule(re, FALSE, FALSE, FALSE, "line")

Single   == {<<Plain(re)>> : re \in Exprs1 \cup Exprs2}
Anchors  == {<<Rule(re, bol, eol, FALSE, layout)>> :
               re \in Few \cup {[op |-> "star", l |-> any]}, bol \in BOOLEAN, eol \in BOOLEAN,
               layout \in {"line", "continued", "blank"}}
Pairs    == {<<Rule(r1, bol, FALSE, bar, "line"), Rule(r2, FALSE, eol, FALSE, layout)>> :
               r1 \in Few \cup Un(Few), r2 \in {a, any} \cup Un({a}),
               bol \in BOOLEAN, eol \in BOOLEAN, bar \in BOOLEAN, layout \in {"line", "blank"}}
Cat2(x, y) == [op |-> "cat", l |-> x, r |-> y]
nested == Cat2(a, Cat2(a, Cat2(a, a)))
\* z?(z?(z?a)), a: the first rule frees three nodes below its last one
maybe  == [op |-> "opt", l |-> z]
Freed  == {<<Plain(Cat2(maybe, Cat2(maybe, Cat2(maybe, a)))), Plain(a)>>}
Long   == {<<Plain(nested), Plain(nested)>>}
\* Files LeX gives up on: too many nodes, nodes to free, strings or DFA
\* states, no such macro, a dash at either end of a class.
unknown == [op |-> "macro", name |-> "n"]
Refused == {<<Plain(nested), Plain(nested), Plain(nested)>>, <<Plain(Cat2(a, Cat2(a, nested)))>>,
            [i \in 1 .. 5 |-> Plain(a)], <<Plain(Cat2(a, unknown))>>,
            <<Plain(Cat2(Cat2(Cat2([op |-> "star", l |-> any], a), any), any))>>,
            <<Plain(Class(FALSE, T("DASH") \o Lit(2), {2}))>>,
            <<Plain(Class(FALSE, Lit(2) \o T("DASH"), {2}))>>}
MCRuleSets == Single \cup Anchors \cup Pairs \cup Freed \cup Long \cup Refused
==============================================================================
