---------------------------- MODULE GrammarFiles ----------------------------
(* Grammar files for TLC: their rules, and the calls that reading them makes. *)
EXTENDS Grammar, GrammarMeaning

\* The calls that reading an alternative, and a file, makes.
RECURSIVE CallsOf(_)
CallsOf(alt) ==
  IF alt = <<>> THEN <<>>
  ELSE LET x == Head(alt)
       IN (CASE x.k = "sym" -> <<[c |-> "symbol", name |-> x.name]>>
             [] x.k = "act" -> <<[c |-> "action"]>>
             [] x.k = "prec" -> <<[c |-> "prec", name |-> x.name]>>
             [] x.k = "opt" -> <<[c |-> "["]>> \o CallsOf(x.body) \o <<[c |-> "]"]>>
             [] x.k = "rep" -> <<[c |-> "["]>> \o CallsOf(x.body) \o <<[c |-> "]*"]>>)
          \o CallsOf(Tail(alt))
RuleCalls(r) ==
  <<[c |-> "lhs", name |-> r.lhs]>>
    \o FlattenSeq([i \in DOMAIN r.alts |-> <<[c |-> "rhs"]>> \o CallsOf(r.alts[i])])

abc == <<"a", "b", "c">>
ab  == <<"a", "b">>
a == Sym("a")
b == Sym("b")
c == Sym("c")
S == Sym("S")
T == Sym("T")
U == Sym("U")
V == Sym("V")
W == Sym("W")
do(n) == Act(MINACT + n)
rule(lhs, alts) == [lhs |-> lhs, alts |-> alts]

\* Two of the first six alternatives.
Pairs == FlattenSeq([i \in 1 .. 5 |-> [j \in 1 .. 6 - i |-> <<i, i + j>>]])
Two(alts, k) == <<alts[Pairs[k][1]], alts[Pairs[k][2]]>>

MCNames == <<" 000000", " 000001", " 000002", " 000003">>
=============================================================================
