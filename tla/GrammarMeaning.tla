--------------------------- MODULE GrammarMeaning ---------------------------
(***************************************************************************)
(* What a grammar file means: the sequences of tokens and actions that its *)
(* goal derives, up to a length.  It is read off the rules as they are     *)
(* written, optional and repeated parts included; it does not know of      *)
(* productions, FIRST sets or tables.                                      *)
(*                                                                         *)
(* A rule is [lhs, alts], an alternative a sequence of items: a symbol, an *)
(* action, an optional or repeated sequence of items, or a %prec, which    *)
(* derives nothing.                                                        *)
(***************************************************************************)
EXTENDS Integers, Sequences, FiniteSets, SequencesExt

Sym(name) == [k |-> "sym", name |-> name]
Act(n)    == [k |-> "act", n |-> n]
Opt(body) == [k |-> "opt", body |-> body]
Rep(body) == [k |-> "rep", body |-> body]
As(name)  == [k |-> "prec", name |-> name]

Concat(S, T, bound) ==
  UNION {{s \o t : t \in {u \in T : Len(s) + Len(u) <= bound}} : s \in S}

RECURSIVE Star(_, _)
Star(S, bound) ==
  LET more == Concat({<<>>} \cup S, {<<>>} \cup S, bound)
  IN IF more = S THEN S ELSE Star(more, bound)

\* What an item and a sequence of items derive if every symbol x derives L[x].
RECURSIVE Body(_, _, _)
Item(x, L, bound, body) ==
  CASE x.k = "sym" -> L[x.name]
    [] x.k = "act" -> {<<x.n>>}
    [] x.k = "prec" -> {<<>>}
    [] x.k = "opt" -> {<<>>} \cup body
    [] x.k = "rep" -> Star({<<>>} \cup body, bound)
Body(alt, L, bound) ==
  IF alt = <<>> THEN {<<>>}
  ELSE LET x == Head(alt)
           b == IF x.k \in {"opt", "rep"} THEN Body(x.body, L, bound) ELSE {}
       IN Concat(Item(x, L, bound, b), Body(Tail(alt), L, bound), bound)

Alternatives(rules, A) ==
  UNION {ToSet(rules[i].alts) : i \in {j \in DOMAIN rules : rules[j].lhs = A}}

\* The least solution of the rules.
RECURSIVE Fixpoint(_, _, _, _)
Fixpoint(rules, vocabulary, L, bound) ==
  LET new == [x \in DOMAIN L |->
                IF x \in vocabulary THEN L[x]
                ELSE UNION {Body(b, L, bound) : b \in Alternatives(rules, x)}]
  IN IF new = L THEN L ELSE Fixpoint(rules, vocabulary, new, bound)

\* What A derives; base maps every terminal to its number.
Derives(rules, base, names, A, bound) ==
  Fixpoint(rules, DOMAIN base,
           [x \in names \cup DOMAIN base |-> IF x \in DOMAIN base THEN {<<base[x]>>} ELSE {}],
           bound)[A]
=============================================================================
