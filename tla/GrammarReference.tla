-------------------------- MODULE GrammarReference --------------------------
(***************************************************************************)
(* What Grammar has to do, stated without its algorithms: the meaning of   *)
(* the file that is read, and the sets of the productions made of it.      *)
(***************************************************************************)
EXTENDS Grammar, GrammarMeaning

\* The meaning of every file, from its text; num tells the files apart.
Names(f) == {f.rules[i].lhs : i \in DOMAIN f.rules} \cup f.undefined
Base(f)  == [x \in ToSet(f.terms) |-> CHOOSE t \in DOMAIN f.terms : f.terms[t] = x]
Meaning  == LET all == Files
            IN [n \in {f.num : f \in all} |->
                  LET f == CHOOSE f \in all : f.num = n
                  IN Derives(f.rules, Base(f), Names(f), f.rules[1].lhs, f.bound)]
IsToken(x) == x < MINNONTERM

\* A stream of tokens that the file's goal derives, actions aside.
IsSentence(tokens) == \E s \in Meaning[file.num] : SelectSeq(s, IsToken) = tokens

\* What the goal derives by the productions.
Generated ==
  LET body(n) == prods[n].rhs
      rules == [n \in DOMAIN prods |->
                  [lhs |-> prods[n].lhs, alts |-> <<[i \in DOMAIN body(n) |-> Sym(body(n)[i])]>>]]
      base  == [x \in (1 .. Len(terms)) \cup (MINACT .. MINACT + acts - 1) |-> x]
  IN Derives(rules, base, Nonterms, goal, file.bound)

-----------------------------------------------------------------------------
(* The sets by their definitions: which nonterminals vanish, what can come *)
(* first, and what can come after, as relations and their closures.        *)

Vanishing ==
  LET more[k \in 0 .. Len(nonterms)] ==
        IF k = 0 THEN {}
        ELSE {A \in Nonterms : \E n \in Productions(A) :
                ToSet(NonActs(prods[n].rhs)) \subseteq more[k - 1]}
  IN more[Len(nonterms)]

\* R composed with itself over and over.
RECURSIVE Closure(_)
Closure(R) ==
  LET more == R \cup {<<p[1], q[2]>> : <<p, q>> \in {pq \in R \X R : pq[1][2] = pq[2][1]}}
  IN IF more = R THEN R ELSE Closure(more)

\* The symbols a sequence can begin with when those of N vanish.
Openers(rhs, N) ==
  LET s == NonActs(rhs)
  IN {s[i] : i \in {j \in DOMAIN s : \A k \in 1 .. j - 1 : s[k] \in N}}

TrueFirst(N) ==
  LET begins == Closure(UNION {{<<prods[n].lhs, x>> : x \in Openers(prods[n].rhs, N)}
                                 : n \in DOMAIN prods})
  IN [A \in Nonterms |-> {t \in 1 .. Len(terms) : <<A, t>> \in begins}
                           \cup IF A \in N THEN {EPSILON} ELSE {}]

TrueFirstOf(rhs, N, F) ==
  UNION {IF ISTERM(x) THEN {x} ELSE F[x] \ {EPSILON} : x \in Openers(rhs, N)}

\* A right-hand side that begins with what can vanish, cannot vanish itself, and is
\* of a nonterminal that cannot: its EPSILON leaks (first.c:86-90).  The symbols of
\* silent were actions when first.c saw them.
Leaky(N, silent) ==
  \E n \in DOMAIN prods :
    LET heard(x) == x \notin silent
        rhs == SelectSeq(prods[n].rhs, heard)
    IN prods[n].lhs \notin N /\ rhs # <<>> /\ Head(rhs) \in N
=============================================================================
