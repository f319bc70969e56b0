---------------------------- MODULE LlamaMeaning ----------------------------
(***************************************************************************)
(* The correctness of Llama: the productions, the sets, the tables and the *)
(* parser against what the grammar file means.                             *)
(***************************************************************************)
EXTENDS Llama, GrammarReference

\* The productions that acts.c makes of a file derive what the file means, each
\* action where it is written (acts.c:249-295: parts that are optional or repeated).
ProductionsMeanGrammar ==
  at = "made" => Generated = Meaning[file.num]

-----------------------------------------------------------------------------
(* The sets. *)

TrueFollow(N, F) ==
  LET ends   == Closure({<<A, A>> : A \in Nonterms}
                  \cup UNION {{<<A, prods[u[1]].lhs>> : u \in {v \in Uses(A) :
                         ToSet(NonActs(After(v[1], v[2]))) \subseteq N}} : A \in Nonterms})
      own(A) == (IF A = goal THEN {_EOI_} ELSE {})
                  \cup UNION {TrueFirstOf(After(u[1], u[2]), N, F) : u \in Uses(A)}
  IN [A \in Nonterms |-> UNION {own(B) : B \in {C \in Nonterms : <<A, C>> \in ends}}]

TrueSelect(N, F, G) ==
  [n \in DOMAIN prods |->
     TrueFirstOf(prods[n].rhs, N, F)
       \cup IF ToSet(NonActs(prods[n].rhs)) \subseteq N THEN G[prods[n].lhs] ELSE {}]

SetsAre(N, F, G) ==
  IF Leaky(N, MINACT .. MINACT + acts - 1)
  THEN /\ \A A \in Nonterms : F[A] \subseteq first[A] /\ G[A] \subseteq follow[A]
       /\ \A n \in DOMAIN prods : TrueSelect(N, F, G)[n] \subseteq select[n]
  ELSE first = F /\ follow = G /\ select = TrueSelect(N, F, G)

\* In whatever order the symbol table is gone through, the fixpoints of first.c and
\* llfollow.c end in the sets of the textbook, and in larger ones only if an EPSILON
\* leaks.
SetsExact ==
  at = "tables" =>
    LET N == Vanishing IN LET F == TrueFirst(N) IN SetsAre(N, F, TrueFollow(N, F))

-----------------------------------------------------------------------------
(* The parser. *)

\* What is parsed without an error is a beginning of the stream that the grammar
\* derives, and the actions are done in their places (llama.m:342-449).
AcceptsOnlyLanguage ==
  at = "accepted" /\ yynerrs = 0 /\ WellMade =>
    /\ Len(trace) <= file.bound => trace \in Meaning[file.num]
    /\ IsPrefix(SelectSeq(trace, IsToken), given)

\* A sentence of a grammar without conflicts is parsed without an error, and to its
\* end.
AcceptsWholeLanguage ==
  nerrors = 0 /\ WellMade /\ IsSentence(given) =>
    /\ yynerrs = 0
    /\ at = "accepted" => SelectSeq(trace, IsToken) = given

\* llama ends on every file, and its parsers on every stream unless a conflict was
\* reported: two nonterminals may then replace each other for ever.
Ends == {"accepted", "aborted", "returned", "overflow", "errors", "fatal", "undefined",
         "uncompilable"}
ComesToEnd ==
  /\ <>(at \in Ends \cup {"parse"})
  /\ (at = "parse" /\ nerrors = 0) ~> (at \in Ends)
=============================================================================
