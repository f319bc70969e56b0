---------------------------- MODULE OccsMeaning -----------------------------
(***************************************************************************)
(* The correctness of Lalr and Occs: the states and their lookaheads       *)
(* against canonical LR(1), the parser against what the grammar file means *)
(* and what its precedences say.                                           *)
(***************************************************************************)
EXTENDS Occs, GrammarReference

\* The type invariant: GrammarTypeOK, states within their limits, and a parser that
\* stays within its stacks.
TypeOK ==
  /\ GrammarTypeOK
  /\ at \in {"lr", "close", "sort", "sorted", "shift", "made"} =>
       /\ Len(lrstates) <= MAXSTATE
       /\ \A s \in DOMAIN lrstates :
            /\ Len(Kernel(s)) <= MAXKERNEL /\ Len(lrstates[s].epsilon) <= MAXEPSILON
            /\ \A k \in DOMAIN Kernel(s) :
                 /\ Kernel(s)[k].dot <= Len(prods[Kernel(s)[k].prod].rhs)
                 /\ Kernel(s)[k].la \subseteq 0 .. Len(terms)
       /\ \A s \in DOMAIN actions : DOMAIN actions[s] \subseteq 0 .. Len(terms)
       /\ \A s \in DOMAIN gotos : DOMAIN gotos[s] \subseteq Nonterms
  /\ Len(stack) <= YYMAXDEPTH /\ yynerrs <= YYMAXERR + 1 /\ suppress_err <= YYCASCADE

\* A grammar without precedences.
Plain == \A t \in DOMAIN terms : file.prec[t].level = 0
\* The goal on a right-hand side: a reduction by production 0 then ends the parse though
\* the goal is only a part (occs.m:96-104 takes it to be the whole).
Recursive == \E n \in DOMAIN prods : goal \in ToSet(prods[n].rhs)

-----------------------------------------------------------------------------
(* Canonical LR(1): items <<production, dot, lookahead>>, the lookahead    *)
(* NONE with every item so that one without any other is still there.      *)

RightOf(i) == LET rhs == prods[i[1]].rhs IN IF i[2] < Len(rhs) THEN rhs[i[2] + 1] ELSE NONE
Follows(i, N, F) ==
  LET beta == SubSeq(prods[i[1]].rhs, i[2] + 2, Len(prods[i[1]].rhs))
  IN {NONE} \cup TrueFirstOf(beta, N, F) \cup IF ToSet(beta) \subseteq N THEN {i[3]} ELSE {}

RECURSIVE CloseItems(_, _, _)
CloseItems(I, N, F) ==
  LET more == I \cup UNION {{<<n, 0, t>> : n \in Productions(RightOf(i)), t \in Follows(i, N, F)}
                              : i \in I}
  IN IF more = I THEN I ELSE CloseItems(more, N, F)

Successors(I, N, F) ==
  LET C == CloseItems(I, N, F)
  IN {{<<i[1], i[2] + 1, i[3]>> : i \in {j \in C : RightOf(j) = x}}
        : x \in {RightOf(i) : i \in C} \ {NONE}}

RECURSIVE Reachable(_, _, _)
Reachable(K, N, F) ==
  LET more == K \cup UNION {Successors(I, N, F) : I \in K}
  IN IF more = K THEN K ELSE Reachable(more, N, F)

\* The kernels of LALR(1): those of the same productions and dots put together.
Cores(I) == {<<i[1], i[2]>> : i \in I}
Merged(N, F) ==
  LET start == {<<n, 0, t>> : n \in Productions(goal), t \in {_EOI_, NONE}}
      all   == Reachable({start}, N, F)
  IN {UNION {J \in all : Cores(J) = c} : c \in {Cores(I) : I \in all}}
Empty(I, N, F) == {i \in CloseItems(I, N, F) : prods[i[1]].rhs = <<>>}

\* The same sets of items as the program has them.
ItemsOf(seq) == UNION {{<<it.prod, it.dot, t>> : t \in it.la \cup {NONE}} : it \in ToSet(seq)}
Kernels == {ItemsOf(Kernel(s)) : s \in DOMAIN lrstates}

\* When no state is unfinished any more, lr() has the states of LALR(1) with exactly
\* their lookaheads, those of the empty productions included, in whatever order they
\* were found and however often they were taken up again (yystate.c:815-919).  An EPSILON
\* that leaks into FIRST makes lookaheads larger, never smaller.
Silent == {prods[n].lhs : n \in {m \in DOMAIN prods : does[m].in # m}}
LookaheadsExact ==
  at = "lr" /\ unfinished = {} /\ turn = 1 /\ ~Recursive =>
    LET N == Vanishing IN LET F == TrueFirst(N) IN
    LET M == Merged(N, F)
    IN IF Leaky(N, Silent)
       THEN \A I \in M : \E K \in Kernels : Cores(I) = Cores(K) /\ I \subseteq K
       ELSE /\ M = Kernels
            /\ \A s \in DOMAIN lrstates :
                 ItemsOf(lrstates[s].epsilon) = Empty(ItemsOf(Kernel(s)), N, F)

-----------------------------------------------------------------------------
(* The parser. *)

\* What is parsed without an error is the whole stream, which the grammar derives, and the
\* actions are done in their places (occs.m:389-490).
AcceptsOnlyLanguage ==
  at = "accepted" /\ yynerrs = 0 /\ ~Recursive =>
    /\ Len(trace) <= file.bound => trace \in Meaning[file.num]
    /\ SelectSeq(trace, IsToken) = given

\* A sentence of a grammar without conflicts is parsed without an error.
AcceptsWholeLanguage ==
  Plain /\ conflicts = 0 /\ ~Recursive /\ IsSentence(given) =>
    yynerrs = 0 /\ (at = "accepted" => SelectSeq(trace, IsToken) = given)

-----------------------------------------------------------------------------
(* Expressions E: E x E {..} | - E {..} | a, the action of a binary        *)
(* operator x being file.expr[x], and - binding closer than they do.       *)

\* The places of the binary operators of s, and the one that is applied last: of the
\* lowest level, the last one or, if that level is of the right, the first.
Binary(s) == {i \in 2 .. Len(s) : s[i] \in DOMAIN file.expr /\ s[i - 1] = 1}
Outermost(s) ==
  LET weight(i) == file.prec[s[i]].level
      low == {i \in Binary(s) : \A j \in Binary(s) : weight(i) <= weight(j)}
  IN IF file.prec[s[Min(low)]].assoc = "r" THEN Min(low) ELSE Max(low)

RECURSIVE Evaluation(_)
Evaluation(s) ==
  IF Binary(s) # {}
  THEN LET i == Outermost(s)
       IN Evaluation(SubSeq(s, 1, i - 1)) \o <<s[i]>> \o Evaluation(SubSeq(s, i + 1, Len(s)))
            \o <<file.expr[s[i]]>>
  ELSE IF Len(s) > 1 THEN <<Head(s)>> \o Evaluation(Tail(s)) \o <<file.unary>>
  ELSE s

\* The actions of an expression are done in the order that the precedence and the
\* associativity of its operators give, with %nonassoc as with %left (yystate.c:954-961).
PrecedenceHonoured ==
  DOMAIN file.expr # {} /\ IsSentence(given) =>
    /\ conflicts = 0 /\ yynerrs = 0
    /\ at = "accepted" => trace = Evaluation(given)

\* occs ends on every file, and its parsers on every stream.
Ends == {"accepted", "aborted", "returned", "overflow", "errors", "fatal", "undefined"}
ComesToEnd ==
  /\ <>(at \in Ends \cup {"parse"})
  /\ (at = "parse" /\ Plain /\ conflicts = 0 /\ ~Leaky(Vanishing, Silent)) ~> (at \in Ends)
=============================================================================
