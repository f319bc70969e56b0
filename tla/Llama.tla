------------------------------- MODULE Llama -------------------------------
(***************************************************************************)
(* llama and the parsers it makes.  compiler/parser/llfollow.c and         *)
(* llselect.c compute FOLLOW and SELECT, llcode.c and sys_pairs() print    *)
(* the tables, libary/llama.m is the parser that runs on them: a stack of  *)
(* the symbols still expected, one token of lookahead, and recovery that   *)
(* throws away stack and input up to a synchronising token.                *)
(*                                                                         *)
(* Left out: the value stack, the text of tokens, the debugger, and the    *)
(* uncompressed tables of the -f switch.                                   *)
(***************************************************************************)
EXTENDS Grammar

CONSTANTS
  Tokens,    \* the longest stream of tokens given to a parser
  threshold, \* rows of more transitions are not packed in pairs
  TTYPE,     \* how many numbers a YY_TTYPE has, 256 in the code
  YYMAXERR, YYMAXDEPTH

ASSUME LlamaAssumption ==
  /\ LLAMA
  /\ Tokens \in Nat /\ threshold \in Nat /\ TTYPE \in Nat \ {0}
  /\ YYMAXERR \in Nat /\ YYMAXDEPTH \in Nat \ {0}
  /\ \A f \in Files : f.synch \subseteq 1 .. Len(f.terms)

VARIABLES
  follow,  \* the FOLLOW set of every nonterminal
  select,  \* the SELECT set of every production
  Yyd,     \* the rows of the table, as printed, one for each nonterminal
  given,   \* the stream of tokens given to the parser
  rest,    \* what yylex() has not returned yet
  lookahead,
  stack,   \* Yy_stack, top first
  trace,   \* the tokens matched and the actions done, in order
  yynerrs

sets   == <<follow, select, Yyd>>
parser == <<given, rest, lookahead, stack, trace, yynerrs>>
vars   == <<grammar, sets, parser>>

LlamaInit ==
  /\ Init
  /\ follow = <<>> /\ select = <<>> /\ Yyd = <<>>
  /\ given = <<>> /\ rest = <<>> /\ lookahead = _EOI_ /\ stack = <<>>
  /\ trace = <<>> /\ yynerrs = 0

-----------------------------------------------------------------------------
(* llfollow.c *)

After(n, i)   == SubSeq(prods[n].rhs, i + 1, Len(prods[n].rhs))
Uses(A)       == {u \in (DOMAIN prods) \X (1 .. MAXRHS) :
                    u[2] \in DOMAIN prods[u[1]].rhs /\ prods[u[1]].rhs[u[2]] = A}

\* init(): the end of the input follows the goal, and what may come after a
\* nonterminal in a production follows it.
init ==
  /\ FirstDone
  /\ follow' = [A \in Nonterms |->
                  (IF A = goal THEN {_EOI_} ELSE {})
                    \cup UNION {Begins(After(u[1], u[2])) : u \in Uses(A)}]
  /\ at' = "follow" /\ turn' = 1 /\ did' = FALSE
  /\ UNCHANGED <<file, made, built, first, order, select, Yyd, parser>>

\* The nonterminals at the end of A's productions.
Trailing_one(A) ==
  {Last(prods[n].rhs) : n \in {m \in Productions(A) : prods[m].rhs # <<>>}} \cap Nonterms
Trailing(A) == {B \in Nonterms : \E u \in Uses(B) :
                  u[1] \in Productions(A) /\ Nullable(After(u[1], u[2]))}

\* follow_closure() for one nonterminal.
follow_closure ==
  /\ at = "follow" /\ turn <= Len(order)
  /\ LET A == order[turn]
     IN /\ follow' = [B \in Nonterms |->
                        follow[B] \cup IF B \in Trailing(A) THEN follow[A] ELSE {}]
        /\ did' = (did \/ \E B \in Trailing(A) : ~(follow[A] \subseteq follow[B]))
  /\ turn' = turn + 1
  /\ UNCHANGED <<file, made, built, at, first, order, select, Yyd, parser>>

FollowPass ==
  /\ at = "follow" /\ turn > Len(order) /\ did
  /\ turn' = 1 /\ did' = FALSE
  /\ UNCHANGED <<file, made, built, at, first, order, sets, parser>>

-----------------------------------------------------------------------------
(* llselect.c, after remove_epsilon() *)

Select(n, fol) ==
  (Begins(prods[n].rhs)
     \cup IF Nullable(prods[n].rhs) THEN fol[prods[n].lhs] ELSE {}) \ {EPSILON}

llselect ==
  /\ at = "follow" /\ turn > Len(order) /\ ~did
  /\ LET fol == [A \in Nonterms |-> follow[A] \ {EPSILON}]
     IN follow' = fol /\ select' = [n \in DOMAIN prods |-> Select(n, fol)]
  /\ at' = "tables" /\ order' = <<>> /\ turn' = 1
  /\ UNCHANGED <<file, made, built, first, did, Yyd, parser>>

-----------------------------------------------------------------------------
(* llcode.c and sys_pairs(): column t + 1 of a row is for token t. *)

Columns       == 0 .. Len(terms)
Claims(A, t)  == {n \in Productions(A) : t \in select[n]}

\* fill_row(): the last production of those selected by a token takes the cell.
\* Productions are numbered from 0.
fill_row(A) ==
  [c \in 1 .. Len(terms) + 1 |->
     IF Claims(A, c - 1) = {} THEN -1 ELSE Max(Claims(A, c - 1)) - 1]
Refused == {c \in Columns \X (DOMAIN prods) : c[1] \in select[c[2]] /\
              \E m \in Productions(prods[c[2]].lhs) : m > c[2] /\ c[1] \in select[m]}

\* A row with few transitions is their number and pairs of a column and its entry;
\* one with many is 0 and the row; a row without is not printed.
cell(x) == x % TTYPE
sys_pairs(row) ==
  LET cols  == Those([i \in DOMAIN row |-> i - 1], {c \in Columns : row[c + 1] # -1})
      pairs == [j \in 1 .. 2 * Len(cols) |->
                  LET c == cols[(j + 1) \div 2] IN IF j % 2 = 1 THEN c ELSE cell(row[c + 1])]
  IN IF cols = <<>> THEN <<>>
     ELSE IF Len(cols) > threshold THEN <<0>> \o [i \in DOMAIN row |-> cell(row[i])]
     ELSE <<Len(cols)>> \o pairs

YYF == TTYPE - 1
yy_next_short(A, t) ==
  LET p    == Yyd[A - MINNONTERM + 1]
      hits == {i \in 1 .. p[1] - 1 : p[2 * i] = t}
  IN IF p = <<>> THEN YYF
     ELSE IF p[1] = 0 THEN p[t + 2]
     ELSE IF hits = {} THEN YYF ELSE p[2 * Min(hits) + 1]
yy_next(A, t) ==
  LET p    == Yyd[A - MINNONTERM + 1]
      hits == {i \in 1 .. p[1] : p[2 * i] = t}
  IN IF p = <<>> THEN YYF
     ELSE IF p[1] = 0 THEN p[t + 2]
     ELSE IF hits = {} THEN YYF ELSE p[2 * Min(hits) + 1]

\* A conflict is an error that is reported; the parser is written all the same.  The
\* array of rows names the last row even when it was not printed, or there is none.
tables ==
  /\ at = "tables"
  /\ Yyd' = [i \in DOMAIN nonterms |-> sys_pairs(fill_row(Val(i)))]
  /\ nerrors' = nerrors + Cardinality(Refused)
  /\ at' = IF Yyd' = <<>> \/ Last(Yyd') = <<>> THEN "uncompilable" ELSE "made"
  /\ UNCHANGED <<file, made, nonterms, acts, prods, sp, goal, first, closing, follow,
                 select, parser>>

-----------------------------------------------------------------------------
(* llama.m *)

Streams == BoundedSeq(1 .. Len(terms), Tokens)

\* yylex(), which answers the end of the input again and again.
Next_token(s) == IF s = <<>> THEN _EOI_ ELSE Head(s)
Without(s)    == IF s = <<>> THEN <<>> ELSE Tail(s)

\* yyparse() starts with the first nonterminal, whatever the goal is.
Start ==
  /\ at = "made"
  /\ given' \in Streams
  /\ lookahead' = Next_token(given') /\ rest' = Without(given')
  /\ stack' = <<MINNONTERM>> /\ at' = "parse"
  /\ UNCHANGED <<file, made, built, first, closing, sets, trace, yynerrs>>

Parsing == at = "parse" /\ stack # <<>>
Tos     == Head(stack)
UnchangedInParse == UNCHANGED <<file, made, built, first, closing, sets, given>>

\* The action on top of the stack is done, and may end the parse.
act ==
  /\ Parsing /\ ISACT(Tos)
  /\ trace' = Append(trace, Tos)
  /\ \/ stack' = Tail(stack) /\ at' = at
     \/ stack' = stack /\ at' = "returned"
  /\ UNCHANGED <<rest, lookahead, yynerrs>> /\ UnchangedInParse

Advance_unchecked ==
  /\ Parsing /\ ISTERM(Tos)
  /\ trace' = Append(trace, lookahead)
  /\ stack' = Tail(stack)
  /\ lookahead' = Next_token(rest) /\ rest' = Without(rest)
  /\ UNCHANGED <<at, yynerrs>> /\ UnchangedInParse
Advance ==
  /\ Parsing /\ ISTERM(Tos) /\ Tos = lookahead
  /\ trace' = Append(trace, lookahead)
  /\ stack' = Tail(stack)
  /\ lookahead' = Next_token(rest) /\ rest' = Without(rest)
  /\ UNCHANGED <<at, yynerrs>> /\ UnchangedInParse

\* A nonterminal is replaced by its right-hand side, pushed from its end on; the
\* push that finds the stack full ends the program.
Yy_pushtab(num) == prods[num + 1].rhs
Replace_unchecked ==
  /\ Parsing /\ ISNONTERM(Tos) /\ yy_next(Tos, lookahead) # YYF
  /\ stack' = Yy_pushtab(yy_next(Tos, lookahead)) \o Tail(stack)
  /\ UNCHANGED <<at, rest, lookahead, trace, yynerrs>> /\ UnchangedInParse
Replace ==
  /\ Parsing /\ ISNONTERM(Tos) /\ yy_next(Tos, lookahead) # YYF
  /\ LET new == Yy_pushtab(yy_next(Tos, lookahead)) \o Tail(stack)
     IN IF Len(new) > YYMAXDEPTH THEN at' = "overflow" /\ UNCHANGED stack
        ELSE stack' = new /\ at' = at
  /\ UNCHANGED <<rest, lookahead, trace, yynerrs>> /\ UnchangedInParse

Unexpected ==
  \/ ISTERM(Tos) /\ Tos # lookahead
  \/ ISNONTERM(Tos) /\ yy_next(Tos, lookahead) = YYF

\* Without synchronising tokens the array Yy_synch begins with the end of input, and
\* yy_in_synch() stops there.
yy_in_synch(x) == x \in file.synch

\* yy_synch(): the error is counted, and too many end the parse.
yy_synch ==
  /\ Parsing /\ Unexpected
  /\ yynerrs' = yynerrs + 1
  /\ at' = IF yynerrs' > YYMAXERR THEN "aborted" ELSE "popping"
  /\ UNCHANGED <<rest, lookahead, stack, trace>> /\ UnchangedInParse

\* The stack is popped down to a synchronising token; without one there is no recovery.
Pop ==
  /\ at = "popping" /\ stack # <<>> /\ ~yy_in_synch(Tos)
  /\ stack' = Tail(stack)
  /\ UNCHANGED <<at, rest, lookahead, trace, yynerrs>> /\ UnchangedInParse
Popped ==
  /\ at = "popping" /\ (stack # <<>> => yy_in_synch(Tos))
  /\ at' = IF stack = <<>> THEN "aborted" ELSE "synch"
  /\ UNCHANGED <<rest, lookahead, stack, trace, yynerrs>> /\ UnchangedInParse

\* Then tokens are thrown away up to the same one, or to the end of the input.
Discard ==
  /\ at = "synch" /\ lookahead \notin {Tos, _EOI_}
  /\ lookahead' = Next_token(rest) /\ rest' = Without(rest)
  /\ UNCHANGED <<at, stack, trace, yynerrs>> /\ UnchangedInParse

Synchronised_at_once ==
  /\ at = "synch"
  /\ at' = IF lookahead = _EOI_ THEN "aborted" ELSE "parse"
  /\ UNCHANGED <<rest, lookahead, stack, trace, yynerrs>> /\ UnchangedInParse
Synchronised_not_at_end ==
  /\ at = "synch" /\ lookahead = Tos /\ at' = "parse"
  /\ UNCHANGED <<rest, lookahead, stack, trace, yynerrs>> /\ UnchangedInParse
Synchronised ==
  /\ at = "synch" /\ lookahead \in {Tos, _EOI_}
  /\ at' = IF lookahead = _EOI_ THEN "aborted" ELSE "parse"
  /\ UNCHANGED <<rest, lookahead, stack, trace, yynerrs>> /\ UnchangedInParse

\* The parse is over when the stack is empty, whatever the lookahead.
Accept ==
  /\ at = "parse" /\ stack = <<>>
  /\ at' = "accepted"
  /\ UNCHANGED <<rest, lookahead, stack, trace, yynerrs>> /\ UnchangedInParse

ParseNext ==
  \/ Start \/ act \/ Advance \/ Replace \/ Accept
  \/ yy_synch \/ Pop \/ Popped \/ Discard \/ Synchronised

Next ==
  \/ ReadNext /\ UNCHANGED <<sets, parser>>
  \/ FirstNext /\ UNCHANGED <<sets, parser>>
  \/ init \/ follow_closure \/ FollowPass \/ llselect \/ tables
  \/ ParseNext

Spec     == LlamaInit /\ [][Next]_vars
FairSpec == Spec /\ WF_vars(Next)

-----------------------------------------------------------------------------
(* Properties. *)

\* The type invariant: GrammarTypeOK, and a parser that stays within its stack.
TypeOK ==
  /\ GrammarTypeOK
  /\ Len(stack) <= YYMAXDEPTH /\ lookahead \in 0 .. Len(terms)
  /\ \A i \in DOMAIN stack :
       ISTERM(stack[i]) \/ stack[i] \in Nonterms \cup (MINACT .. MINACT + acts - 1)
  /\ \A A \in DOMAIN follow : A \in Nonterms /\ follow[A] \subseteq 0 .. EPSILON
  /\ at = "made" => \A A \in Nonterms, t \in Columns : yy_next(A, t) \in 0 .. TTYPE - 1
  /\ at = "synch" => stack # <<>> /\ yy_in_synch(Tos)

\* Recovery gets somewhere: a token is matched between any two errors, so that there
\* are never more errors than tokens, plus one (llama.m:305-336).
Matched == {i \in DOMAIN trace : ISTERM(trace[i])}
RecoveryConsumes == yynerrs <= Cardinality(Matched) + 1

\* Production numbers fit a YY_TTYPE (parser.h:77), and the parser starts with the goal
\* (lldriver.c:46 takes it to be the first nonterminal).
WellMade == Len(prods) < YYF /\ goal = MINNONTERM

=============================================================================
