-------------------------------- MODULE Occs --------------------------------
(***************************************************************************)
(* The parsers that occs makes, libary/occs.m: a stack of states and one   *)
(* of values moved by the tables of Lalr, one token of lookahead, and      *)
(* recovery that looks for a state with an action on the token, and throws *)
(* the token away when there is none.                                      *)
(*                                                                         *)
(* A value is the symbol it belongs to, so that an action can be asked     *)
(* what it finds.  Left out: the text of tokens, and the debugger.         *)
(***************************************************************************)
EXTENDS Lalr

CONSTANTS
  Tokens,  \* the longest stream of tokens given to a parser
  YYMAXERR, YYMAXDEPTH, YYCASCADE

ASSUME OccsAssumption ==
  /\ Tokens \in Nat /\ YYMAXERR \in Nat /\ YYMAXDEPTH \in Nat \ {0} /\ YYCASCADE \in Nat
  /\ MAXSTATE <= 32767

VARIABLES
  given,   \* the stream of tokens given to the parser
  rest,    \* what yylex() has not returned yet
  lookahead,
  stack,   \* Yy_stack, top first
  values,  \* Yy_vstack, top first
  trace,   \* the tokens shifted and the actions done, in order
  yynerrs,
  suppress_err

parser == <<given, rest, lookahead, stack, values, trace, yynerrs, suppress_err>>
vars   == <<grammar, machine, parser>>

OccsInit ==
  /\ LalrInit
  /\ given = <<>> /\ rest = <<>> /\ lookahead = _EOI_ /\ stack = <<>> /\ values = <<>>
  /\ trace = <<>> /\ yynerrs = 0 /\ suppress_err = 0

UnchangedInParse == UNCHANGED <<file, made, built, first, closing, machine, given>>

Streams == BoundedSeq(1 .. Len(terms), Tokens)

\* yylex(), which answers the end of the input again and again.
Next_token(s) == IF s = <<>> THEN _EOI_ ELSE Head(s)
Without(s)    == IF s = <<>> THEN <<>> ELSE Tail(s)

YYF == 32767
yy_next(table, s, x) == IF x \in DOMAIN table[s + 1] THEN table[s + 1][x] ELSE YYF
Act_num(s, t) == yy_next(actions, s, t)

\* yy_init_stack(); below the first state lies a value of no symbol.
Start ==
  /\ at = "made"
  /\ given' \in Streams
  /\ lookahead' = Next_token(given') /\ rest' = Without(given')
  /\ stack' = <<0>> /\ values' = <<NONE>> /\ at' = "parse"
  /\ UNCHANGED <<file, made, built, first, closing, machine, trace, yynerrs, suppress_err>>

Parsing(num) == at = "parse" /\ num = Act_num(Head(stack), lookahead)
Suppress     == IF suppress_err > 0 THEN suppress_err - 1 ELSE 0

\* The push of yy_shift() that finds the stack full ends the program.
Full_late(seq) == Len(seq) > YYMAXDEPTH
Full(seq) == Len(seq) = YYMAXDEPTH
yy_shift ==
  /\ \E new_state \in 1 .. Len(lrstates) - 1 :
       /\ Parsing(new_state)
       /\ IF Full(stack)
          THEN at' = "overflow" /\ UNCHANGED <<rest, lookahead, stack, values, trace>>
          ELSE /\ stack' = <<new_state>> \o stack /\ values' = <<lookahead>> \o values
               /\ trace' = Append(trace, lookahead) /\ at' = at
               /\ lookahead' = Next_token(rest) /\ rest' = Without(rest)
  /\ suppress_err' = Suppress
  /\ UNCHANGED yynerrs /\ UnchangedInParse

\* The action, which may end the parse, and yy_reduce() unless the production is the
\* first.  Its push is not checked: after an empty production it may write in front of
\* the stacks.
Popped(seq, num) == SubSeq(seq, num + 1, Len(seq))
yy_reduce ==
  /\ \E n \in DOMAIN prods :
       /\ Parsing(1 - n)
       /\ trace' = IF does[n].act = NONE THEN trace ELSE Append(trace, does[n].act)
       /\ LET left == Popped(stack, Len(prods[n].rhs))
              next == yy_next(gotos, Head(left), prods[n].lhs)
          IN \/ /\ does[n].act # NONE
                /\ at' = "returned" /\ UNCHANGED <<stack, values>>
             \/ /\ n = 1
                /\ at' = "accepted" /\ UNCHANGED <<stack, values>>
             \/ /\ n # 1 /\ Full(left)
                /\ at' = "undefined" /\ UNCHANGED <<stack, values>>
             \/ /\ n # 1 /\ ~Full(left)
                /\ stack' = <<next>> \o left
                /\ values' = <<prods[n].lhs>> \o Popped(values, Len(prods[n].rhs))
                /\ at' = at
  /\ suppress_err' = Suppress
  /\ UNCHANGED <<rest, lookahead, yynerrs>> /\ UnchangedInParse

\* yy_recover(): the error is counted unless one was a few cycles ago.
Counted_if_suppressed == Suppress > 0
Counted == Suppress = 0
yy_recover ==
  /\ Parsing(YYF)
  /\ suppress_err' = Suppress
  /\ yynerrs' = yynerrs + IF Counted THEN 1 ELSE 0
  /\ at' = IF Counted /\ yynerrs' > YYMAXERR THEN "aborted" ELSE "recover"
  /\ UNCHANGED <<rest, lookahead, stack, values, trace>> /\ UnchangedInParse

Recovering == {i \in DOMAIN stack : Act_num(stack[i], lookahead) # YYF}

\* The states above the first that has an action are popped; the value stack is aligned.
\* The end of the input, a token of number 0, counts as a failure even then.
Recovered_unaligned ==
  /\ at = "recover" /\ Recovering # {}
  /\ stack' = SubSeq(stack, Min(Recovering), Len(stack))
  /\ at' = IF lookahead = _EOI_ THEN "aborted" ELSE "parse"
  /\ suppress_err' = YYCASCADE
  /\ UNCHANGED <<rest, lookahead, values, trace, yynerrs>> /\ UnchangedInParse
Recovered ==
  /\ at = "recover" /\ Recovering # {}
  /\ stack' = SubSeq(stack, Min(Recovering), Len(stack))
  /\ values' = SubSeq(values, Len(values) - Len(stack') + 1, Len(values))
  /\ at' = IF lookahead = _EOI_ THEN "aborted" ELSE "parse"
  /\ suppress_err' = YYCASCADE
  /\ UNCHANGED <<rest, lookahead, trace, yynerrs>> /\ UnchangedInParse

Discard_not_at_end ==
  /\ at = "recover" /\ Recovering = {} /\ rest # <<>>
  /\ lookahead' = Head(rest) /\ rest' = Tail(rest)
  /\ UNCHANGED <<at, stack, values, trace, yynerrs, suppress_err>> /\ UnchangedInParse
Discard ==
  /\ at = "recover" /\ Recovering = {}
  /\ lookahead' = Next_token(rest) /\ rest' = Without(rest)
  /\ at' = IF lookahead' = _EOI_ THEN "aborted" ELSE at
  /\ UNCHANGED <<stack, values, trace, yynerrs, suppress_err>> /\ UnchangedInParse

ParseNext == Start \/ yy_shift \/ yy_reduce \/ yy_recover \/ Recovered \/ Discard

Next ==
  \/ ReadNext /\ UNCHANGED <<machine, parser>>
  \/ FirstNext /\ UNCHANGED <<machine, parser>>
  \/ LalrNext /\ UNCHANGED parser
  \/ ParseNext

Spec     == OccsInit /\ [][Next]_vars
FairSpec == Spec /\ WF_vars(Next)

-----------------------------------------------------------------------------
(* A property of the parser; the others are in OccsMeaning. *)

\* Every state on the stack is where the symbol above the one below leads, and an action
\* finds on the value stack the symbols to its left in the production it was written in,
\* wherever yypatch.c has moved it and whatever recovery has popped (yypatch.c:92-145,
\* occs.m:354-359).
Move(s, x) == IF ISTERM(x) THEN Act_num(s, x) ELSE yy_next(gotos, s, x)
ActionsSeeTheirSymbols ==
  at = "parse" =>
    /\ Len(values) = Len(stack)
    /\ \A i \in 1 .. Len(stack) - 1 : stack[i] = Move(stack[i + 1], values[i])
    /\ \A n \in DOMAIN prods : Parsing(1 - n) =>
         /\ SubSeq(values, 1, Len(prods[n].rhs)) = Reverse(prods[n].rhs)
         /\ LET d == does[n]
            IN SubSeq(values, 1, d.size) = Reverse(SubSeq(prods[d.in].rhs, 1, d.size))
=============================================================================
