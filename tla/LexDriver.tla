------------------------------ MODULE LexDriver ------------------------------
(***************************************************************************)
(* libary/lex.m: yylex(), the driver of every generated analyzer, over the *)
(* input buffer of compiler/lib/input.c.  One turn of the driver's loop is *)
(* one action; the functions of the buffer it calls are the operators of   *)
(* InputBuffer.  What the user supplies is nondeterministic: the action of *)
(* a rule (input(), unput(), yyless(), yymore(), return), yy_wrap(), and   *)
(* the parser, which marks the lexeme it shifts (occs.m:437).              *)
(***************************************************************************)
EXTENDS Integers, Sequences, FiniteSetsExt

CONSTANTS
  Chars, NUL, NL, EOF, MAXLEX, LOOK, \* as in InputBuffer
  Files,       \* the contents of the files that may be opened
  MaxOpens,    \* bound: files yy_wrap() opens after the first
  Analyzers,   \* [nxt, accept]: the tables Yy_nxt and Yyaccept
  Uses,        \* what the rules' actions use: a subset of AllUses
  Unputs,      \* the characters they put back
  ParserMarks  \* the caller is a parser, which calls ii_mark_prev()

AllUses == {"input", "unput", "yyless", "yymore"}
YYF   == 255   \* ( YY_TTYPE )(-1)
START == 1
END   == 2

ASSUME UsesAssumption == Uses \subseteq AllUses /\ ParserMarks \in BOOLEAN

\* The tables LeX prints: 255 is no state; a rule with both anchors matches a
\* line end at each (nfa.c, rule()), so never a single character.
ASSUME AnalyzersAssumption ==
  \A t \in Analyzers :
    LET States == DOMAIN t.accept
    IN /\ 0 \in States /\ YYF \notin States
       /\ t.accept \in [States -> 0 .. 4]
       /\ t.nxt \in [States -> [Chars -> States \cup {YYF}]]
       /\ \A c \in Chars : t.nxt[0][c] # YYF => t.accept[t.nxt[0][c]] # 3

VARIABLES
  b, text,      \* the input system and its stream, as in InputBuffer
  opens,        \* files opened after the first
  table,        \* the analyzer's tables
  at,           \* "call", "scan" (in the loop), "action" or "eof"
  yystate, yylastaccept, yyprev, yyanchor,
  yytext,       \* NULL at the end of file
  yyleng,
  scan,         \* where the driver took up scanning, the state it was in (YYF
                \* once it has done more since than consume text), and whether
                \* to extend a lexeme (yymore)
  first         \* yylex() has not been called yet

input  == <<b, text>>
driver == <<yystate, yylastaccept, yyprev, yyanchor>>
lexeme == <<yytext, yyleng>>
vars   == <<b, text, opens, table, at, driver, lexeme, scan, first>>

In == INSTANCE InputBuffer WITH
        changes <- opens, MaxChanges <- MaxOpens,
        ShortReads <- FALSE, ReadErrors <- FALSE, PutBack <- Unputs, MaxBack <- 1,
        line0 <- IF first \/ opens > 0 THEN 1 ELSE 0,
        ready <- ~first /\ at # "load", terminated <- at = "action"

ASSUME InputAssumption == In!BoundsAssumption /\ In!CharsAssumption

Init ==
  /\ opens = 0 /\ at = "call" /\ first = TRUE
  /\ In!Init
  /\ table \in Analyzers
  /\ yystate = YYF /\ yylastaccept = 0 /\ yyprev = 0 /\ yyanchor = 0
  /\ yytext = In!NULL /\ yyleng = 0
  /\ scan = [at |-> 0, state |-> YYF, more |-> FALSE]

Running == b.exit = "no"
Cur     == In!Cur
yylook  == In!ii_look(b, 1)
yynstate == IF yylook = EOF THEN YYF ELSE table.nxt[yystate][yylook]
Accepts(state) == table.accept[state] # 0
Anchored(anchor, side) == (anchor \div side) % 2 = 1

\* Take up scanning at the cursor, in a state of the machine.
Resume(state, more) ==
  /\ at' = "scan"
  /\ yystate' = state /\ yylastaccept' = 0
  /\ scan' = [at |-> Cur', state |-> state, more |-> more]
  /\ UNCHANGED <<yyprev, yyanchor>>

\* yylex() is called.  The first call of the program reads a character and
\* pushes it back, to fill the buffer.
Call ==
  /\ Running /\ at = "call"
  /\ \E s \in IF first THEN {In!ii_pushback(f, 1) : f \in In!ii_advance(b)} ELSE {b} :
       b' = In!ii_mark_start(In!ii_unterm(s))
  /\ text' = IF first THEN <<NL>> \o text ELSE text
  /\ first' = FALSE
  /\ UNCHANGED <<opens, table, lexeme>>
  /\ Resume(0, FALSE)

Scanning == Running /\ at = "scan"

\* The end of the file, and yy_wrap() has no other.
EndOfFile ==
  /\ Scanning /\ yylook = EOF /\ yylastaccept = 0
  /\ at' = "eof" /\ yytext' = In!NULL /\ yyleng' = 0
  /\ UNCHANGED <<b, text, opens, table, driver, scan, first>>

\* yy_wrap() opens another file, and the driver loads it.  The state of the
\* machine is kept.
NextFile ==
  /\ Scanning /\ yylook = EOF /\ yylastaccept = 0 /\ opens < MaxOpens
  /\ \E f \in Files : text' = f /\ b' = In!ii_newfile(b, f)
  /\ at' = "load" /\ opens' = opens + 1
  /\ UNCHANGED <<table, driver, lexeme, scan, first>>

Load ==
  /\ Running /\ at = "load"
  /\ \E s \in In!ii_advance(b) : b' = In!ii_pushback(s, 1)
  /\ at' = "scan"
  /\ scan' = [at |-> 0, state |-> IF yystate = 0 THEN 0 ELSE YYF, more |-> FALSE]
  /\ UNCHANGED <<text, opens, table, driver, lexeme, first>>

\* Consume the lookahead.  A lexeme too long for the buffer loses what it has
\* so far, and the lookahead stays in the buffer.
Consumed == IF In!Refused(b) THEN In!ii_flush(b, TRUE) ELSE In!ii_advance(b)

LastAccept_reset == IF Accepts(yynstate) THEN yynstate ELSE 0
LastAccept       == IF Accepts(yynstate) THEN yynstate ELSE yylastaccept

MarkAccept_forgetting_end(s) == s
MarkAccept(s) == IF Accepts(yynstate) THEN In!ii_mark_end(s) ELSE s

Transition ==
  /\ Scanning /\ yynstate # YYF
  /\ \E s \in Consumed : b' = MarkAccept(s)
  /\ yyanchor' = table.accept[yynstate]
  /\ yylastaccept' = LastAccept
  /\ yyprev' = IF Accepts(yynstate) THEN yystate ELSE yyprev
  /\ yystate' = yynstate
  /\ scan' = IF In!Refused(b) THEN [scan EXCEPT !.state = YYF] ELSE scan
  /\ UNCHANGED <<text, opens, table, at, lexeme, first>>

\* No rule matches: skip the character that caused the failure.
BadInput ==
  /\ Scanning /\ yynstate = YYF /\ yylook # EOF /\ yylastaccept = 0
  /\ \E s \in In!ii_advance(b) : b' = In!ii_mark_start(In!ii_unterm(s))
  /\ UNCHANGED <<text, opens, table, lexeme, first>>
  /\ Resume(0, FALSE)

\* Back up to the last accepting state, undo what the anchors matched.
Trimmed_any_anchor(s) ==
  LET e == IF yyanchor # 0 THEN In!ii_pushback(s, 1) ELSE s
  IN IF Anchored(yyanchor, START) THEN In!ii_move_start(e) ELSE e
Trimmed_end_kept(s) ==
  IF Anchored(yyanchor, START) THEN In!ii_move_start(s) ELSE s
Trimmed(s) ==
  LET e == IF Anchored(yyanchor, END) THEN In!ii_pushback(s, 1) ELSE s
  IN IF Anchored(yyanchor, START) THEN In!ii_move_start(e) ELSE e

Accept ==
  /\ Scanning /\ yynstate = YYF /\ yylastaccept # 0
  /\ b' = In!ii_term(Trimmed(In!ii_move_back(b)))
  /\ yytext' = b'.smark /\ yyleng' = b'.emark - b'.smark
  /\ at' = "action"
  /\ UNCHANGED <<text, opens, table, driver, scan, first>>

InAction(use) == Running /\ at = "action" /\ use \in Uses

\* input(), by an action that flushes the buffer when the lexeme has become
\* too long and goes on, as parser.lex does.
Input ==
  /\ InAction("input")
  /\ ~In!Refused(In!ii_unterm(b))
  /\ b' \in In!ii_input(b)
  /\ LET c == In!ii_lookahead(b, 1)
     IN IF Cur < Len(text) /\ c # NUL THEN yytext' = b'.smark /\ yyleng' = yyleng + 1
        ELSE UNCHANGED lexeme
  /\ UNCHANGED <<text, opens, table, at, driver, scan, first>>

InputTooLong ==
  /\ InAction("input")
  /\ In!Refused(In!ii_unterm(b))
  /\ \E s \in In!ii_input(b) : \E f \in In!ii_flushbuf(s) : b' = In!ii_term(f)
  /\ scan' = [scan EXCEPT !.state = YYF]
  /\ UNCHANGED <<text, opens, table, at, driver, lexeme, first>>

\* unput(c), by an action that puts back no more than its lexeme.
Unput ==
  /\ InAction("unput")
  /\ yyleng > 0
  /\ \E c \in Unputs :
       /\ b' = In!ii_unput(b, c)
       /\ text' = IF b.next - 1 > b.smark THEN [text EXCEPT ![Cur] = c] ELSE text
  /\ yyleng' = yyleng - 1
  /\ UNCHANGED <<opens, table, at, driver, yytext, scan, first>>

\* yyless(n).
LengthLess_always(n) == yyleng - n
LengthLess(n) ==
  LET p == In!ii_pushback(In!ii_unterm(b), n)
  IN yyleng - (IF p.next > p.smark THEN n ELSE yyleng)

Yyless ==
  /\ InAction("yyless")
  /\ \E n \in 1 .. 2 :
       /\ b' = In!ii_term(In!ii_pushback(In!ii_unterm(b), n))
       /\ yyleng' = LengthLess(n)
  /\ UNCHANGED <<text, opens, table, at, driver, yytext, scan, first>>

\* The action ends without a return: look for the next lexeme, or with
\* yymore() go on with this one from the state before the last accepting one.
Continue ==
  /\ Running /\ at = "action"
  /\ b' = In!ii_mark_start(In!ii_unterm(b))
  /\ UNCHANGED <<text, opens, table, lexeme, first>>
  /\ Resume(0, FALSE)

More ==
  /\ InAction("yymore")
  /\ b' = In!ii_unterm(b)
  /\ UNCHANGED <<text, opens, table, lexeme, first>>
  /\ Resume(yyprev, TRUE)

Return ==
  /\ Running /\ at = "action"
  /\ at' = "call"
  /\ UNCHANGED <<b, text, opens, table, driver, lexeme, scan, first>>

\* The parser shifts the token returned last.
ParserMarksLexeme ==
  /\ Running /\ at = "call" /\ ParserMarks /\ ~first
  /\ b' = In!ii_mark_prev(b)
  /\ UNCHANGED <<text, opens, table, at, driver, lexeme, scan, first>>

Scan == EndOfFile \/ NextFile \/ Load \/ Transition \/ BadInput \/ Accept
Action == Input \/ InputTooLong \/ Unput \/ Yyless \/ Continue \/ More \/ Return
Next == Call \/ Scan \/ Action \/ ParserMarksLexeme

Spec == Init /\ [][Next]_vars

\* The program keeps running: the actions end, and the caller calls again.
FairSpec ==
  Spec /\ WF_vars(Call) /\ WF_vars(Scan) /\ WF_vars(Continue \/ More \/ Return)

-----------------------------------------------------------------------------
(* Properties. *)

\* The driver's variables keep their types, and the buffer's with them: the driver
\* calls the input system only in the ways it can bear, so that the marks stay in
\* order and inside the buffer, with room for the terminators.
TypeOK ==
  /\ In!TypeOK /\ In!MarksInOrder
  /\ at \in {"call", "scan", "load", "action", "eof"}
  /\ yystate \in DOMAIN table.accept \cup {YYF}
  /\ yylastaccept \in DOMAIN table.accept /\ yyprev \in DOMAIN table.accept
  /\ yyanchor \in 0 .. 4 /\ yytext \in In!Index \cup {In!NULL} /\ yyleng \in Int

\* The state reached from "state" on the n characters after position p.
After(p, state) ==
  LET run[n \in 0 .. Len(text) - p] ==
        IF n = 0 THEN state
        ELSE IF run[n-1] = YYF THEN YYF ELSE table.nxt[run[n-1]][text[p + n]]
  IN run
Matches(p, state) ==
  LET run == After(p, state)
  IN {n \in 1 .. Len(text) - p : run[n] # YYF /\ table.accept[run[n]] # 0}

\* The lexeme accepted is the longest the machine can match where scanning
\* began, less the line end its own anchor matched; lookahead, backing up and
\* refills of the buffer leave no trace.
LongestMatch ==
  [][Accept /\ scan.state # YYF =>
       LET n == Max(Matches(scan.at, scan.state))
           q == After(scan.at, scan.state)[n]
           trail == IF Anchored(table.accept[q], END) THEN 1 ELSE 0
       IN /\ Matches(scan.at, scan.state) # {}
          /\ yylastaccept = q
          /\ Cur' = scan.at + n - trail]_vars

\* Text is skipped as bad input only where no lexeme begins.
OnlyBadInputSkipped ==
  [][BadInput /\ scan.state # YYF => Matches(scan.at, scan.state) = {}]_vars

\* The text a rule's action sees, yytext[0 .. yyleng-1], is the text from
\* where the lexeme starts to the cursor, through input(), unput() and
\* yyless(); at its start the newline of a start anchor is left out.
ActionSeesLexeme ==
  Running /\ at = "action" /\ scan.state # YYF =>
    /\ yytext = b.smark /\ yyleng = b.next - b.smark
    /\ \A i \in 0 .. yyleng - 1 : b.buf[yytext + i] = text[Cur - yyleng + i + 1]
    /\ ~scan.more =>
         Cur - yyleng = scan.at + (IF Anchored(yyanchor, START) THEN 1 ELSE 0)

\* Every analyzer that can match no empty lexeme comes to the end of its input,
\* or the program is ended by the input system.
ComesToEnd == <>(at = "eof" \/ ~Running)

\* yyanchor is the anchor of the most recently seen accepting state
\* (lex.m:101-102).
AnchorOfLastAccept ==
  Scanning /\ yylastaccept # 0 => yyanchor = table.accept[yylastaccept]

\* The character that caused a failure is skipped (lex.m:168).
Fails(p) == Scanning /\ yynstate = YYF /\ yylook # EOF /\ yylastaccept = 0 /\ Cur = p
Positions == UNION {0 .. Len(f) : f \in Files}
BadCharacterSkipped == \A p \in Positions : Fails(p) ~> ~Fails(p)
=============================================================================
