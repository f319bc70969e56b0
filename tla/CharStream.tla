----------------------------- MODULE CharStream -----------------------------
(***************************************************************************)
(* What the input system of the generated lexical analyzers promises: a    *)
(* stream of characters with a cursor, a current lexeme and a remembered   *)
(* previous lexeme.  There is no buffer here.  InputBuffer, the model of   *)
(* compiler/lib/input.c, is shown to implement this specification.         *)
(*                                                                         *)
(* Positions count the characters before them: 0 is the start of the text. *)
(***************************************************************************)
EXTENDS Integers, Sequences

CONSTANTS
  Files,    \* the texts a file may hold
  Chars,    \* the characters
  NL,       \* the newline the first read of a program pushes
  MaxBack,  \* the most characters one pushback returns
  Limit     \* text up to this length is never discarded

VARIABLES
  text,     \* the characters of the open file, consumed or not
  cur,      \* the next character to deliver is text[cur + 1]
  start,    \* start of the current lexeme
  end,      \* end of the current lexeme
  prev,     \* start of the previous lexeme, -1 when there is none
  live      \* FALSE once the program has exited

vars == <<text, cur, start, end, prev, live>>

Least(x, y) == IF x < y THEN x ELSE y
Most(x, y)  == IF x < y THEN y ELSE x

Init ==
  /\ text \in Files
  /\ cur = 0 /\ start = 0 /\ end = 0 /\ prev = -1
  /\ live = TRUE

Open ==
  /\ text' \in Files
  /\ cur' = 0 /\ start' = 0 /\ end' = 0 /\ prev' = -1
  /\ UNCHANGED live

\* The first character ever delivered is a newline the file does not hold.
PushNewline ==
  /\ cur = 0 /\ end = 0
  /\ text' = <<NL>> \o text
  /\ cur' = 1
  /\ prev' = -1
  /\ UNCHANGED <<start, end, live>>

Deliver ==
  /\ cur < Len(text)
  /\ cur' = cur + 1
  /\ UNCHANGED <<text, start, end, prev, live>>

\* ii_input() delivers and extends the lexeme; at the end of file it only
\* extends the lexeme to the cursor.
DeliverIntoLexeme ==
  /\ cur' = Least(cur + 1, Len(text))
  /\ end' = cur'
  /\ UNCHANGED <<text, start, prev, live>>

MarkStart == start' = cur /\ end' = cur /\ UNCHANGED <<text, cur, prev, live>>
MarkEnd   == end' = cur /\ UNCHANGED <<text, cur, start, prev, live>>
MoveBack  == cur' = end /\ UNCHANGED <<text, start, end, prev, live>>
MarkPrev  == prev' = start /\ UNCHANGED <<text, cur, start, end, live>>

MoveStart ==
  /\ start < end
  /\ start' = start + 1
  /\ UNCHANGED <<text, cur, end, prev, live>>

Return(n) ==
  /\ cur' = Most(cur - n, start)
  /\ end' = Least(end, cur')
  /\ UNCHANGED <<text, start, prev, live>>

\* Put c back in the place of the character delivered last.
Replace(c) ==
  /\ cur > start
  /\ cur' = cur - 1
  /\ end' = Least(end, cur')
  /\ text' = [text EXCEPT ![cur] = c]
  /\ UNCHANGED <<start, prev, live>>

\* Only text longer than the limit may be thrown away.
Discard ==
  /\ cur - (IF prev = -1 THEN start ELSE prev) > Limit
  /\ start' = cur /\ end' = cur /\ prev' = cur
  /\ UNCHANGED <<text, cur, live>>

\* The program exits; what it leaves behind matters to nobody.
Exit == live' = FALSE

Next ==
  /\ live
  /\ \/ Open \/ PushNewline \/ Deliver \/ DeliverIntoLexeme
     \/ MarkStart \/ MarkEnd \/ MoveBack \/ MarkPrev \/ MoveStart
     \/ \E n \in 1..MaxBack : Return(n)
     \/ \E c \in Chars : Replace(c)
     \/ Discard \/ Exit

Spec == Init /\ [][Next]_vars
=============================================================================
