----------------------------- MODULE InputBuffer -----------------------------
(***************************************************************************)
(* compiler/lib/input.c: the input system under every analyzer the tools   *)
(* generate, and under the tools' own analyzer.  One static buffer holds   *)
(* the previous lexeme, the current lexeme and the lookahead; it is        *)
(* shifted left and refilled when the next character comes within LOOK of  *)
(* the end of the text read.                                               *)
(*                                                                         *)
(* Each C function is an operator from the record of the static variables  *)
(* to the record they leave (to the SET of records it may leave, when it   *)
(* reads the file), so a function that calls others is their composition.  *)
(* Pointers are indexes from _start_buf.  The actions are the calls a      *)
(* client makes.  The client is bound by what every caller in the          *)
(* repository keeps to: after opening a file it advances before anything   *)
(* else (lex.m:104-109, 138-139), it does not advance or mark in a         *)
(* terminated buffer, and it forces a flush only after an advance was      *)
(* refused (lex.m:149-153, parser.lex:44-47, 138-139, main.c:203).         *)
(***************************************************************************)
EXTENDS Integers, Sequences, FiniteSets

CONSTANTS
  Chars,      \* the characters a file may hold, NUL and NL included
  NUL,        \* '\0', which also means "no character" in _termchar
  NL,         \* '\n'
  EOF,        \* what ii_look() returns past the end of file
  MAXLEX,     \* _MAX_LEXEME_LEN, 1024 in the code
  LOOK,       \* _MAX_LOOKAHEAD, 16 in the code
  Files,      \* the contents of the files that may be opened
  ShortReads, \* read() may return less than asked before the end of file
  ReadErrors, \* read() may fail
  PutBack,    \* the characters clients put back
  MaxBack,    \* bound: the most characters one pushback returns
  MaxChanges  \* bound: files opened after the first and characters put back

BUFSIZE == 3 * MAXLEX + 2 * LOOK
Index   == 0 .. BUFSIZE - 1
NULL    == -1

ASSUME BoundsAssumption ==
  /\ LOOK \in Nat \ {0} /\ MAXLEX \in Nat /\ LOOK < MAXLEX
  /\ MaxBack \in Nat \ {0} /\ MaxChanges \in Nat
ASSUME CharsAssumption ==
  /\ NUL \in Chars /\ NL \in Chars /\ NUL # NL /\ EOF \notin Chars
  /\ Files \subseteq Seq(Chars)
  /\ PutBack \subseteq Chars \ {NUL}
  /\ ShortReads \in BOOLEAN /\ ReadErrors \in BOOLEAN

VARIABLES
  b,          \* the static variables of input.c, and:
              \*   unread  characters of the open file not yet read
              \*   exit    why com_ferr() ended the program, or "no"
  text,       \* the stream: the open file, the newline ii_advance() pushes
              \* first, and what ii_unput() has put back
  line0,      \* the line number at the start of the stream
  ready,      \* ii_advance() has been called since the file was opened
  terminated, \* the client has called ii_term() and not yet ii_unterm()
  changes     \* files opened after the first and characters put back

vars == <<b, text, line0, ready, terminated, changes>>

-----------------------------------------------------------------------------
(* The functions of input.c. *)

ii_newfile(s, f) ==
  [s EXCEPT !.eof_read = FALSE, !.next = BUFSIZE, !.smark = BUFSIZE,
            !.pmark = NULL, !.emark = BUFSIZE, !.end_buf = BUFSIZE,
            !.lineno = 1, !.mline = 1, !.unread = Len(f)]

\* A faulty variant of an operator stands before it where a property is to be
\* shown to notice the fault (PROJECT.json, "mutants").
ii_mark_start_keeping_end(s) == [s EXCEPT !.mline = s.lineno, !.smark = s.next]
ii_mark_end_forgetting_line(s) == [s EXCEPT !.emark = s.next]

ii_mark_start(s) == [s EXCEPT !.mline = s.lineno, !.emark = s.next, !.smark = s.next]
ii_mark_end(s)   == [s EXCEPT !.mline = s.lineno, !.emark = s.next]
ii_move_start(s) == IF s.smark >= s.emark THEN s ELSE [s EXCEPT !.smark = @ + 1]
ii_move_back(s)  == [s EXCEPT !.lineno = s.mline, !.next = s.emark]
ii_mark_prev(s)  ==
  [s EXCEPT !.plineno = s.lineno, !.plength = s.emark - s.smark, !.pmark = s.smark]

NO_MORE_CHARS(s) == s.eof_read /\ s.next >= s.end_buf

\* The left edge of what a flush keeps: pmark or smark, whichever is smaller.
LeftEdge(s) == IF s.pmark # NULL /\ s.pmark < s.smark THEN s.pmark ELSE s.smark

InDanger_late(s) == s.next > s.end_buf - LOOK
InDanger(s) == s.next >= s.end_buf - LOOK
NoRoom(s)   == LeftEdge(s) < MAXLEX

\* ii_flush(0) returns -1.
Refused(s) == ~NO_MORE_CHARS(s) /\ ~s.eof_read /\ InDanger(s) /\ NoRoom(s)

\* How much ii_fillbuf() asks for when told to read at index "at".
Need_one_lexeme(at) == IF at + MAXLEX > BUFSIZE THEN 0 ELSE MAXLEX
Need(at) == ((BUFSIZE - at) \div MAXLEX) * MAXLEX

\* What read(2) may return when asked for "need" characters.
Counts(need, unread) ==
  LET most == IF need < unread THEN need ELSE unread
  IN {n \in 0 .. most : n = most \/ (ShortReads /\ n > 0)}

\* The memmove() of the text from the left edge on, and the "got" characters
\* of the stream that ii_fillbuf() reads behind it.
MovedText(s, got) ==
  LET left   == LeftEdge(s)
      copied == s.end_buf - left
  IN [i \in Index |->
        IF i < copied THEN s.buf[left + i]
        ELSE IF i < copied + got THEN text[Len(text) - s.unread + (i - copied) + 1]
        ELSE s.buf[i]]

Refill_null_moved(s, got) ==
  LET left == LeftEdge(s)
  IN [s EXCEPT !.buf = MovedText(s, got), !.end_buf = @ - left + got,
               !.eof_read = got < Need(s.end_buf - left), !.unread = @ - got,
               !.pmark = @ - left,
               !.smark = @ - left, !.emark = @ - left, !.next = @ - left]

Refill(s, got) ==
  LET left == LeftEdge(s)
  IN [s EXCEPT !.buf = MovedText(s, got), !.end_buf = @ - left + got,
               !.eof_read = got < Need(s.end_buf - left), !.unread = @ - got,
               !.pmark = IF @ = NULL THEN NULL ELSE @ - left,
               !.smark = @ - left, !.emark = @ - left, !.next = @ - left]

\* ii_fillbuf() returns 0 both when it has no room to read into and when the
\* file has no more to give, and ii_flush() takes either for a full buffer.
MoveAndFill(s) ==
  LET need == Need(s.end_buf - LeftEdge(s))
  IN {IF need = 0 \/ got = 0 THEN [s EXCEPT !.exit = "full"] ELSE Refill(s, got)
        : got \in Counts(need, s.unread)}
     \cup {[s EXCEPT !.exit = "error"] : x \in {e \in {1} : ReadErrors /\ need > 0}}

ii_flush_keeping_start(s, force) ==
  IF s.eof_read \/ ~(InDanger(s) \/ force) \/ (NoRoom(s) /\ ~force) THEN {s}
  ELSE MoveAndFill(s)

ii_flush(s, force) ==
  IF s.eof_read \/ ~(InDanger(s) \/ force) THEN {s}
  ELSE IF ~NoRoom(s) THEN MoveAndFill(s)
  ELSE IF force THEN MoveAndFill(ii_mark_prev(ii_mark_start(s)))
  ELSE {s}

\* The first call of the program pushes a newline into the empty buffer.
FirstCall(s) ==
  IF s.been_called THEN s
  ELSE [s EXCEPT !.next = BUFSIZE - 1, !.smark = BUFSIZE - 1, !.emark = BUFSIZE - 1,
                 !.pmark = NULL, !.buf[BUFSIZE - 1] = NL,
                 !.lineno = @ - 1, !.mline = @ - 1, !.been_called = TRUE]

Consume(s) ==
  [s EXCEPT !.lineno = IF s.buf[s.next] = NL THEN @ + 1 ELSE @, !.next = @ + 1]

ii_advance(s) ==
  LET s1 == FirstCall(s)
  IN IF NO_MORE_CHARS(s1) \/ Refused(s1) THEN {s1}
     ELSE {IF f.exit = "no" THEN Consume(f) ELSE f : f \in ii_flush(s1, FALSE)}

ii_look(s, n) ==
  CASE n > s.end_buf - s.next -> IF s.eof_read THEN EOF ELSE NUL
    [] n <= s.end_buf - s.next /\ n - 1 < -s.next -> NUL
    [] OTHER -> s.buf[s.next + n - 1]

ii_pushback_past_start(s, n) ==
  LET to == IF s.next - n > 0 THEN s.next - n ELSE 0
      lines == {i \in Index : to <= i /\ i < s.next /\ s.buf[i] \in {NL, NUL}}
      line  == s.lineno - Cardinality(lines)
  IN [s EXCEPT !.next = to, !.lineno = line,
               !.emark = IF to < @ THEN to ELSE @,
               !.mline = IF to < s.emark THEN line ELSE @]

\* ii_pushback(n): back n characters, but not beyond the start of the lexeme.
\* Each newline, and each NUL, passed takes one from the line number.
ii_pushback(s, n) ==
  LET to    == IF s.next - n > s.smark THEN s.next - n ELSE s.smark
      lines == {i \in Index : to <= i /\ i < s.next /\ s.buf[i] \in {NL, NUL}}
      line  == s.lineno - Cardinality(lines)
  IN [s EXCEPT !.next = to, !.lineno = line,
               !.emark = IF to < @ THEN to ELSE @,
               !.mline = IF to < s.emark THEN line ELSE @]

\* '\0' termination.  At the end of file _next may be _end_buf, and the
\* character saved is then whatever an earlier fill left there.
ii_term(s)   == [s EXCEPT !.termchar = s.buf[s.next], !.buf[s.next] = NUL]
ii_unterm(s) ==
  IF s.termchar = NUL THEN s
  ELSE [s EXCEPT !.buf[s.next] = s.termchar, !.termchar = NUL]

ii_input(s) ==
  {CASE f.exit # "no" -> f
     [] f.exit = "no" /\ s.termchar = NUL -> ii_mark_end(f)
     [] OTHER -> ii_term(ii_mark_end(f)) : f \in ii_advance(ii_unterm(s))}

\* The character is stored only if ii_pushback() says there is still text
\* left in the lexeme.
StoreBack(s, c) ==
  LET p == ii_pushback(s, 1)
  IN IF p.next > p.smark THEN [p EXCEPT !.buf[p.next] = c] ELSE p
ii_unput(s, c) ==
  IF s.termchar = NUL THEN StoreBack(s, c) ELSE ii_term(StoreBack(ii_unterm(s), c))

ii_lookahead(s, n) ==
  IF n = 1 /\ s.termchar # NUL THEN s.termchar ELSE ii_look(s, n)

ii_flushbuf(s) == ii_flush(ii_unterm(s), TRUE)

-----------------------------------------------------------------------------
(* The calls of a client. *)

\* Characters of the stream delivered so far.
Cur == Len(text) - b.unread - (b.end_buf - b.next)

TypeOfBuffer ==
  [buf : [Index -> Chars], end_buf : 0 .. BUFSIZE, next : 0 .. BUFSIZE,
   smark : 0 .. BUFSIZE, emark : 0 .. BUFSIZE, pmark : {NULL} \cup 0 .. BUFSIZE,
   plineno : Int, plength : Int, lineno : Int, mline : Int, termchar : Chars,
   eof_read : BOOLEAN, been_called : BOOLEAN, unread : Nat,
   exit : {"no", "full", "error"}]

Init ==
  /\ text \in Files
  /\ b = [buf |-> [i \in Index |-> NUL], end_buf |-> BUFSIZE, next |-> BUFSIZE,
          smark |-> BUFSIZE, emark |-> BUFSIZE, pmark |-> NULL,
          plineno |-> 0, plength |-> 0, lineno |-> 1, mline |-> 1, termchar |-> NUL,
          eof_read |-> FALSE, been_called |-> FALSE, unread |-> Len(text),
          exit |-> "no"]
  /\ line0 = 1 /\ ready = FALSE /\ terminated = FALSE /\ changes = 0

Running == b.exit = "no"
Open    == Running /\ ready /\ ~terminated  \* a file is open, the buffer is whole

NewFile ==
  /\ Running /\ ~terminated /\ changes < MaxChanges
  /\ \E f \in Files : text' = f /\ b' = ii_newfile(b, f)
  /\ line0' = 1 /\ ready' = FALSE /\ changes' = changes + 1
  /\ UNCHANGED terminated

Advance ==
  /\ Running /\ ~terminated
  /\ b' \in ii_advance(b)
  /\ IF b.been_called THEN UNCHANGED <<text, line0>>
     ELSE text' = <<NL>> \o text /\ line0' = line0 - 1
  /\ ready' = TRUE
  /\ UNCHANGED <<terminated, changes>>

MarkStart == Open /\ b' = ii_mark_start(b) /\ UNCHANGED <<text, line0, ready, terminated, changes>>
MarkEnd   == Open /\ b' = ii_mark_end(b)   /\ UNCHANGED <<text, line0, ready, terminated, changes>>
MoveStart == Open /\ b' = ii_move_start(b) /\ UNCHANGED <<text, line0, ready, terminated, changes>>
MoveBack  == Open /\ b' = ii_move_back(b)  /\ UNCHANGED <<text, line0, ready, terminated, changes>>

\* The parser marks the lexeme it has just shifted as the previous one, the
\* lexeme terminated or not.
MarkPrev ==
  /\ Running /\ ready
  /\ b' = ii_mark_prev(b)
  /\ UNCHANGED <<text, line0, ready, terminated, changes>>

Pushback ==
  /\ Open
  /\ \E n \in 1 .. MaxBack : b' = ii_pushback(b, n)
  /\ UNCHANGED <<text, line0, ready, terminated, changes>>

Term ==
  /\ Open
  /\ b' = ii_term(b)
  /\ terminated' = TRUE
  /\ UNCHANGED <<text, line0, ready, changes>>

Unterm ==
  /\ Running /\ terminated
  /\ b' = ii_unterm(b)
  /\ terminated' = FALSE
  /\ UNCHANGED <<text, line0, ready, changes>>

Input ==
  /\ Running /\ ready
  /\ b' \in ii_input(b)
  /\ UNCHANGED <<text, line0, ready, terminated, changes>>

Unput(c) ==
  /\ Running /\ ready /\ changes < MaxChanges
  /\ b' = ii_unput(b, c)
  /\ text' = IF b.next - 1 > b.smark THEN [text EXCEPT ![Cur] = c] ELSE text
  /\ changes' = changes + 1
  /\ UNCHANGED <<line0, ready, terminated>>

FlushBuf ==
  /\ Running /\ ready /\ Refused(b)
  /\ b' \in ii_flushbuf(b)
  /\ terminated' = FALSE
  /\ UNCHANGED <<text, line0, ready, changes>>

Next ==
  \/ NewFile \/ Advance \/ MarkStart \/ MarkEnd \/ MoveStart \/ MoveBack
  \/ MarkPrev \/ Pushback \/ Term \/ Unterm \/ Input
  \/ \E c \in PutBack : Unput(c)
  \/ FlushBuf

Spec == Init /\ [][Next]_vars

-----------------------------------------------------------------------------
(* Properties. *)

\* The static variables of input.c keep their types.
TypeOK ==
  /\ b \in TypeOfBuffer
  /\ text \in Seq(Chars) /\ line0 \in Int
  /\ ready \in BOOLEAN /\ terminated \in BOOLEAN /\ changes \in 0 .. MaxChanges

\* The marks stay in order inside the text read, whatever is flushed, pushed
\* back or moved (the picture at input.c:164-175); the terminator and the
\* last lexeme's terminator, which the parsers write through ii_ptext(), have
\* a place in the buffer.
MarksInOrder ==
  Running /\ ready =>
    /\ 0 <= b.smark /\ b.smark <= b.emark /\ b.emark <= b.next
    /\ b.next <= b.end_buf /\ b.next < BUFSIZE
    /\ b.pmark # NULL =>
         0 <= b.pmark /\ b.pmark <= b.smark /\ b.pmark + b.plength < BUFSIZE

\* From the previous lexeme on, and up to LOOK characters ahead, the buffer
\* shows the stream: no flush, pushback, terminator or refill loses, repeats
\* or moves a character, and ii_look() never runs out of text before the end
\* of file (the doubt of input.c:248).  At the end of file a terminated
\* buffer is excepted: ii_lookahead(1) is then a stale byte.  While a client
\* holds a terminated lexeme, ii_input() and ii_unput() included, the lexeme is
\* followed by its terminator, unless the character it replaces is itself NUL.
StreamAt(i) == IF i <= Len(text) THEN text[i] ELSE EOF
BufferShowsStream ==
  /\ Running /\ ready =>
       \A n \in (LeftEdge(b) - b.next + 1) .. LOOK :
         (n = 1 /\ Cur = Len(text) => b.termchar = NUL)
            => ii_lookahead(b, n) = StreamAt(Cur + n)
  /\ Running /\ terminated /\ b.termchar # NUL => b.buf[b.next] = NUL

\* _lineno is the line of the next character and _mline that of the end mark,
\* through pushbacks, moves back and characters put back.
LineOf(i) == line0 + Cardinality({j \in 1 .. i : text[j] = NL})
LinesCounted ==
  Running /\ ready =>
    /\ b.lineno = LineOf(Cur)
    /\ b.mline = LineOf(Cur - (b.next - b.emark))

\* A lexeme is refused ("lexeme too long", lex.m:149) only when it, with the
\* previous lexeme if that is still marked, is longer than MAXLEX + LOOK.
RefusedOnlyWhenLong ==
  Running /\ ready /\ Refused(b) => b.next - LeftEdge(b) > MAXLEX + LOOK

\* The program ends with "Buffer full, can't read" only when the file has no
\* more characters, never for want of room.
FullOnlyAtEndOfFile == b.exit = "full" => b.unread = 0

\* At the end of file ii_flush() returns 0 (input.c:180); it does not end the
\* program.
EndOfFileIsReturned == b.exit # "full"

\* Without the buffer this is CharStream.
Stream ==
  INSTANCE CharStream WITH
    Limit <- MAXLEX + LOOK, cur <- Cur,
    start <- Cur - (b.next - b.smark), end <- Cur - (b.next - b.emark),
    prev <- IF b.pmark = NULL THEN -1 ELSE Cur - (b.next - b.pmark),
    live <- Running
ImplementsCharStream == Stream!Spec
==============================================================================
