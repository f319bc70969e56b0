--------------------------- MODULE LexDriver_proofs ---------------------------
(***************************************************************************)
(* Proofs about LexDriver for every analyzer, file and buffer size: the    *)
(* driver calls the input system only in the ways it can bear, the action  *)
(* of a rule sees its lexeme, and what is accepted is the longest match.   *)
(* They rest on what InputBuffer_proofs says of each function.             *)
(***************************************************************************)
EXTENDS LexDriver, TLAPS

InP == INSTANCE InputBuffer_proofs WITH
         changes <- opens, MaxChanges <- MaxOpens,
         ShortReads <- FALSE, ReadErrors <- FALSE, PutBack <- Unputs, MaxBack <- 1,
         line0 <- IF first \/ opens > 0 THEN 1 ELSE 0,
         ready <- ~first /\ at # "load", terminated <- at = "action"

\* The instance's assumptions are the driver's.
LEMMA InputAssumed == InP!BoundsAssumption /\ InP!CharsAssumption
BY InputAssumption
   DEF In!BoundsAssumption, In!CharsAssumption,
       InP!BoundsAssumption, InP!CharsAssumption

-----------------------------------------------------------------------------
(* The operators of the two instances of InputBuffer, the one that the     *)
(* driver calls and the one under the proofs, are the same.                *)

\* The sizes.
LEMMA SameSizes ==
  In!BUFSIZE = InP!BUFSIZE /\ In!NULL = InP!NULL /\ In!Index = InP!Index
BY DEF In!BUFSIZE, InP!BUFSIZE, In!NULL, InP!NULL, In!Index, InP!Index

\* The types and the cursor.
LEMMA SameTypes ==
  In!TypeOfBuffer = InP!TypeOfBuffer /\ In!Cur = InP!Cur
BY SameSizes, Zenon DEF In!TypeOfBuffer, InP!TypeOfBuffer, In!Cur, InP!Cur

\* What one assignment or two write.
LEMMA SameMarks ==
  ASSUME NEW s
  PROVE  /\ In!ii_mark_start(s) = InP!ii_mark_start(s)
         /\ In!ii_mark_end(s) = InP!ii_mark_end(s)
         /\ In!ii_move_start(s) = InP!ii_move_start(s)
         /\ In!ii_move_back(s) = InP!ii_move_back(s)
         /\ In!ii_mark_prev(s) = InP!ii_mark_prev(s)
         /\ In!Consume(s) = InP!Consume(s)
         /\ In!ii_term(s) = InP!ii_term(s)
         /\ In!ii_unterm(s) = InP!ii_unterm(s)
BY Zenon
   DEF In!ii_mark_start, InP!ii_mark_start, In!ii_mark_end, InP!ii_mark_end,
       In!ii_move_start, InP!ii_move_start, In!ii_move_back, InP!ii_move_back,
       In!ii_mark_prev, InP!ii_mark_prev, In!Consume, InP!Consume,
       In!ii_term, InP!ii_term, In!ii_unterm, InP!ii_unterm

\* What decides whether an advance reads, and how much.
LEMMA SameGuards ==
  ASSUME NEW s, NEW n, NEW u
  PROVE  /\ In!LeftEdge(s) = InP!LeftEdge(s)
         /\ In!NO_MORE_CHARS(s) = InP!NO_MORE_CHARS(s)
         /\ In!InDanger(s) = InP!InDanger(s)
         /\ In!NoRoom(s) = InP!NoRoom(s)
         /\ In!Refused(s) = InP!Refused(s)
         /\ In!Need(n) = InP!Need(n)
         /\ In!Counts(n, u) = InP!Counts(n, u)
<1>1. In!LeftEdge(s) = InP!LeftEdge(s)
  BY SameSizes, Zenon DEF In!LeftEdge, InP!LeftEdge
<1>2. /\ In!NO_MORE_CHARS(s) = InP!NO_MORE_CHARS(s)
      /\ In!InDanger(s) = InP!InDanger(s)
  BY Zenon DEF In!NO_MORE_CHARS, InP!NO_MORE_CHARS, In!InDanger, InP!InDanger
<1>3. In!NoRoom(s) = InP!NoRoom(s)
  BY <1>1, Zenon DEF In!NoRoom, InP!NoRoom
<1>4. In!Refused(s) = InP!Refused(s)
  BY <1>2, <1>3, Zenon DEF In!Refused, InP!Refused
<1>5. In!Need(n) = InP!Need(n)
  BY SameSizes, Zenon DEF In!Need, InP!Need
<1>6. In!Counts(n, u) = InP!Counts(n, u)
  BY Zenon DEF In!Counts, InP!Counts
<1> QED BY <1>1, <1>2, <1>3, <1>4, <1>5, <1>6

\* A refill.
LEMMA SameRefill ==
  ASSUME NEW s, NEW got
  PROVE  In!Refill(s, got) = InP!Refill(s, got)
<1>1. In!MovedText(s, got) = InP!MovedText(s, got)
  BY SMT DEF In!MovedText, InP!MovedText, In!LeftEdge, InP!LeftEdge,
             In!Index, InP!Index, In!BUFSIZE, InP!BUFSIZE, In!NULL, InP!NULL
<1> QED BY <1>1, SameGuards, SameSizes, Zenon DEF In!Refill, InP!Refill

\* A flush.
LEMMA SameFlush ==
  ASSUME NEW s, NEW force
  PROVE  /\ In!ii_flush(s, force) = InP!ii_flush(s, force)
         /\ In!ii_flushbuf(s) = InP!ii_flushbuf(s)
<1>1. ASSUME NEW t PROVE In!MoveAndFill(t) = InP!MoveAndFill(t)
  <2>1. PICK need : /\ need = In!Need(t.end_buf - In!LeftEdge(t))
                    /\ need = InP!Need(t.end_buf - InP!LeftEdge(t))
    BY SameGuards, Zenon
  <2>2. In!Counts(need, t.unread) = InP!Counts(need, t.unread)
    BY SameGuards, Zenon
  <2>3. ASSUME NEW got PROVE In!Refill(t, got) = InP!Refill(t, got)
    BY SameRefill, Zenon
  <2> QED BY <2>1, <2>2, <2>3 DEF In!MoveAndFill, InP!MoveAndFill
<1>2. ASSUME NEW t, NEW f PROVE In!ii_flush(t, f) = InP!ii_flush(t, f)
  BY <1>1, SameMarks, SameGuards, Zenon DEF In!ii_flush, InP!ii_flush
<1> QED BY <1>2, SameMarks, Zenon DEF In!ii_flushbuf, InP!ii_flushbuf

\* An advance, and ii_input().
LEMMA SameAdvance ==
  ASSUME NEW s
  PROVE  /\ In!ii_advance(s) = InP!ii_advance(s)
         /\ In!ii_input(s) = InP!ii_input(s)
<1>1. ASSUME NEW t PROVE In!ii_advance(t) = InP!ii_advance(t)
  <2>1. In!FirstCall(t) = InP!FirstCall(t)
    BY SameSizes, Zenon DEF In!FirstCall, InP!FirstCall
  <2> QED BY <2>1, SameMarks, SameGuards, SameFlush, Zenon
          DEF In!ii_advance, InP!ii_advance
<1> QED BY <1>1, SameMarks, Zenon DEF In!ii_input, InP!ii_input

\* What goes back.
LEMMA SamePushback ==
  ASSUME NEW s, NEW n
  PROVE  /\ In!ii_pushback(s, n) = InP!ii_pushback(s, n)
         /\ In!ii_unput(s, n) = InP!ii_unput(s, n)
<1>1. ASSUME NEW t, NEW k PROVE In!ii_pushback(t, k) = InP!ii_pushback(t, k)
  BY SMT DEF In!ii_pushback, InP!ii_pushback, In!Index, InP!Index, In!BUFSIZE,
             InP!BUFSIZE, In!Cardinality, InP!Cardinality
<1>2. ASSUME NEW t, NEW c PROVE In!StoreBack(t, c) = InP!StoreBack(t, c)
  BY <1>1, Zenon DEF In!StoreBack, InP!StoreBack
<1> QED BY <1>1, <1>2, SameMarks, Zenon DEF In!ii_unput, InP!ii_unput

\* What is seen, and a file opened.
LEMMA SameLook ==
  ASSUME NEW s, NEW n
  PROVE  /\ In!ii_look(s, n) = InP!ii_look(s, n)
         /\ In!ii_lookahead(s, n) = InP!ii_lookahead(s, n)
         /\ In!ii_newfile(s, n) = InP!ii_newfile(s, n)
<1>1. In!ii_look(s, n) = InP!ii_look(s, n)
  BY Zenon DEF In!ii_look, InP!ii_look
<1>2. In!ii_newfile(s, n) = InP!ii_newfile(s, n)
  BY SameSizes, Zenon DEF In!ii_newfile, InP!ii_newfile
<1> QED BY <1>1, <1>2, Zenon DEF In!ii_lookahead, InP!ii_lookahead

-----------------------------------------------------------------------------
(* What the functions do to the places of the stream that the marks stand   *)
(* for.                                                                    *)

StartOf(s, x) == InP!Base(s, x) + s.smark
EndOf(s, x)   == InP!Base(s, x) + s.emark
PlaceOf(s, x) == InP!Base(s, x) + s.next

\* The marks of a buffer that holds its stream.
LEMMA HeldMarks ==
  ASSUME NEW s, NEW x, NEW l0, InP!Held(s, x, l0)
  PROVE  /\ s \in InP!TypeOfBuffer /\ s.exit = "no" /\ s.next < InP!BUFSIZE
         /\ InP!Base(s, x) \in Int /\ Len(x) \in Nat
         /\ StartOf(s, x) \in Nat /\ EndOf(s, x) \in Nat /\ PlaceOf(s, x) \in Nat
         /\ StartOf(s, x) <= EndOf(s, x) /\ EndOf(s, x) <= PlaceOf(s, x)
         /\ PlaceOf(s, x) <= Len(x)
         /\ s.smark \in Nat /\ s.emark \in Nat /\ s.next \in Nat
         /\ s.smark <= s.emark /\ s.emark <= s.next
         /\ PlaceOf(s, x) - StartOf(s, x) = s.next - s.smark
<1>1. /\ s \in InP!TypeOfBuffer /\ InP!Ordered(s) /\ s.next < InP!BUFSIZE
      /\ InP!Base(s, x) \in Int /\ InP!LeftEdge(s) \in Nat
      /\ InP!LeftEdge(s) <= s.smark /\ 0 <= InP!Base(s, x) + InP!LeftEdge(s)
      /\ Len(x) \in Nat
  BY InP!HeldFacts, InputAssumed
<1>2. s.exit = "no"
  BY DEF InP!Held, InP!Callable
<1>3. /\ s.next \in Nat /\ s.smark \in Nat /\ s.emark \in Nat
      /\ s.end_buf \in Nat /\ s.unread \in Nat
  BY <1>1, InP!Fields, InputAssumed
<1>4. s.smark <= s.emark /\ s.emark <= s.next /\ s.next <= s.end_buf
  BY <1>1 DEF InP!Ordered
<1>5. InP!Base(s, x) + s.end_buf <= Len(x)
  BY <1>1, <1>3 DEF InP!Base
<1>6. PICK base \in Int, left \in Nat, start \in Nat, end \in Nat, place \in Nat :
        /\ base = InP!Base(s, x) /\ left = InP!LeftEdge(s)
        /\ start = s.smark /\ end = s.emark /\ place = s.next
  BY <1>1, <1>3
<1>7. /\ StartOf(s, x) = base + start /\ EndOf(s, x) = base + end
      /\ PlaceOf(s, x) = base + place
  BY <1>6 DEF StartOf, EndOf, PlaceOf
<1>8. left <= start /\ 0 <= base + left /\ start <= end /\ end <= place
  BY <1>1, <1>4, <1>6
<1>9. base + place <= Len(x)
  BY <1>1, <1>3, <1>4, <1>5, <1>6
<1>10. /\ base + start \in Nat /\ base + end \in Nat /\ base + place \in Nat
       /\ base + start <= base + end /\ base + end <= base + place
       /\ (base + place) - (base + start) = place - start
  BY <1>8
<1>11. s.smark <= s.emark /\ s.emark <= s.next
  BY <1>4
<1> QED BY <1>1, <1>2, <1>3, <1>6, <1>7, <1>9, <1>10, <1>11

\* A lexeme begins inside the buffer.
LEMMA StartInBuffer ==
  ASSUME NEW s, NEW x, NEW l0, InP!Held(s, x, l0)
  PROVE  s.smark \in InP!Index
<1>1. /\ s.smark \in Nat /\ s.emark \in Nat /\ s.next \in Nat
      /\ s.smark <= s.emark /\ s.emark <= s.next /\ s.next < InP!BUFSIZE
  BY HeldMarks
<1>2. InP!BUFSIZE \in Nat
  BY InP!Sizes, InputAssumed
<1> QED BY <1>1, <1>2 DEF InP!Index

\* ii_mark_start(): the lexeme begins, and ends, at the cursor.
LEMMA MarkStartPlaces ==
  ASSUME NEW s, NEW x, NEW l0, InP!Held(s, x, l0), NEW t, t = In!ii_mark_start(s)
  PROVE  /\ InP!Held(t, x, l0) /\ t.termchar = s.termchar
         /\ t.been_called = s.been_called
         /\ StartOf(t, x) = PlaceOf(s, x) /\ EndOf(t, x) = PlaceOf(s, x)
         /\ PlaceOf(t, x) = PlaceOf(s, x)
<1>1. InP!Held(t, x, l0)
  BY SameMarks, InP!MarkStartAgrees, InputAssumed
<1>2. s \in InP!TypeOfBuffer
  BY HeldMarks
<1>3. /\ t.smark = s.next /\ t.emark = s.next /\ t.next = s.next
      /\ t.termchar = s.termchar /\ t.been_called = s.been_called
      /\ t.unread = s.unread /\ t.end_buf = s.end_buf
  BY <1>2 DEF In!ii_mark_start, InP!TypeOfBuffer
<1> QED BY <1>1, <1>3 DEF StartOf, EndOf, PlaceOf, InP!Base

\* ii_mark_end(): it ends there.
LEMMA MarkEndPlaces ==
  ASSUME NEW s, NEW x, NEW l0, InP!Held(s, x, l0), NEW t, t = In!ii_mark_end(s)
  PROVE  /\ InP!Held(t, x, l0) /\ t.termchar = s.termchar
         /\ t.been_called = s.been_called
         /\ StartOf(t, x) = StartOf(s, x) /\ EndOf(t, x) = PlaceOf(s, x)
         /\ PlaceOf(t, x) = PlaceOf(s, x)
<1>1. InP!Held(t, x, l0)
  BY SameMarks, InP!MarkEndAgrees, InputAssumed
<1>2. s \in InP!TypeOfBuffer
  BY HeldMarks
<1>3. /\ t.smark = s.smark /\ t.emark = s.next /\ t.next = s.next
      /\ t.termchar = s.termchar /\ t.been_called = s.been_called
      /\ t.unread = s.unread /\ t.end_buf = s.end_buf
  BY <1>2 DEF In!ii_mark_end, InP!TypeOfBuffer
<1> QED BY <1>1, <1>3 DEF StartOf, EndOf, PlaceOf, InP!Base

\* ii_move_start(): the lexeme loses its first character, if it has one.
LEMMA MoveStartPlaces ==
  ASSUME NEW s, NEW x, NEW l0, InP!Held(s, x, l0), NEW t, t = In!ii_move_start(s)
  PROVE  /\ InP!Held(t, x, l0) /\ t.termchar = s.termchar
         /\ t.been_called = s.been_called
         /\ StartOf(t, x) = (IF StartOf(s, x) < EndOf(s, x) THEN StartOf(s, x) + 1
                             ELSE StartOf(s, x))
         /\ EndOf(t, x) = EndOf(s, x) /\ PlaceOf(t, x) = PlaceOf(s, x)
         /\ t.next = s.next /\ t.emark = s.emark
<1>1. InP!Held(t, x, l0)
  BY SameMarks, InP!MoveStartAgrees, InputAssumed
<1>2. s \in InP!TypeOfBuffer /\ s.smark \in Nat /\ s.emark \in Nat /\ InP!Base(s, x) \in Int
  BY HeldMarks
<1>3. /\ t.smark = (IF s.smark < s.emark THEN s.smark + 1 ELSE s.smark)
      /\ t.emark = s.emark /\ t.next = s.next
      /\ t.termchar = s.termchar /\ t.been_called = s.been_called
      /\ t.unread = s.unread /\ t.end_buf = s.end_buf
  BY <1>2 DEF In!ii_move_start, InP!TypeOfBuffer
<1>4. InP!Base(t, x) = InP!Base(s, x)
  BY <1>3 DEF InP!Base
<1> QED BY <1>1, <1>2, <1>3, <1>4 DEF StartOf, EndOf, PlaceOf

\* ii_move_back(): back to where the lexeme ends.
LEMMA MoveBackPlaces ==
  ASSUME NEW s, NEW x, NEW l0, InP!Held(s, x, l0), s.termchar = NUL,
         NEW t, t = In!ii_move_back(s)
  PROVE  /\ InP!Held(t, x, l0) /\ t.termchar = s.termchar
         /\ t.been_called = s.been_called
         /\ StartOf(t, x) = StartOf(s, x) /\ EndOf(t, x) = EndOf(s, x)
         /\ PlaceOf(t, x) = EndOf(s, x) /\ t.next = t.emark
<1>1. InP!Held(t, x, l0)
  BY SameMarks, InP!MoveBackAgrees, InputAssumed
<1>2. s \in InP!TypeOfBuffer
  BY HeldMarks
<1>3. /\ t.smark = s.smark /\ t.emark = s.emark /\ t.next = s.emark
      /\ t.termchar = s.termchar /\ t.been_called = s.been_called
      /\ t.unread = s.unread /\ t.end_buf = s.end_buf
  BY <1>2 DEF In!ii_move_back, InP!TypeOfBuffer
<1> QED BY <1>1, <1>3 DEF StartOf, EndOf, PlaceOf, InP!Base

\* ii_mark_prev(): nothing of the lexeme.
LEMMA MarkPrevPlaces ==
  ASSUME NEW s, NEW x, NEW l0, InP!Held(s, x, l0), NEW t, t = In!ii_mark_prev(s)
  PROVE  /\ InP!Held(t, x, l0) /\ t.termchar = s.termchar
         /\ t.been_called = s.been_called
<1>1. InP!Held(t, x, l0)
  BY SameMarks, InP!MarkPrevAgrees, InputAssumed
<1>2. s \in InP!TypeOfBuffer
  BY HeldMarks
<1>3. t.termchar = s.termchar /\ t.been_called = s.been_called
  BY <1>2 DEF In!ii_mark_prev, InP!TypeOfBuffer
<1> QED BY <1>1, <1>3

\* ii_pushback(): back, but not beyond the start of the lexeme.
LEMMA PushbackPlaces ==
  ASSUME NEW s, NEW x, NEW l0, InP!Held(s, x, l0), s.termchar = NUL, NEW n \in Nat,
         NEW t, t = In!ii_pushback(s, n)
  PROVE  /\ InP!Held(t, x, l0) /\ t.termchar = s.termchar
         /\ t.been_called = s.been_called
         /\ t.next = (IF s.next - n > s.smark THEN s.next - n ELSE s.smark)
         /\ t.smark = s.smark
         /\ StartOf(t, x) = StartOf(s, x)
         /\ PlaceOf(t, x) = (IF PlaceOf(s, x) - n > StartOf(s, x)
                             THEN PlaceOf(s, x) - n ELSE StartOf(s, x))
         /\ EndOf(t, x) = (IF PlaceOf(t, x) < EndOf(s, x) THEN PlaceOf(t, x)
                           ELSE EndOf(s, x))
<1>1. InP!Held(t, x, l0)
  BY SamePushback, InP!PushbackAgrees, InputAssumed
<1>2. /\ s \in InP!TypeOfBuffer /\ s.smark \in Nat /\ s.emark \in Nat /\ s.next \in Nat
      /\ InP!Base(s, x) \in Int
  BY HeldMarks
<1>3. /\ t.next = (IF s.next - n > s.smark THEN s.next - n ELSE s.smark)
      /\ t.smark = s.smark
      /\ t.emark = (IF t.next < s.emark THEN t.next ELSE s.emark)
      /\ t.termchar = s.termchar /\ t.been_called = s.been_called
      /\ t.unread = s.unread /\ t.end_buf = s.end_buf
  BY <1>2 DEF In!ii_pushback, InP!TypeOfBuffer
<1>4. InP!Base(t, x) = InP!Base(s, x)
  BY <1>3 DEF InP!Base
<1> QED BY <1>1, <1>2, <1>3, <1>4 DEF StartOf, EndOf, PlaceOf

\* ii_term() and ii_unterm(): no mark.
LEMMA TermPlaces ==
  ASSUME NEW s, NEW x, NEW l0, InP!Held(s, x, l0), s.termchar = NUL,
         NEW t, t = In!ii_term(s)
  PROVE  /\ InP!Held(t, x, l0) /\ t.been_called = s.been_called
         /\ t.smark = s.smark /\ t.emark = s.emark /\ t.next = s.next
         /\ StartOf(t, x) = StartOf(s, x) /\ EndOf(t, x) = EndOf(s, x)
         /\ PlaceOf(t, x) = PlaceOf(s, x)
<1>1. InP!Held(t, x, l0)
  BY SameMarks, InP!TermAgrees, InputAssumed
<1>2. s \in InP!TypeOfBuffer
  BY HeldMarks
<1>3. /\ t.smark = s.smark /\ t.emark = s.emark /\ t.next = s.next
      /\ t.been_called = s.been_called
      /\ t.unread = s.unread /\ t.end_buf = s.end_buf
  BY <1>2 DEF In!ii_term, InP!TypeOfBuffer
<1> QED BY <1>1, <1>3 DEF StartOf, EndOf, PlaceOf, InP!Base

\* Taking the terminator away moves no mark.
LEMMA UntermPlaces ==
  ASSUME NEW s, NEW x, NEW l0, InP!Held(s, x, l0), NEW t, t = In!ii_unterm(s)
  PROVE  /\ InP!Held(t, x, l0) /\ t.termchar = NUL /\ t.been_called = s.been_called
         /\ t.smark = s.smark /\ t.emark = s.emark /\ t.next = s.next
         /\ t.pmark = s.pmark /\ t.end_buf = s.end_buf /\ t.eof_read = s.eof_read
         /\ t.unread = s.unread
         /\ StartOf(t, x) = StartOf(s, x) /\ EndOf(t, x) = EndOf(s, x)
         /\ PlaceOf(t, x) = PlaceOf(s, x)
<1>1. /\ InP!Held(t, x, l0) /\ t.termchar = NUL /\ t.been_called = s.been_called
      /\ t.smark = s.smark /\ t.emark = s.emark /\ t.next = s.next
      /\ t.pmark = s.pmark /\ t.end_buf = s.end_buf /\ t.eof_read = s.eof_read
      /\ t.unread = s.unread
  BY SameMarks, InP!UntermAgrees, InputAssumed
<1> QED BY <1>1 DEF StartOf, EndOf, PlaceOf, InP!Base

-----------------------------------------------------------------------------
(* The functions that read.                                                *)

\* A read that fails changes nothing else.
LEMMA FlushFails ==
  ASSUME NEW s \in InP!TypeOfBuffer, s.exit = "no", NEW f \in In!MoveAndFill(s),
         f.exit # "no"
  PROVE  f = [s EXCEPT !.exit = "full"]
<1>1. PICK need : need = In!Need(s.end_buf - In!LeftEdge(s))
  OBVIOUS
<1>2. \/ \E got \in In!Counts(need, s.unread) :
           f = IF need = 0 \/ got = 0 THEN [s EXCEPT !.exit = "full"]
               ELSE In!Refill(s, got)
      \/ \E x \in {e \in {1} : FALSE /\ need > 0} : f = [s EXCEPT !.exit = "error"]
  BY <1>1, Zenon DEF In!MoveAndFill
<1>3. PICK got : f = IF need = 0 \/ got = 0 THEN [s EXCEPT !.exit = "full"]
                     ELSE In!Refill(s, got)
  BY <1>2
<1>4. In!Refill(s, got).exit = s.exit
  BY DEF In!Refill, InP!TypeOfBuffer
<1> QED BY <1>3, <1>4

\* The one failure of ii_advance() once the input is open: no room, and nothing moved.
LEMMA AdvanceFails ==
  ASSUME NEW s \in InP!TypeOfBuffer, s.exit = "no", s.been_called,
         NEW f \in In!ii_advance(s), f.exit # "no"
  PROVE  f = [s EXCEPT !.exit = "full"]
<1>1. In!FirstCall(s) = s
  BY DEF In!FirstCall
<1>2. f # s
  OBVIOUS
<1>3. PICK g \in In!ii_flush(s, FALSE) : f = IF g.exit = "no" THEN In!Consume(g) ELSE g
  BY <1>1, <1>2, Zenon DEF In!ii_advance
<1>4. CASE g \in In!MoveAndFill(s)
  <2>1. CASE g.exit = "no"
    <3>1. \/ g = [s EXCEPT !.exit = "full"]
          \/ \E got : g = In!Refill(s, got)
      BY <1>4 DEF In!MoveAndFill
    <3>2. In!Consume(g).exit = "no"
      BY <2>1, <3>1 DEF In!Consume, In!Refill, InP!TypeOfBuffer
    <3> QED BY <1>3, <2>1, <3>2
  <2> QED BY <1>3, <1>4, <2>1, FlushFails
<1>5. CASE g = s
  <2>1. In!Consume(s).exit = "no"
    BY DEF In!Consume, InP!TypeOfBuffer
  <2> QED BY <1>3, <1>5, <2>1
<1> QED BY <1>3, <1>4, <1>5 DEF In!ii_flush

\* ii_advance(): a character further, unless there is none or the lexeme is
\* too long.
LEMMA AdvancePlaces ==
  ASSUME NEW s, NEW l0, InP!Held(s, text, l0), s.been_called, text \in Seq(Chars),
         s.termchar = NUL, NEW f \in In!ii_advance(s), f.exit = "no"
  PROVE  /\ InP!Held(f, text, l0) /\ f.termchar = NUL /\ f.been_called
         /\ \/ f = s /\ (In!NO_MORE_CHARS(s) \/ In!Refused(s))
            \/ /\ StartOf(f, text) = StartOf(s, text) /\ EndOf(f, text) = EndOf(s, text)
               /\ PlaceOf(f, text) = PlaceOf(s, text) + 1
               /\ PlaceOf(s, text) < Len(text)
<1>1. f \in InP!ii_advance(s)
  BY SameAdvance
<1>2. InP!Callable(s)
  BY DEF InP!Held
<1>3. f.been_called
  BY <1>1, <1>2, InP!AdvanceReady, InputAssumed
<1>4. /\ InP!Held(f, text, l0) /\ f.termchar = NUL
      /\ \/ f = s /\ (InP!NO_MORE_CHARS(s) \/ InP!Refused(s))
         \/ InP!Delivered(s, f, text)
  BY <1>1, InP!AdvanceAgrees, InputAssumed
<1>5. /\ InP!NO_MORE_CHARS(s) <=> In!NO_MORE_CHARS(s)
      /\ InP!Refused(s) <=> In!Refused(s)
  BY SameGuards
<1> QED BY <1>3, <1>4, <1>5
        DEF InP!Delivered, InP!SamePlaces, InP!Position, StartOf, EndOf, PlaceOf

\* The first ii_advance() for a file, pushed back: the buffer is loaded, and
\* the lexeme begins with the stream.
LEMMA LoadPlaces ==
  ASSUME NEW s, NEW l0, InP!Opened(s, l0), text \in Seq(Chars),
         NEW f \in In!ii_advance(s), f.exit = "no",
         NEW x, x = InP!Streamed(s), NEW t, t = In!ii_pushback(f, 1)
  PROVE  /\ InP!Held(t, x, InP!FirstLine(s, l0)) /\ t.termchar = NUL /\ t.been_called
         /\ StartOf(t, x) = 0 /\ EndOf(t, x) = 0 /\ PlaceOf(t, x) = 0
<1>1. f \in InP!ii_advance(s)
  BY SameAdvance
<1>2. /\ InP!Legal(s) /\ s.exit = "no" /\ InP!Fresh(s)
  BY DEF InP!Opened
<1>3. f.been_called
  BY <1>1, <1>2, InP!AdvanceFresh, InputAssumed
<1>4. /\ InP!Held(f, x, InP!FirstLine(s, l0)) /\ f.termchar = NUL
      /\ InP!Started(f, x)
  BY <1>1, InP!AdvanceFreshAgrees, InputAssumed
<1>5. PlaceOf(f, x) = 1 /\ StartOf(f, x) = 0 /\ EndOf(f, x) = 0
  BY <1>4 DEF InP!Started, InP!Position, StartOf, EndOf, PlaceOf
<1> QED BY <1>3, <1>4, <1>5, PushbackPlaces

\* What is looked at is the next character of the stream, saved by the
\* terminator or not, and EOF when there is none.
LEMMA LookIsNext ==
  ASSUME NEW s, NEW x, NEW l0, InP!Held(s, x, l0)
  PROVE  /\ PlaceOf(s, x) < Len(x) =>
              /\ In!ii_lookahead(s, 1) = x[PlaceOf(s, x) + 1]
              /\ s.termchar = NUL => In!ii_look(s, 1) = x[PlaceOf(s, x) + 1]
              /\ ~In!NO_MORE_CHARS(s)
         /\ PlaceOf(s, x) = Len(x) => In!ii_look(s, 1) = EOF /\ In!NO_MORE_CHARS(s)
<1>1. /\ s \in InP!TypeOfBuffer /\ InP!Sound(s) /\ InP!Shows(s, x)
      /\ InP!LeftEdge(s) \in Nat /\ InP!LeftEdge(s) <= s.smark /\ InP!Base(s, x) \in Int
      /\ Len(x) \in Nat
  BY InP!HeldFacts, InputAssumed
<1>2. /\ s.next \in Nat /\ s.smark \in Nat /\ s.end_buf \in Nat /\ s.unread \in Nat
  BY <1>1, InP!Fields, InputAssumed
<1>3. s.smark <= s.next /\ s.next <= s.end_buf
  BY <1>1, HeldMarks DEF InP!Sound, InP!Ordered
<1>4. PICK base \in Int, place \in Nat, end \in Nat, left \in Nat :
        /\ base = InP!Base(s, x) /\ place = s.next /\ end = s.end_buf
        /\ left = InP!LeftEdge(s)
  BY <1>1, <1>2
<1>5. left <= place /\ place <= end /\ PlaceOf(s, x) = base + place
  BY <1>1, <1>2, <1>3, <1>4 DEF PlaceOf
<1>6. Len(x) = base + end + s.unread
  BY <1>1, <1>2, <1>4 DEF InP!Base
<1>7. LOOK \in Nat /\ 0 < LOOK
  BY InputAssumed DEF InP!BoundsAssumption
<1>8. ~s.eof_read => place < end
  BY <1>1, <1>4, <1>5, <1>7 DEF InP!Sound
<1>9. s.eof_read => s.unread = 0
  BY <1>1 DEF InP!Shows
<1>10. ASSUME PlaceOf(s, x) < Len(x)
       PROVE  /\ place < end
              /\ s.termchar = NUL => s.buf[place] = x[base + place + 1]
              /\ s.termchar # NUL => s.termchar = x[base + place + 1]
  <2>1. place < end
    BY <1>2, <1>5, <1>6, <1>8, <1>9, <1>10
  <2>2. place \in left .. end - 1
    BY <1>5, <2>1
  <2> QED BY <1>1, <1>4, <2>1, <2>2 DEF InP!Shows
<1>11. ASSUME PlaceOf(s, x) < Len(x)
       PROVE  In!ii_look(s, 1) = s.buf[place]
  BY <1>4, <1>10, <1>11 DEF In!ii_look
<1>12. ASSUME PlaceOf(s, x) < Len(x)
       PROVE  ~In!NO_MORE_CHARS(s)
  BY <1>4, <1>10, <1>12 DEF In!NO_MORE_CHARS
<1>13. ASSUME PlaceOf(s, x) = Len(x)
       PROVE  In!ii_look(s, 1) = EOF /\ In!NO_MORE_CHARS(s)
  <2>1. place = end
    BY <1>2, <1>5, <1>6, <1>13
  <2>2. s.eof_read
    BY <1>8, <2>1
  <2> QED BY <1>4, <2>1, <2>2 DEF In!ii_look, In!NO_MORE_CHARS
<1> QED BY <1>4, <1>5, <1>10, <1>11, <1>12, <1>13 DEF In!ii_lookahead

\* ii_input(): the lexeme ends at the cursor, which has moved if it could.
LEMMA InputPlaces ==
  ASSUME NEW s, NEW l0, InP!Held(s, text, l0), s.been_called, text \in Seq(Chars),
         ~In!Refused(In!ii_unterm(s)), NEW f \in In!ii_input(s)
  PROVE  /\ f.exit = "no" =>
              /\ InP!Held(f, text, l0) /\ f.been_called
              /\ s.termchar = NUL => f.termchar = NUL
              /\ StartOf(f, text) = StartOf(s, text)
              /\ PlaceOf(f, text) = (IF PlaceOf(s, text) < Len(text)
                                     THEN PlaceOf(s, text) + 1 ELSE PlaceOf(s, text))
         /\ f.exit = "no" /\ PlaceOf(s, text) = Len(text) => f.smark = s.smark
         /\ f.exit # "no" => f \in InP!TypeOfBuffer /\ f.smark = s.smark
<1>1. PICK u : u = In!ii_unterm(s)
  OBVIOUS
<1>2. /\ InP!Held(u, text, l0) /\ u.termchar = NUL /\ u.been_called
      /\ u.smark = s.smark /\ PlaceOf(u, text) = PlaceOf(s, text)
  BY <1>1, UntermPlaces
<1>3. u \in InP!TypeOfBuffer /\ u.exit = "no"
  BY <1>2, HeldMarks
<1>4. PICK g \in In!ii_advance(u) :
        f = CASE g.exit # "no" -> g
              [] g.exit = "no" /\ s.termchar = NUL -> In!ii_mark_end(g)
              [] OTHER -> In!ii_term(In!ii_mark_end(g))
  BY <1>1 DEF In!ii_input
<1>5. ASSUME f.exit # "no" PROVE f \in InP!TypeOfBuffer /\ f.smark = s.smark
  <2>1. g.exit # "no"
    <3> SUFFICES ASSUME g.exit = "no" PROVE FALSE
      OBVIOUS
    <3>1. InP!Held(g, text, l0) /\ g.termchar = NUL
      BY <1>2, <1>4, AdvancePlaces
    <3>2. PICK m : m = In!ii_mark_end(g)
      OBVIOUS
    <3>3. InP!Held(m, text, l0) /\ m.termchar = NUL
      BY <3>1, <3>2, MarkEndPlaces
    <3>4. PICK t : t = In!ii_term(m)
      OBVIOUS
    <3>5. InP!Held(t, text, l0)
      BY <3>3, <3>4, TermPlaces
    <3>6. m.exit = "no" /\ t.exit = "no"
      BY <3>3, <3>5, HeldMarks
    <3>7. f = m \/ f = t
      BY <1>4, <3>2, <3>4
    <3> QED BY <1>5, <3>6, <3>7
  <2>2. g = [u EXCEPT !.exit = "full"] /\ f = g
    BY <1>2, <1>3, <1>4, <2>1, AdvanceFails
  <2> QED BY <1>2, <1>3, <2>2 DEF InP!TypeOfBuffer
<1>6. ASSUME f.exit = "no"
      PROVE  /\ InP!Held(f, text, l0) /\ f.been_called
             /\ s.termchar = NUL => f.termchar = NUL
             /\ StartOf(f, text) = StartOf(s, text)
             /\ PlaceOf(f, text) = (IF PlaceOf(s, text) < Len(text)
                                    THEN PlaceOf(s, text) + 1 ELSE PlaceOf(s, text))
  <2>1. f \in InP!ii_input(s)
    BY SameAdvance
  <2>2. InP!Callable(s)
    BY DEF InP!Held
  <2>3. f.been_called
    BY <2>1, <2>2, InP!InputReady, InputAssumed
  <2>4. /\ InP!Held(f, text, l0) /\ (s.termchar = NUL => f.termchar = NUL)
        /\ InP!Extended(s, f, text)
        /\ \/ InP!NO_MORE_CHARS(InP!ii_unterm(s)) \/ InP!Refused(InP!ii_unterm(s))
           \/ InP!Position(f, text) = InP!Position(s, text) + 1
    BY <1>6, <2>1, InP!InputAgrees, InputAssumed
  <2>5. /\ InP!ii_unterm(s) = u /\ ~InP!Refused(u)
        /\ InP!NO_MORE_CHARS(u) <=> In!NO_MORE_CHARS(u)
    BY <1>1, SameMarks, SameGuards
  <2>6. /\ StartOf(f, text) = StartOf(s, text)
        /\ \/ PlaceOf(f, text) = PlaceOf(s, text)
           \/ PlaceOf(f, text) = PlaceOf(s, text) + 1 /\ PlaceOf(s, text) < Len(text)
    BY <2>4 DEF InP!Extended, InP!Position, StartOf, PlaceOf
  <2>7. PlaceOf(s, text) < Len(text) => PlaceOf(f, text) = PlaceOf(s, text) + 1
    BY <1>2, <2>4, <2>5, LookIsNext DEF InP!Position, PlaceOf
  <2> QED BY <2>3, <2>4, <2>6, <2>7
<1>7. ASSUME f.exit = "no", PlaceOf(s, text) = Len(text) PROVE f.smark = s.smark
  <2>1. In!NO_MORE_CHARS(u)
    BY <1>2, <1>7, LookIsNext
  <2>2. g = u
    <3>1. In!FirstCall(u) = u
      BY <1>2 DEF In!FirstCall
    <3> QED BY <1>4, <2>1, <3>1 DEF In!ii_advance
  <2>3. PICK m : m = In!ii_mark_end(u)
    OBVIOUS
  <2>4. m.smark = u.smark /\ In!ii_term(m).smark = m.smark
    BY <1>3, <2>3 DEF In!ii_mark_end, In!ii_term, InP!TypeOfBuffer
  <2>5. f = m \/ f = In!ii_term(m)
    BY <1>3, <1>4, <2>2, <2>3
  <2> QED BY <1>2, <2>4, <2>5
<1> QED BY <1>5, <1>6, <1>7

\* A lexeme refused stays what it is.
LEMMA InputRefused ==
  ASSUME NEW s, NEW l0, InP!Held(s, text, l0), s.been_called,
         In!Refused(In!ii_unterm(s)), NEW f \in In!ii_input(s)
  PROVE  InP!Held(f, text, l0) /\ f.been_called /\ In!Refused(f)
<1>1. PICK u : u = In!ii_unterm(s)
  OBVIOUS
<1>2. /\ InP!Held(u, text, l0) /\ u.termchar = NUL /\ u.been_called
      /\ u \in InP!TypeOfBuffer /\ u.exit = "no" /\ In!Refused(u)
  BY <1>1, UntermPlaces, HeldMarks
<1>3. In!ii_advance(u) = {u}
  BY <1>2 DEF In!ii_advance, In!FirstCall
<1>4. PICK m : m = In!ii_mark_end(u)
  OBVIOUS
<1>5. InP!Held(m, text, l0) /\ m.termchar = NUL /\ m.been_called
  BY <1>2, <1>4, MarkEndPlaces
<1>6. PICK t : t = In!ii_term(m)
  OBVIOUS
<1>7. InP!Held(t, text, l0) /\ t.been_called
  BY <1>5, <1>6, TermPlaces
<1>8. f = m \/ f = t
  BY <1>1, <1>2, <1>3, <1>4, <1>6 DEF In!ii_input
<1>9. /\ f.eof_read = u.eof_read /\ f.next = u.next /\ f.end_buf = u.end_buf
      /\ f.smark = u.smark /\ f.pmark = u.pmark
  BY <1>2, <1>4, <1>6, <1>8 DEF In!ii_mark_end, In!ii_term, InP!TypeOfBuffer
<1>10. In!Refused(f)
  BY <1>2, <1>9
     DEF In!Refused, In!NO_MORE_CHARS, In!InDanger, In!NoRoom, In!LeftEdge
<1> QED BY <1>5, <1>7, <1>8, <1>10

\* ii_flushbuf() of a lexeme refused.
LEMMA FlushPlaces ==
  ASSUME NEW s, NEW l0, InP!Held(s, text, l0), s.been_called, text \in Seq(Chars),
         In!Refused(s), NEW f \in In!ii_flushbuf(s)
  PROVE  /\ f.exit = "no" =>
              InP!Held(f, text, l0) /\ f.termchar = NUL /\ f.been_called
         /\ f.exit # "no" => f \in InP!TypeOfBuffer /\ f.next < InP!BUFSIZE
<1>1. f \in InP!ii_flushbuf(s) /\ InP!Refused(s)
  BY SameFlush, SameGuards
<1>2. ASSUME f.exit = "no"
      PROVE  InP!Held(f, text, l0) /\ f.termchar = NUL /\ f.been_called
  <2>1. InP!Callable(s)
    BY DEF InP!Held
  <2> QED BY <1>1, <1>2, <2>1, InP!FlushReady, InP!FlushAgrees, InputAssumed
<1>3. ASSUME f.exit # "no" PROVE f \in InP!TypeOfBuffer /\ f.next < InP!BUFSIZE
  <2>1. PICK u : u = In!ii_unterm(s)
    OBVIOUS
  <2>2. InP!Held(u, text, l0) /\ u \in InP!TypeOfBuffer /\ u.exit = "no"
        /\ u.next < InP!BUFSIZE
    BY <2>1, UntermPlaces, HeldMarks
  <2>3. PICK a, m : a = In!ii_mark_start(u) /\ m = In!ii_mark_prev(a)
    OBVIOUS
  <2>4. InP!Held(m, text, l0) /\ m \in InP!TypeOfBuffer /\ m.exit = "no"
        /\ m.next < InP!BUFSIZE
    BY <2>2, <2>3, MarkStartPlaces, MarkPrevPlaces, HeldMarks
  <2>5. f = u \/ f \in In!MoveAndFill(u) \/ f \in In!MoveAndFill(m)
    BY <2>1, <2>3 DEF In!ii_flushbuf, In!ii_flush
  <2>6. f = [u EXCEPT !.exit = "full"] \/ f = [m EXCEPT !.exit = "full"]
    BY <1>3, <2>2, <2>4, <2>5, FlushFails
  <2> QED BY <2>2, <2>4, <2>6 DEF InP!TypeOfBuffer
<1> QED BY <1>2, <1>3

\* ii_unput(): a character back, and in its place the one that was put.
LEMMA UnputPlaces ==
  ASSUME NEW s, NEW l0, InP!Held(s, text, l0), text \in Seq(Chars),
         NEW c \in Chars \ {NUL}, NEW t, t = In!ii_unput(s, c),
         NEW x, x = InP!PutInto(s, text, c)
  PROVE  /\ InP!Held(t, x, l0) /\ t.been_called = s.been_called
         /\ s.termchar = NUL => t.termchar = NUL
         /\ x \in Seq(Chars) /\ Len(x) = Len(text)
         /\ t.smark = s.smark /\ StartOf(t, x) = StartOf(s, text)
         /\ s.next - s.smark > 0 => t.next = s.next - 1
<1>1. t = InP!ii_unput(s, c)
  BY SamePushback
<1>2. InP!Held(t, x, l0) /\ (s.termchar = NUL => t.termchar = NUL)
  BY <1>1, InP!UnputAgrees, InputAssumed
<1>3. x \in Seq(Chars) /\ Len(x) = Len(text)
  BY InP!ReplacedCharacter, InputAssumed DEF InP!PutInto
<1>4. PICK u : u = (IF s.termchar = NUL THEN s ELSE In!ii_unterm(s))
  OBVIOUS
<1>5. /\ InP!Held(u, text, l0) /\ u.termchar = NUL /\ u.been_called = s.been_called
      /\ u.smark = s.smark /\ u.next = s.next /\ u.unread = s.unread
      /\ u.end_buf = s.end_buf /\ u.smark \in Nat /\ u.next \in Nat
      /\ u \in InP!TypeOfBuffer
  <2>1. CASE s.termchar = NUL
    BY <1>4, <2>1, HeldMarks
  <2>2. CASE s.termchar # NUL
    <3>1. u = In!ii_unterm(s)
      BY <1>4, <2>2
    <3>2. /\ InP!Held(u, text, l0) /\ u.termchar = NUL
          /\ u.been_called = s.been_called /\ u.smark = s.smark /\ u.next = s.next
          /\ u.unread = s.unread /\ u.end_buf = s.end_buf
      BY <3>1, UntermPlaces
    <3> QED BY <3>2, HeldMarks
  <2> QED BY <2>1, <2>2
<1>6. PICK p : p = In!ii_pushback(u, 1)
  OBVIOUS
<1>7. /\ s.next - s.smark > 0 => p.next = s.next - 1
      /\ p.smark = u.smark /\ p.unread = u.unread
      /\ p.end_buf = u.end_buf /\ p.been_called = u.been_called
      /\ p \in InP!TypeOfBuffer
  <2>1. p.next = (IF u.next - 1 > u.smark THEN u.next - 1 ELSE u.smark)
        /\ InP!Held(p, text, l0) /\ p.smark = u.smark /\ p.been_called = u.been_called
    BY <1>5, <1>6, PushbackPlaces
  <2>2. p.unread = u.unread /\ p.end_buf = u.end_buf
    BY <1>5, <1>6 DEF In!ii_pushback, InP!TypeOfBuffer
  <2>3. p \in InP!TypeOfBuffer
    BY <2>1, HeldMarks
  <2>4. PICK next \in Nat, start \in Nat : next = u.next /\ start = u.smark
    BY <1>5
  <2>5. next - start > 0 => p.next = next - 1
    BY <2>1, <2>4
  <2> QED BY <1>5, <2>1, <2>2, <2>3, <2>4, <2>5
<1>8. PICK q : q = In!StoreBack(u, c)
  OBVIOUS
<1>9. /\ q.next = p.next /\ q.smark = p.smark /\ q.unread = p.unread
      /\ q.end_buf = p.end_buf /\ q.been_called = p.been_called
      /\ q \in InP!TypeOfBuffer
  BY <1>6, <1>7, <1>8 DEF In!StoreBack, InP!TypeOfBuffer
<1>10. t = q \/ t = In!ii_term(q)
  BY <1>4, <1>8 DEF In!ii_unput
<1>11. /\ t.next = q.next /\ t.smark = q.smark /\ t.unread = q.unread
       /\ t.end_buf = q.end_buf /\ t.been_called = q.been_called
  BY <1>9, <1>10 DEF In!ii_term, InP!TypeOfBuffer
<1>12. InP!Base(t, x) = InP!Base(s, text)
  BY <1>3, <1>5, <1>7, <1>9, <1>11 DEF InP!Base
<1>13. PICK base \in Int, place \in Nat, start \in Nat :
         base = InP!Base(s, text) /\ place = s.next /\ start = s.smark
  BY HeldMarks
<1> QED BY <1>2, <1>3, <1>5, <1>7, <1>9, <1>11, <1>12, <1>13 DEF StartOf

\* What is called on a buffer that could not be refilled keeps its types.
LEMMA TypesKept ==
  ASSUME NEW s \in InP!TypeOfBuffer
  PROVE  /\ In!ii_mark_start(s) \in InP!TypeOfBuffer
         /\ In!ii_mark_start(s).exit = s.exit
         /\ In!ii_mark_end(s) \in InP!TypeOfBuffer
         /\ In!ii_mark_end(s).exit = s.exit
         /\ In!ii_unterm(s) \in InP!TypeOfBuffer /\ In!ii_unterm(s).exit = s.exit
         /\ s.next < InP!BUFSIZE =>
              In!ii_term(s) \in InP!TypeOfBuffer /\ In!ii_term(s).exit = s.exit
         /\ In!ii_pushback(s, 1) \in InP!TypeOfBuffer
         /\ In!ii_pushback(s, 1).exit = s.exit
<1>1. NUL \in Chars
  BY InputAssumed DEF InP!CharsAssumption
<1>2. /\ In!ii_mark_start(s) \in InP!TypeOfBuffer
      /\ In!ii_mark_start(s).exit = s.exit
      /\ In!ii_mark_end(s) \in InP!TypeOfBuffer
      /\ In!ii_mark_end(s).exit = s.exit
  BY DEF In!ii_mark_start, In!ii_mark_end, InP!TypeOfBuffer
<1>3. In!ii_unterm(s) \in InP!TypeOfBuffer /\ In!ii_unterm(s).exit = s.exit
  BY <1>1 DEF In!ii_unterm, InP!TypeOfBuffer
<1>4. ASSUME s.next < InP!BUFSIZE
      PROVE  In!ii_term(s) \in InP!TypeOfBuffer /\ In!ii_term(s).exit = s.exit
  <2>1. s.next \in InP!Index
    BY <1>4, InP!Sizes, InputAssumed DEF InP!TypeOfBuffer, InP!Index
  <2> QED BY <1>1, <2>1 DEF In!ii_term, InP!TypeOfBuffer
<1>5. In!ii_pushback(s, 1) \in InP!TypeOfBuffer /\ In!ii_pushback(s, 1).exit = s.exit
  BY SamePushback, InP!PushbackTyped, InputAssumed
<1> QED BY <1>2, <1>3, <1>4, <1>5

-----------------------------------------------------------------------------
(* The invariant.                                                          *)

\* A buffer that holds the stream x, and one in which x has just been opened.
Holds(s, x, l0) ==
  /\ s \in InP!TypeOfBuffer /\ s.exit = "no" /\ s.unread <= Len(x)
  /\ InP!Sound(s) /\ l0 \in Int /\ InP!Agrees(s, x, l0)
JustOpened(s, x, l0) ==
  /\ s \in InP!TypeOfBuffer /\ s.exit = "no" /\ s.unread = Len(x)
  /\ InP!Fresh(s) /\ s.termchar = NUL /\ l0 \in Int /\ InP!Counted(s, x, l0)

Start  == StartOf(b, text)
End    == EndOf(b, text)
Place  == PlaceOf(b, text)
Line0  == IF first \/ opens > 0 THEN 1 ELSE 0
Loaded == ~first /\ at # "load"
States == DOMAIN table.accept

\* The input system between two steps of the driver.
InputInv ==
  /\ b \in InP!TypeOfBuffer /\ text \in Seq(Chars)
  /\ opens \in 0 .. MaxOpens /\ first \in BOOLEAN
  /\ at \in {"call", "scan", "load", "action", "eof"}
  /\ first => at = "call" /\ opens = 0 /\ ~b.been_called
  /\ Running => IF Loaded THEN Holds(b, text, Line0) ELSE JustOpened(b, text, Line0)
  /\ Running /\ ~first => b.been_called
  /\ Running /\ b.termchar # NUL => at \in {"action", "call"}

\* The driver's own variables.
DriverInv ==
  /\ table \in Analyzers
  /\ yystate \in States \cup {YYF} /\ (~first => yystate \in States)
  /\ yylastaccept \in States /\ yyprev \in States /\ yyanchor \in 0 .. 4
  /\ yytext \in InP!Index \cup {InP!NULL} /\ yyleng \in Int
  /\ scan \in [at : Int, state : States \cup {YYF}, more : BOOLEAN]
  /\ at = "load" => yylastaccept = 0

\* Where a lexeme not extended by yymore() begins is where scanning began;
\* an anchor is that of the state that accepts here.
ScanInv ==
  Running /\ at = "scan" /\ scan.state # YYF /\ ~scan.more =>
    /\ scan.state = 0 /\ Start = scan.at
    /\ Place = scan.at => yystate = 0 /\ yylastaccept = 0
    /\ Place # scan.at => yyanchor = table.accept[yystate]
    /\ Place = scan.at + 1 => \E c \in Chars : yystate = table.nxt[0][c]
    /\ Place # scan.at /\ yyanchor # 0 => End = Place

\* The lexeme an action sees.
LexemeInv ==
  Running /\ at = "action" /\ scan.state # YYF =>
    /\ yytext = b.smark /\ yyleng = b.next - b.smark
    /\ ~scan.more => Start = scan.at + (IF Anchored(yyanchor, START) THEN 1 ELSE 0)

\* What the invariant says in the terms of InputBuffer_proofs.
LEMMA HeldNow ==
  ASSUME InputInv, Running
  PROVE  /\ Loaded => InP!Held(b, text, Line0) /\ b.been_called
         /\ ~Loaded => InP!Opened(b, Line0)
         /\ Line0 \in Int
<1>1. Line0 \in Int /\ Len(text) \in Nat
  BY DEF Line0, InputInv
<1>2. ASSUME Loaded PROVE InP!Held(b, text, Line0) /\ b.been_called
  <2>1. Holds(b, text, Line0) /\ b.been_called
    BY <1>2 DEF InputInv, Loaded
  <2> QED BY <1>1, <2>1 DEF Holds, InP!Held, InP!Callable, InP!Legal
<1>3. ASSUME ~Loaded PROVE InP!Opened(b, Line0)
  <2>1. JustOpened(b, text, Line0)
    BY <1>3 DEF InputInv
  <2> QED BY <1>1, <2>1 DEF JustOpened, InP!Opened, InP!Legal
<1> QED BY <1>1, <1>2, <1>3

\* What a buffer holds of a file, it holds of a longer stream as well.
LEMMA HeldThen ==
  ASSUME text \in Seq(Chars), NEW x \in Seq(Chars), Len(text) <= Len(x),
         NEW s, NEW l0, InP!Held(s, x, l0)
  PROVE  Holds(s, x, l0) /\ s \in InP!TypeOfBuffer
<1>1. /\ s \in InP!TypeOfBuffer /\ s.exit = "no" /\ s.unread <= Len(text)
      /\ InP!Sound(s) /\ l0 \in Int /\ InP!Agrees(s, x, l0)
  BY DEF InP!Held, InP!Callable, InP!Legal
<1>2. PICK u \in Nat : u = s.unread
  BY <1>1, InP!Fields, InputAssumed
<1>3. Len(text) \in Nat /\ Len(x) \in Nat
  OBVIOUS
<1>4. u <= Len(x)
  BY <1>1, <1>2, <1>3
<1> QED BY <1>1, <1>2, <1>4 DEF Holds

\* The characters delivered are those before the cursor.
LEMMA CurIsPlace ==
  /\ InputInv => In!Cur = Place /\ Place \in Int
  /\ InputInv' => In!Cur' = Place' /\ Place' \in Int
<1>1. ASSUME NEW s \in InP!TypeOfBuffer, NEW x \in Seq(Chars)
      PROVE  /\ Len(x) - s.unread - (s.end_buf - s.next) = PlaceOf(s, x)
             /\ PlaceOf(s, x) \in Int
  <2>1. PICK len \in Nat, unread \in Nat, end \in Nat, next \in Nat :
          len = Len(x) /\ unread = s.unread /\ end = s.end_buf /\ next = s.next
    BY InP!Fields, InputAssumed
  <2>2. PlaceOf(s, x) = (len - unread - end) + next
    BY <2>1 DEF PlaceOf, InP!Base
  <2>3. len - unread - (end - next) = (len - unread - end) + next
    OBVIOUS
  <2> QED BY <2>1, <2>2, <2>3
<1> QED BY <1>1 DEF InputInv, In!Cur, Place

\* A step that opens no file.
LEMMA FileStays ==
  ASSUME InputInv, ~first, first' = FALSE, opens' = opens, text' \in Seq(Chars),
         at' \in {"call", "scan", "action", "eof"}, b' \in InP!TypeOfBuffer,
         b'.exit = "no" =>
           /\ Holds(b', text', Line0) /\ b'.been_called
           /\ b'.termchar = NUL \/ at' \in {"action", "call"}
  PROVE  InputInv'
<1>1. Line0' = Line0
  BY DEF Line0
<1>2. opens' \in 0 .. MaxOpens
  BY DEF InputInv
<1>3. Loaded'
  BY DEF Loaded
<1> QED BY <1>1, <1>2, <1>3 DEF InputInv, Running

-----------------------------------------------------------------------------
(* The steps of the driver: the input system stays sound, and where the    *)
(* marks are afterwards.                                                   *)

\* Scanning, or at the end, nothing is terminated.
LEMMA Unterminated ==
  ASSUME InputInv, Running, at \in {"scan", "eof"}
  PROVE  /\ InP!Held(b, text, Line0) /\ b.termchar = NUL /\ b.been_called
         /\ ~first /\ first = FALSE /\ Loaded
         /\ In!Cur = Place /\ Place \in Nat /\ Place <= Len(text) /\ Len(text) \in Nat
<1>1. ~first /\ first = FALSE /\ Loaded
  BY DEF InputInv, Loaded
<1>2. b.termchar = NUL
  BY DEF InputInv
<1>3. InP!Held(b, text, Line0) /\ b.been_called
  BY <1>1, HeldNow
<1>4. Place \in Nat /\ Place <= Len(text) /\ Len(text) \in Nat
  BY <1>3, HeldMarks DEF Place
<1> QED BY <1>1, <1>2, <1>3, <1>4, CurIsPlace

\* In an action the lexeme may be terminated.
LEMMA InAnAction ==
  ASSUME InputInv, Running, at = "action"
  PROVE  /\ InP!Held(b, text, Line0) /\ b.been_called
         /\ ~first /\ first = FALSE /\ Loaded
         /\ In!Cur = Place /\ Place \in Nat /\ Place <= Len(text) /\ Len(text) \in Nat
<1>1. ~first /\ first = FALSE /\ Loaded
  BY DEF InputInv, Loaded
<1>2. InP!Held(b, text, Line0) /\ b.been_called
  BY <1>1, HeldNow
<1>3. Place \in Nat /\ Place <= Len(text) /\ Len(text) \in Nat
  BY <1>2, HeldMarks DEF Place
<1> QED BY <1>1, <1>2, <1>3, CurIsPlace

\* Restarting a lexeme at the cursor.
LEMMA Restarted ==
  ASSUME NEW s, NEW x, NEW l0, InP!Held(s, x, l0),
         NEW t, t = In!ii_mark_start(In!ii_unterm(s))
  PROVE  /\ InP!Held(t, x, l0) /\ t.termchar = NUL /\ t.been_called = s.been_called
         /\ StartOf(t, x) = PlaceOf(s, x) /\ EndOf(t, x) = PlaceOf(s, x)
         /\ PlaceOf(t, x) = PlaceOf(s, x)
<1>1. PICK u : u = In!ii_unterm(s)
  OBVIOUS
<1>2. /\ InP!Held(u, x, l0) /\ u.termchar = NUL /\ u.been_called = s.been_called
      /\ PlaceOf(u, x) = PlaceOf(s, x)
  BY <1>1, UntermPlaces
<1> QED BY <1>1, <1>2, MarkStartPlaces

\* yylex() called.
LEMMA CallKeeps ==
  ASSUME InputInv, Call
  PROVE  /\ InputInv'
         /\ Running' => Start' = Place' /\ End' = Place'
<1>1. /\ Running /\ at = "call" /\ at' = "scan" /\ first' = FALSE /\ opens' = opens
      /\ text' = (IF first THEN <<NL>> \o text ELSE text)
  BY DEF Call, Resume
<1>2. text \in Seq(Chars) /\ NL \in Chars /\ first \in BOOLEAN
  BY InputAssumed DEF InputInv, InP!CharsAssumption
<1>3. CASE first
  <2>1. PICK f \in In!ii_advance(b) :
          b' = In!ii_mark_start(In!ii_unterm(In!ii_pushback(f, 1)))
    BY <1>3, Zenon DEF Call
  <2>2. PICK x : x = <<NL>> \o text
    OBVIOUS
  <2>3. x \in Seq(Chars) /\ Len(text) <= Len(x) /\ text' = x
    BY <1>1, <1>2, <1>3, <2>2
  <2>4. InP!Opened(b, Line0) /\ ~b.been_called /\ opens = 0
    BY <1>1, <1>3, HeldNow DEF Loaded, InputInv
  <2>5. x = InP!Streamed(b) /\ InP!FirstLine(b, Line0) = 0 /\ Line0' = 0
    BY <1>1, <1>3, <2>2, <2>4 DEF InP!Streamed, InP!FirstLine, Line0
  <2>6. opens' \in 0 .. MaxOpens /\ Loaded'
    BY <1>1 DEF InputInv, Loaded
  <2>7. PICK t, u : t = In!ii_pushback(f, 1) /\ u = In!ii_unterm(t)
    OBVIOUS
  <2>8. CASE f.exit = "no"
    <3>1. /\ InP!Held(t, x, 0) /\ t.termchar = NUL /\ t.been_called
      BY <1>2, <2>1, <2>4, <2>5, <2>7, <2>8, LoadPlaces
    <3>2. /\ InP!Held(b', x, 0) /\ b'.termchar = NUL /\ b'.been_called
          /\ StartOf(b', x) = PlaceOf(b', x) /\ EndOf(b', x) = PlaceOf(b', x)
      BY <2>1, <2>7, <3>1, Restarted
    <3>3. Holds(b', x, 0) /\ b' \in InP!TypeOfBuffer
      BY <1>2, <2>3, <3>2, HeldThen
    <3> QED BY <1>1, <2>3, <2>5, <2>6, <3>2, <3>3
            DEF InputInv, Running, Start, End, Place
  <2>9. CASE f.exit # "no"
    <3>1. f \in InP!TypeOfBuffer
      <4>1. f \in InP!ii_advance(b)
        BY <2>1, SameAdvance
      <4>2. InP!Legal(b) /\ b.exit = "no" /\ InP!Fresh(b)
        BY <2>4 DEF InP!Opened
      <4> QED BY <1>2, <4>1, <4>2, InP!AdvanceFresh, InputAssumed
              DEF InP!Outcome, InP!Legal
    <3>2. t \in InP!TypeOfBuffer /\ t.exit # "no"
      BY <2>7, <2>9, <3>1, TypesKept
    <3>3. u \in InP!TypeOfBuffer /\ u.exit # "no"
      BY <2>7, <3>2, TypesKept
    <3>4. b' \in InP!TypeOfBuffer /\ b'.exit # "no"
      BY <2>1, <2>7, <3>3, TypesKept
    <3> QED BY <1>1, <2>3, <2>6, <3>4 DEF InputInv, Running
  <2> QED BY <2>8, <2>9
<1>4. CASE ~first
  <2>1. b' = In!ii_mark_start(In!ii_unterm(b))
    BY <1>4 DEF Call
  <2>2. InP!Held(b, text, Line0) /\ b.been_called
    BY <1>1, <1>4, HeldNow DEF Loaded
  <2>3. /\ InP!Held(b', text, Line0) /\ b'.termchar = NUL /\ b'.been_called
        /\ StartOf(b', text) = PlaceOf(b', text) /\ EndOf(b', text) = PlaceOf(b', text)
    BY <2>1, <2>2, Restarted
  <2>4. text' = text
    BY <1>1, <1>4
  <2>5. Holds(b', text', Line0) /\ b' \in InP!TypeOfBuffer
    BY <1>2, <2>3, <2>4, HeldThen
  <2>6. InputInv'
    BY <1>1, <1>2, <1>4, <2>3, <2>4, <2>5, FileStays
  <2> QED BY <2>3, <2>4, <2>6 DEF Start, End, Place
<1> QED BY <1>2, <1>3, <1>4

\* The lines of a file in which nothing has been read.
LEMMA OpenedCounted ==
  ASSUME NEW f \in Files, NEW s, s.next = InP!BUFSIZE, s.emark = InP!BUFSIZE,
         s.end_buf = InP!BUFSIZE, s.lineno = 1, s.mline = 1, s.unread = Len(f)
  PROVE  InP!Counted(s, f, 1)
<1>1. f \in Seq(Chars) /\ Len(f) \in Nat
  BY InputAssumed DEF InP!CharsAssumption
<1>2. PICK size \in Nat : size = InP!BUFSIZE
  BY InP!Sizes, InputAssumed
<1>3. InP!Base(s, f) + s.next = 0 /\ InP!Base(s, f) + s.emark = 0
  BY <1>1, <1>2 DEF InP!Base
<1>4. 1 + InP!Lines(f, 0) = 1
  BY InP!LinesType, InputAssumed
<1>5. InP!NulFree => \A j \in 1 .. Len(f) : f[j] # NUL
  BY DEF InP!NulFree
<1> QED BY <1>3, <1>4, <1>5 DEF InP!Counted

\* Another file opened.
LEMMA NextFileKeeps ==
  ASSUME InputInv, NextFile
  PROVE  InputInv'
<1>1. /\ Running /\ at = "scan" /\ at' = "load" /\ opens' = opens + 1
      /\ opens < MaxOpens /\ first' = first
  BY DEF NextFile, Scanning
<1>2. PICK f \in Files : text' = f /\ b' = In!ii_newfile(b, f)
  BY DEF NextFile
<1>3. f \in Seq(Chars) /\ Len(f) \in Nat /\ MaxOpens \in Nat
  BY InputAssumed DEF InP!CharsAssumption, InP!BoundsAssumption
<1>4. /\ b.termchar = NUL /\ b.been_called /\ first = FALSE /\ b \in InP!TypeOfBuffer
      /\ b.exit = "no"
  BY <1>1, Unterminated DEF InputInv, Running
<1>5. In!BUFSIZE = InP!BUFSIZE /\ InP!BUFSIZE \in Nat /\ In!NULL = InP!NULL
  BY SameSizes, InP!Sizes, InputAssumed
<1>6. /\ b'.next = InP!BUFSIZE /\ b'.emark = InP!BUFSIZE /\ b'.smark = InP!BUFSIZE
      /\ b'.end_buf = InP!BUFSIZE /\ b'.pmark = InP!NULL /\ b'.lineno = 1
      /\ b'.mline = 1 /\ b'.termchar = NUL /\ b'.eof_read = FALSE
      /\ b'.unread = Len(f) /\ b'.exit = "no" /\ b'.been_called = b.been_called
  BY <1>2, <1>4, <1>5 DEF In!ii_newfile, InP!TypeOfBuffer
<1>7. b' \in InP!TypeOfBuffer
  <2>1. PICK size \in Nat, none \in {InP!NULL}, len \in Nat :
          size = InP!BUFSIZE /\ len = Len(f)
    BY <1>3, <1>5
  <2>2. size \in 0 .. size /\ 1 \in Int
    OBVIOUS
  <2>3. none = InP!NULL
    OBVIOUS
  <2>4. b' = [b EXCEPT !.eof_read = FALSE, !.next = size, !.smark = size,
                       !.pmark = none, !.emark = size, !.end_buf = size,
                       !.lineno = 1, !.mline = 1, !.unread = len]
    BY <1>2, <1>5, <2>1, <2>3, Zenon DEF In!ii_newfile
  <2>5. PICK u : u = [b EXCEPT !.eof_read = FALSE, !.next = size, !.smark = size,
                               !.pmark = none]
    OBVIOUS
  <2>6. u \in InP!TypeOfBuffer
    BY <1>4, <2>1, <2>2, <2>3, <2>5 DEF InP!TypeOfBuffer
  <2>7. b' = [u EXCEPT !.emark = size, !.end_buf = size, !.lineno = 1, !.mline = 1,
                       !.unread = len]
    BY <1>4, <2>4, <2>5 DEF InP!TypeOfBuffer
  <2> QED BY <2>1, <2>2, <2>6, <2>7 DEF InP!TypeOfBuffer
<1>8. opens' \in 0 .. MaxOpens /\ opens' > 0
  BY <1>1, <1>3 DEF InputInv
<1>9. Line0' = 1 /\ ~Loaded'
  BY <1>1, <1>8 DEF Line0, Loaded
<1>10. InP!Counted(b', f, 1)
  BY <1>6, OpenedCounted
<1>11. JustOpened(b', f, 1)
  BY <1>6, <1>7, <1>10 DEF JustOpened, InP!Fresh
<1> QED BY <1>1, <1>2, <1>3, <1>4, <1>6, <1>7, <1>8, <1>9, <1>11 DEF InputInv, Running

\* The driver loads it.
LEMMA LoadKeeps ==
  ASSUME InputInv, Load
  PROVE  /\ InputInv'
         /\ Running' => Start' = 0 /\ End' = 0 /\ Place' = 0
<1>1. /\ Running /\ at = "load" /\ at' = "scan" /\ opens' = opens /\ first' = first
      /\ text' = text
  BY DEF Load
<1>2. /\ first = FALSE /\ ~first /\ b.been_called /\ text \in Seq(Chars)
  BY <1>1 DEF InputInv
<1>3. PICK f \in In!ii_advance(b) : b' = In!ii_pushback(f, 1)
  BY DEF Load
<1>4. InP!Opened(b, Line0)
  BY <1>1, HeldNow DEF Loaded
<1>5. text = InP!Streamed(b) /\ InP!FirstLine(b, Line0) = Line0
  BY <1>2 DEF InP!Streamed, InP!FirstLine
<1>6. CASE f.exit = "no"
  <2>1. /\ InP!Held(b', text, Line0) /\ b'.termchar = NUL /\ b'.been_called
        /\ StartOf(b', text) = 0 /\ EndOf(b', text) = 0 /\ PlaceOf(b', text) = 0
    BY <1>2, <1>3, <1>4, <1>5, <1>6, LoadPlaces
  <2>2. Holds(b', text', Line0) /\ b' \in InP!TypeOfBuffer
    BY <1>1, <1>2, <2>1, HeldThen
  <2>3. InputInv'
    BY <1>1, <1>2, <2>1, <2>2, FileStays
  <2> QED BY <1>1, <2>1, <2>3 DEF Start, End, Place
<1>7. CASE f.exit # "no"
  <2>1. f \in InP!TypeOfBuffer
    <3>1. f \in InP!ii_advance(b)
      BY <1>3, SameAdvance
    <3>2. InP!Legal(b) /\ b.exit = "no" /\ InP!Fresh(b)
      BY <1>4 DEF InP!Opened
    <3> QED BY <1>2, <3>1, <3>2, InP!AdvanceFresh, InputAssumed
            DEF InP!Outcome, InP!Legal
  <2>2. b' \in InP!TypeOfBuffer /\ b'.exit # "no"
    BY <1>3, <1>7, <2>1, TypesKept
  <2>3. InputInv'
    BY <1>1, <1>2, <2>2, FileStays
  <2> QED BY <2>2, <2>3 DEF Running
<1> QED BY <1>6, <1>7

\* A transition, or what it does when the lexeme is too long.
LEMMA TransitionKeeps ==
  ASSUME InputInv, Transition
  PROVE  /\ InputInv'
         /\ yylook # EOF /\ Place < Len(text)
         /\ Running' /\ ~In!Refused(b) =>
              /\ Start' = Start /\ Place' = Place + 1
              /\ End' = IF Accepts(yynstate) THEN Place' ELSE End
<1>1. /\ Running /\ at = "scan" /\ at' = at /\ opens' = opens /\ first' = first
      /\ text' = text /\ yynstate # YYF
  BY DEF Transition, Scanning
<1>2. /\ InP!Held(b, text, Line0) /\ b.termchar = NUL /\ b.been_called
      /\ ~first /\ first = FALSE /\ text \in Seq(Chars)
      /\ Place \in Nat /\ Place <= Len(text) /\ Len(text) \in Nat
  BY <1>1, Unterminated DEF InputInv
<1>3. yylook # EOF
  BY <1>1 DEF yynstate
<1>4. Place < Len(text) /\ ~In!NO_MORE_CHARS(b)
  BY <1>2, <1>3, LookIsNext DEF Place, yylook
<1>5. PICK s \in Consumed : b' = MarkAccept(s)
  BY DEF Transition
<1>6. b \in InP!TypeOfBuffer /\ b.exit = "no"
  BY <1>2, HeldMarks
<1>7. ASSUME s.exit = "no"
      PROVE  /\ InP!Held(s, text, Line0) /\ s.termchar = NUL /\ s.been_called
             /\ ~In!Refused(b) =>
                  /\ StartOf(s, text) = Start /\ EndOf(s, text) = End
                  /\ PlaceOf(s, text) = Place + 1
  <2>1. CASE In!Refused(b)
    <3>1. s \in In!ii_flushbuf(b)
      BY <1>2, <1>5, <2>1 DEF Consumed, In!ii_flushbuf, In!ii_unterm
    <3> QED BY <1>2, <1>7, <2>1, <3>1, FlushPlaces
  <2>2. CASE ~In!Refused(b)
    <3>1. s \in In!ii_advance(b)
      BY <1>5, <2>2 DEF Consumed
    <3> QED BY <1>2, <1>4, <1>7, <2>2, <3>1, AdvancePlaces DEF Start, End, Place
  <2> QED BY <2>1, <2>2
<1>8. ASSUME s.exit # "no" PROVE s \in InP!TypeOfBuffer
  <2>1. CASE In!Refused(b)
    <3>1. s \in In!ii_flushbuf(b)
      BY <1>2, <1>5, <2>1 DEF Consumed, In!ii_flushbuf, In!ii_unterm
    <3> QED BY <1>2, <1>8, <2>1, <3>1, FlushPlaces
  <2>2. CASE ~In!Refused(b)
    <3>1. s \in In!ii_advance(b)
      BY <1>5, <2>2 DEF Consumed
    <3>2. s = [b EXCEPT !.exit = "full"]
      BY <1>2, <1>6, <1>8, <3>1, AdvanceFails
    <3> QED BY <1>6, <3>2 DEF InP!TypeOfBuffer
  <2> QED BY <2>1, <2>2
<1>9. CASE s.exit = "no"
  <2>1. /\ InP!Held(b', text, Line0) /\ b'.termchar = NUL /\ b'.been_called
        /\ StartOf(b', text) = StartOf(s, text) /\ PlaceOf(b', text) = PlaceOf(s, text)
        /\ EndOf(b', text) = (IF Accepts(yynstate) THEN PlaceOf(s, text)
                              ELSE EndOf(s, text))
    BY <1>5, <1>7, <1>9, MarkEndPlaces DEF MarkAccept
  <2>2. Holds(b', text', Line0) /\ b' \in InP!TypeOfBuffer
    BY <1>1, <1>2, <2>1, HeldThen
  <2>3. InputInv'
    BY <1>1, <1>2, <2>1, <2>2, FileStays
  <2> QED BY <1>1, <1>3, <1>4, <1>7, <1>9, <2>1, <2>3 DEF Start, End, Place
<1>10. CASE s.exit # "no"
  <2>1. b' \in InP!TypeOfBuffer /\ b'.exit # "no"
    BY <1>5, <1>8, <1>10, TypesKept DEF MarkAccept
  <2>2. InputInv'
    BY <1>1, <1>2, <2>1, FileStays
  <2> QED BY <1>3, <1>4, <2>1, <2>2 DEF Running
<1> QED BY <1>9, <1>10

\* A character that begins no lexeme skipped.
LEMMA BadInputKeeps ==
  ASSUME InputInv, BadInput
  PROVE  /\ InputInv'
         /\ Running' => Start' = Place' /\ End' = Place'
<1>1. /\ Running /\ at = "scan" /\ at' = "scan" /\ opens' = opens /\ first' = first
      /\ text' = text
  BY DEF BadInput, Scanning, Resume
<1>2. /\ InP!Held(b, text, Line0) /\ b.termchar = NUL /\ b.been_called
      /\ ~first /\ first = FALSE /\ text \in Seq(Chars)
  BY <1>1, Unterminated DEF InputInv
<1>3. PICK s \in In!ii_advance(b) : b' = In!ii_mark_start(In!ii_unterm(s))
  BY DEF BadInput
<1>4. b \in InP!TypeOfBuffer /\ b.exit = "no"
  BY <1>2, HeldMarks
<1>5. CASE s.exit = "no"
  <2>1. InP!Held(s, text, Line0) /\ s.been_called
    BY <1>2, <1>3, <1>5, AdvancePlaces
  <2>2. /\ InP!Held(b', text, Line0) /\ b'.termchar = NUL /\ b'.been_called
        /\ StartOf(b', text) = PlaceOf(b', text) /\ EndOf(b', text) = PlaceOf(b', text)
    BY <1>3, <2>1, Restarted
  <2>3. Holds(b', text', Line0) /\ b' \in InP!TypeOfBuffer
    BY <1>1, <1>2, <2>2, HeldThen
  <2>4. InputInv'
    BY <1>1, <1>2, <2>2, <2>3, FileStays
  <2> QED BY <1>1, <2>2, <2>4 DEF Start, End, Place
<1>6. CASE s.exit # "no"
  <2>1. s = [b EXCEPT !.exit = "full"]
    BY <1>2, <1>3, <1>4, <1>6, AdvanceFails
  <2>2. s \in InP!TypeOfBuffer
    BY <1>4, <2>1 DEF InP!TypeOfBuffer
  <2>3. PICK u : u = In!ii_unterm(s)
    OBVIOUS
  <2>4. u \in InP!TypeOfBuffer /\ u.exit # "no"
    BY <1>6, <2>2, <2>3, TypesKept
  <2>5. b' \in InP!TypeOfBuffer /\ b'.exit # "no"
    BY <1>3, <2>3, <2>4, TypesKept
  <2>6. InputInv'
    BY <1>1, <1>2, <2>5, FileStays
  <2> QED BY <2>5, <2>6 DEF Running
<1> QED BY <1>5, <1>6

\* A lexeme accepted, less what its anchors matched.
LEMMA AcceptKeeps ==
  ASSUME InputInv, Accept
  PROVE  /\ InputInv' /\ Running' /\ b'.emark = b'.next /\ b'.smark \in InP!Index
         /\ Place' = IF Anchored(yyanchor, END)
                     THEN IF End - 1 > Start THEN End - 1 ELSE Start
                     ELSE End
         /\ Start' = IF Anchored(yyanchor, START) /\ Start < Place' THEN Start + 1
                     ELSE Start
<1>1. /\ Running /\ at = "scan" /\ at' = "action" /\ opens' = opens /\ first' = first
      /\ text' = text /\ b' = In!ii_term(Trimmed(In!ii_move_back(b)))
  BY DEF Accept, Scanning
<1>2. /\ InP!Held(b, text, Line0) /\ b.termchar = NUL /\ b.been_called
      /\ ~first /\ first = FALSE /\ text \in Seq(Chars)
  BY <1>1, Unterminated DEF InputInv
<1>3. PICK m : m = In!ii_move_back(b)
  OBVIOUS
<1>4. /\ InP!Held(m, text, Line0) /\ m.termchar = NUL /\ m.been_called
      /\ StartOf(m, text) = Start /\ EndOf(m, text) = End /\ PlaceOf(m, text) = End
  BY <1>2, <1>3, MoveBackPlaces DEF Start, End
<1>5. PICK e : e = IF Anchored(yyanchor, END) THEN In!ii_pushback(m, 1) ELSE m
  OBVIOUS
<1>6. Start \in Nat /\ End \in Nat /\ Start <= End
  BY <1>2, HeldMarks DEF Start, End
<1>7. /\ InP!Held(e, text, Line0) /\ e.termchar = NUL /\ e.been_called
      /\ StartOf(e, text) = Start /\ EndOf(e, text) = PlaceOf(e, text)
      /\ PlaceOf(e, text) = IF Anchored(yyanchor, END)
                            THEN IF End - 1 > Start THEN End - 1 ELSE Start
                            ELSE End
  <2>1. CASE Anchored(yyanchor, END)
    <3>1. e = In!ii_pushback(m, 1)
      BY <1>5, <2>1
    <3>2. /\ InP!Held(e, text, Line0) /\ e.termchar = NUL /\ e.been_called
          /\ StartOf(e, text) = Start
          /\ PlaceOf(e, text) = (IF End - 1 > Start THEN End - 1 ELSE Start)
          /\ EndOf(e, text) = (IF PlaceOf(e, text) < End THEN PlaceOf(e, text) ELSE End)
      BY <1>4, <3>1, PushbackPlaces
    <3>3. EndOf(e, text) = PlaceOf(e, text)
      BY <1>6, <3>2
    <3> QED BY <2>1, <3>2, <3>3
  <2>2. CASE ~Anchored(yyanchor, END)
    BY <1>4, <1>5, <2>2
  <2> QED BY <2>1, <2>2
<1>8. PICK d : d = IF Anchored(yyanchor, START) THEN In!ii_move_start(e) ELSE e
  OBVIOUS
<1>9. /\ InP!Held(d, text, Line0) /\ d.termchar = NUL /\ d.been_called
      /\ EndOf(d, text) = PlaceOf(d, text) /\ PlaceOf(d, text) = PlaceOf(e, text)
      /\ StartOf(d, text) = IF Anchored(yyanchor, START) /\ Start < PlaceOf(e, text)
                            THEN Start + 1 ELSE Start
  <2>1. CASE Anchored(yyanchor, START)
    <3>1. d = In!ii_move_start(e)
      BY <1>8, <2>1
    <3> QED BY <1>7, <2>1, <3>1, MoveStartPlaces
  <2>2. CASE ~Anchored(yyanchor, START)
    BY <1>7, <1>8, <2>2
  <2> QED BY <2>1, <2>2
<1>10. b' = In!ii_term(d)
  BY <1>1, <1>3, <1>5, <1>8 DEF Trimmed
<1>11. /\ InP!Held(b', text, Line0) /\ b'.been_called
       /\ StartOf(b', text) = StartOf(d, text) /\ EndOf(b', text) = EndOf(d, text)
       /\ PlaceOf(b', text) = PlaceOf(d, text)
  BY <1>9, <1>10, TermPlaces
<1>12. b'.emark = b'.next
  <2>1. PICK base \in Int, end \in Nat, place \in Nat :
          base = InP!Base(b', text) /\ end = b'.emark /\ place = b'.next
    BY <1>11, HeldMarks
  <2>2. base + end = base + place
    BY <1>9, <1>11, <2>1 DEF EndOf, PlaceOf
  <2> QED BY <2>1, <2>2
<1>13. Holds(b', text', Line0) /\ b' \in InP!TypeOfBuffer
  BY <1>1, <1>2, <1>11, HeldThen
<1>14. InputInv'
  BY <1>1, <1>2, <1>11, <1>13, FileStays
<1>15. Running' /\ b'.smark \in InP!Index
  BY <1>11, HeldMarks, StartInBuffer DEF Running
<1> QED BY <1>1, <1>7, <1>9, <1>11, <1>12, <1>14, <1>15 DEF Start, End, Place

\* input() in an action.
LEMMA InputKeeps ==
  ASSUME InputInv, Input
  PROVE  /\ InputInv'
         /\ Running' => /\ Start' = Start
                        /\ Place' = IF Place < Len(text) THEN Place + 1 ELSE Place
         /\ Running' /\ Place = Len(text) => b'.smark = b.smark
         /\ b'.smark \in InP!Index
<1>1. /\ Running /\ at = "action" /\ at' = "action" /\ opens' = opens
      /\ first' = first /\ text' = text /\ ~In!Refused(In!ii_unterm(b))
      /\ b' \in In!ii_input(b)
  BY DEF Input, InAction
<1>2. /\ InP!Held(b, text, Line0) /\ b.been_called
      /\ ~first /\ first = FALSE /\ text \in Seq(Chars)
  BY <1>1, InAnAction DEF InputInv
<1>3. CASE b'.exit = "no"
  <2>1. /\ InP!Held(b', text, Line0) /\ b'.been_called
        /\ StartOf(b', text) = StartOf(b, text)
        /\ PlaceOf(b', text) = (IF PlaceOf(b, text) < Len(text)
                                THEN PlaceOf(b, text) + 1 ELSE PlaceOf(b, text))
        /\ PlaceOf(b, text) = Len(text) => b'.smark = b.smark
    BY <1>1, <1>2, <1>3, InputPlaces
  <2>2. Holds(b', text', Line0) /\ b' \in InP!TypeOfBuffer
    BY <1>1, <1>2, <2>1, HeldThen
  <2>3. InputInv'
    BY <1>1, <1>2, <2>1, <2>2, FileStays
  <2>4. b'.smark \in InP!Index
    BY <2>1, StartInBuffer
  <2> QED BY <1>1, <2>1, <2>3, <2>4 DEF Start, Place
<1>4. CASE b'.exit # "no"
  <2>1. b' \in InP!TypeOfBuffer /\ b'.smark = b.smark
    BY <1>1, <1>2, <1>4, InputPlaces
  <2>2. InputInv'
    BY <1>1, <1>2, <1>4, <2>1, FileStays
  <2>3. b.smark \in InP!Index
    BY <1>2, StartInBuffer
  <2> QED BY <1>4, <2>1, <2>2, <2>3 DEF Running
<1> QED BY <1>3, <1>4

\* input() on a lexeme that is too long.
LEMMA InputTooLongKeeps ==
  ASSUME InputInv, InputTooLong
  PROVE  InputInv'
<1>1. /\ Running /\ at = "action" /\ at' = "action" /\ opens' = opens
      /\ first' = first /\ text' = text /\ In!Refused(In!ii_unterm(b))
  BY DEF InputTooLong, InAction
<1>2. PICK s \in In!ii_input(b) : \E f \in In!ii_flushbuf(s) : b' = In!ii_term(f)
  BY DEF InputTooLong
<1>3. /\ InP!Held(b, text, Line0) /\ b.been_called
      /\ ~first /\ first = FALSE /\ text \in Seq(Chars)
  BY <1>1, InAnAction DEF InputInv
<1>4. InP!Held(s, text, Line0) /\ s.been_called /\ In!Refused(s)
  BY <1>1, <1>2, <1>3, InputRefused
<1> PICK f \in In!ii_flushbuf(s) : b' = In!ii_term(f)
  BY <1>2
<1>5. /\ f.exit = "no" =>
           InP!Held(f, text, Line0) /\ f.termchar = NUL /\ f.been_called
      /\ f.exit # "no" => f \in InP!TypeOfBuffer /\ f.next < InP!BUFSIZE
  BY <1>2, <1>3, <1>4, FlushPlaces
<1>6. CASE f.exit = "no"
  <2>1. InP!Held(b', text, Line0) /\ b'.been_called
    BY <1>2, <1>5, <1>6, TermPlaces
  <2>2. Holds(b', text', Line0) /\ b' \in InP!TypeOfBuffer
    BY <1>1, <1>3, <2>1, HeldThen
  <2> QED BY <1>1, <1>3, <2>1, <2>2, FileStays
<1>7. CASE f.exit # "no"
  <2>1. b' \in InP!TypeOfBuffer /\ b'.exit # "no"
    BY <1>2, <1>5, <1>7, TypesKept
  <2> QED BY <1>1, <1>3, <2>1, FileStays
<1> QED BY <1>6, <1>7

\* unput() of a character of its lexeme.
LEMMA UnputKeeps ==
  ASSUME InputInv, Unput
  PROVE  /\ InputInv' /\ Running' /\ b'.smark = b.smark /\ Start' = Start
         /\ b.next - b.smark > 0 => b'.next = b.next - 1
<1>1. /\ Running /\ at = "action" /\ at' = "action" /\ opens' = opens
      /\ first' = first
  BY DEF Unput, InAction
<1>2. PICK c \in Unputs :
        /\ b' = In!ii_unput(b, c)
        /\ text' = IF b.next - 1 > b.smark THEN [text EXCEPT ![Cur] = c] ELSE text
  BY DEF Unput
<1>3. /\ InP!Held(b, text, Line0) /\ b.been_called
      /\ ~first /\ first = FALSE /\ text \in Seq(Chars) /\ Cur = Place
  BY <1>1, InAnAction DEF InputInv, Cur
<1>4. c \in Chars \ {NUL}
  BY InputAssumed DEF InP!CharsAssumption
<1>5. text' = InP!PutInto(b, text, c)
  BY <1>2, <1>3 DEF Place, PlaceOf, InP!PutInto, InP!Position
<1>6. /\ InP!Held(b', text', Line0) /\ b'.been_called
      /\ text' \in Seq(Chars) /\ Len(text') = Len(text)
      /\ b'.smark = b.smark /\ StartOf(b', text') = StartOf(b, text)
      /\ b.next - b.smark > 0 => b'.next = b.next - 1
  <2>1. PICK t, x : t = b' /\ x = text'
    OBVIOUS
  <2>2. t = In!ii_unput(b, c)
    BY <1>2, <2>1
  <2>3. x = InP!PutInto(b, text, c)
    BY <1>5, <2>1
  <2>4. /\ InP!Held(t, x, Line0) /\ t.been_called = b.been_called
        /\ x \in Seq(Chars) /\ Len(x) = Len(text)
        /\ t.smark = b.smark /\ StartOf(t, x) = StartOf(b, text)
        /\ b.next - b.smark > 0 => t.next = b.next - 1
    <3>1. InP!Held(b, text, Line0) /\ text \in Seq(Chars)
      BY <1>3
    <3> QED BY <1>4, <2>2, <2>3, <3>1, UnputPlaces
  <2> QED BY <1>3, <2>1, <2>4
<1>7. Holds(b', text', Line0) /\ b' \in InP!TypeOfBuffer
  <2>1. Len(text) <= Len(text')
    BY <1>3, <1>6
  <2> QED BY <1>3, <1>6, <2>1, HeldThen
<1>8. InputInv'
  BY <1>1, <1>3, <1>6, <1>7, FileStays
<1>9. Running'
  BY <1>6, HeldMarks DEF Running
<1> QED BY <1>6, <1>8, <1>9 DEF Start

\* yyless().
LEMMA YylessKeeps ==
  ASSUME InputInv, Yyless
  PROVE  /\ InputInv' /\ Running'
         /\ \E n \in 1 .. 2, p \in InP!TypeOfBuffer :
              /\ p = In!ii_pushback(In!ii_unterm(b), n)
              /\ yyleng' = LengthLess(n)
              /\ p.next = (IF b.next - n > b.smark THEN b.next - n ELSE b.smark)
              /\ p.smark = b.smark
              /\ b'.next = p.next /\ b'.smark = b.smark /\ Start' = Start
<1>1. /\ Running /\ at = "action" /\ at' = "action" /\ opens' = opens
      /\ first' = first /\ text' = text
  BY DEF Yyless, InAction
<1>2. PICK n \in 1 .. 2 :
        /\ b' = In!ii_term(In!ii_pushback(In!ii_unterm(b), n))
        /\ yyleng' = LengthLess(n)
  BY DEF Yyless
<1>3. /\ InP!Held(b, text, Line0) /\ b.been_called
      /\ ~first /\ first = FALSE /\ text \in Seq(Chars)
  BY <1>1, InAnAction DEF InputInv
<1>4. PICK u : u = In!ii_unterm(b)
  OBVIOUS
<1>5. /\ InP!Held(u, text, Line0) /\ u.termchar = NUL /\ u.been_called
      /\ u.smark = b.smark /\ u.next = b.next /\ StartOf(u, text) = Start
  BY <1>3, <1>4, UntermPlaces DEF Start
<1>6. PICK p : p = In!ii_pushback(u, n)
  OBVIOUS
<1>7. /\ InP!Held(p, text, Line0) /\ p.termchar = NUL /\ p.been_called
      /\ p.next = (IF u.next - n > u.smark THEN u.next - n ELSE u.smark)
      /\ p.smark = u.smark /\ StartOf(p, text) = Start
  <2>1. n \in Nat
    OBVIOUS
  <2> QED BY <1>5, <1>6, <2>1, PushbackPlaces
<1>8. /\ InP!Held(b', text, Line0) /\ b'.been_called
      /\ b'.smark = p.smark /\ b'.next = p.next /\ StartOf(b', text) = Start
  <2>1. b' = In!ii_term(p)
    BY <1>2, <1>4, <1>6
  <2> QED BY <1>7, <2>1, TermPlaces
<1>9. Holds(b', text', Line0) /\ b' \in InP!TypeOfBuffer
  BY <1>1, <1>3, <1>8, HeldThen
<1>10. InputInv'
  BY <1>1, <1>3, <1>8, <1>9, FileStays
<1>11. Running' /\ p \in InP!TypeOfBuffer
  BY <1>7, <1>8, HeldMarks DEF Running
<1>12. Start' = Start
  BY <1>1, <1>8 DEF Start
<1> QED BY <1>2, <1>4, <1>5, <1>6, <1>7, <1>8, <1>10, <1>11, <1>12

\* The action ends without a return.
LEMMA ContinueKeeps ==
  ASSUME InputInv, Continue
  PROVE  InputInv' /\ Running' /\ Start' = Place' /\ End' = Place'
<1>1. /\ Running /\ at = "action" /\ at' = "scan" /\ opens' = opens
      /\ first' = first /\ text' = text /\ b' = In!ii_mark_start(In!ii_unterm(b))
  BY DEF Continue, Resume
<1>2. /\ InP!Held(b, text, Line0) /\ b.been_called
      /\ ~first /\ first = FALSE /\ text \in Seq(Chars)
  BY <1>1, InAnAction DEF InputInv
<1>3. /\ InP!Held(b', text, Line0) /\ b'.termchar = NUL /\ b'.been_called
      /\ StartOf(b', text) = PlaceOf(b', text) /\ EndOf(b', text) = PlaceOf(b', text)
  BY <1>1, <1>2, Restarted
<1>4. Holds(b', text', Line0) /\ b' \in InP!TypeOfBuffer
  BY <1>1, <1>2, <1>3, HeldThen
<1>5. InputInv'
  BY <1>1, <1>2, <1>3, <1>4, FileStays
<1>6. Running'
  BY <1>3, HeldMarks DEF Running
<1> QED BY <1>1, <1>3, <1>5, <1>6 DEF Start, End, Place

\* The action ends with yymore().
LEMMA MoreKeeps ==
  ASSUME InputInv, More
  PROVE  InputInv' /\ Running'
<1>1. /\ Running /\ at = "action" /\ at' = "scan" /\ opens' = opens
      /\ first' = first /\ text' = text /\ b' = In!ii_unterm(b)
  BY DEF More, InAction, Resume
<1>2. /\ InP!Held(b, text, Line0) /\ b.been_called
      /\ ~first /\ first = FALSE /\ text \in Seq(Chars)
  BY <1>1, InAnAction DEF InputInv
<1>3. InP!Held(b', text, Line0) /\ b'.termchar = NUL /\ b'.been_called
  BY <1>1, <1>2, UntermPlaces
<1>4. Holds(b', text', Line0) /\ b' \in InP!TypeOfBuffer
  BY <1>1, <1>2, <1>3, HeldThen
<1>5. InputInv'
  BY <1>1, <1>2, <1>3, <1>4, FileStays
<1>6. Running'
  BY <1>3, HeldMarks DEF Running
<1> QED BY <1>5, <1>6

\* The parser marks the lexeme it shifts.
LEMMA ParserMarksKeeps ==
  ASSUME InputInv, ParserMarksLexeme
  PROVE  InputInv'
<1>1. /\ Running /\ at = "call" /\ at' = at /\ opens' = opens /\ ~first
      /\ first' = first /\ text' = text /\ b' = In!ii_mark_prev(b)
  BY DEF ParserMarksLexeme
<1>2. first = FALSE /\ text \in Seq(Chars)
  BY <1>1 DEF InputInv
<1>3. InP!Held(b, text, Line0) /\ b.been_called
  BY <1>1, HeldNow DEF Loaded
<1>4. InP!Held(b', text, Line0) /\ b'.been_called
  BY <1>1, <1>3, MarkPrevPlaces
<1>5. Holds(b', text', Line0) /\ b' \in InP!TypeOfBuffer
  BY <1>1, <1>2, <1>4, HeldThen
<1> QED BY <1>1, <1>2, <1>4, <1>5, FileStays

\* The steps that leave the input system alone.
LEMMA QuietKeeps ==
  ASSUME InputInv, EndOfFile \/ Return \/ UNCHANGED vars
  PROVE  InputInv'
<1>1. b' = b /\ text' = text /\ opens' = opens /\ first' = first
  BY DEF EndOfFile, Return, vars
<1>2. CASE at' = at
  BY <1>1, <1>2 DEF InputInv, Running, Loaded, Line0, Holds, JustOpened, States
<1>3. CASE EndOfFile \/ Return
  <2>1. /\ Running /\ at \in {"scan", "action"} /\ at' \in {"call", "eof"}
        /\ at = "scan" => at' = "eof"
        /\ at = "action" => at' = "call"
    BY <1>3 DEF EndOfFile, Return, Scanning
  <2>2. first = FALSE /\ text \in Seq(Chars) /\ b \in InP!TypeOfBuffer
    BY <2>1 DEF InputInv
  <2>3. Holds(b, text, Line0) /\ b.been_called
    BY <2>1, <2>2 DEF InputInv, Loaded
  <2>4. b.termchar # NUL => at' \in {"action", "call"}
    BY <2>1 DEF InputInv
  <2> QED BY <1>1, <2>1, <2>2, <2>3, <2>4, FileStays
<1> QED BY <1>2, <1>3 DEF vars

\* In the initial state a file has just been opened.
LEMMA InitInput == Init => InputInv
<1> SUFFICES ASSUME Init PROVE InputInv
  OBVIOUS
<1>1. /\ opens = 0 /\ at = "call" /\ first = TRUE /\ text \in Files
      /\ b = [buf |-> [i \in In!Index |-> NUL], end_buf |-> In!BUFSIZE,
              next |-> In!BUFSIZE, smark |-> In!BUFSIZE, emark |-> In!BUFSIZE,
              pmark |-> In!NULL, plineno |-> 0, plength |-> 0, lineno |-> 1,
              mline |-> 1, termchar |-> NUL, eof_read |-> FALSE,
              been_called |-> FALSE, unread |-> Len(text), exit |-> "no"]
  BY DEF Init, In!Init
<1>2. text \in Seq(Chars) /\ Len(text) \in Nat /\ MaxOpens \in Nat /\ NUL \in Chars
  BY <1>1, InputAssumed DEF InP!CharsAssumption, InP!BoundsAssumption
<1>3. /\ In!BUFSIZE = InP!BUFSIZE /\ InP!BUFSIZE \in Nat /\ In!NULL = InP!NULL
      /\ In!Index = InP!Index
  BY SameSizes, InP!Sizes, InputAssumed
<1>4. PICK size \in Nat, none \in {InP!NULL}, len \in Nat,
           buf \in [InP!Index -> Chars] :
        /\ size = InP!BUFSIZE /\ len = Len(text)
        /\ buf = [i \in InP!Index |-> NUL]
  BY <1>2, <1>3
<1>5. size \in 0 .. size /\ 0 \in Int /\ 1 \in Int /\ none = InP!NULL
  OBVIOUS
<1>6. b = [buf |-> buf, end_buf |-> size, next |-> size, smark |-> size,
           emark |-> size, pmark |-> none, plineno |-> 0, plength |-> 0,
           lineno |-> 1, mline |-> 1, termchar |-> NUL, eof_read |-> FALSE,
           been_called |-> FALSE, unread |-> len, exit |-> "no"]
  BY <1>1, <1>3, <1>4, <1>5
<1>7. b \in InP!TypeOfBuffer
  BY <1>2, <1>4, <1>5, <1>6 DEF InP!TypeOfBuffer
<1>8. InP!Counted(b, text, 1)
  BY <1>1, <1>3, <1>4, <1>6, OpenedCounted
<1>9. JustOpened(b, text, 1)
  BY <1>3, <1>4, <1>5, <1>6, <1>7, <1>8 DEF JustOpened, InP!Fresh
<1>10. Line0 = 1 /\ ~Loaded /\ opens \in 0 .. MaxOpens
  BY <1>1, <1>2 DEF Line0, Loaded
<1> QED BY <1>1, <1>2, <1>6, <1>7, <1>9, <1>10 DEF InputInv, Running

\* Every step keeps the input system sound.
LEMMA InputKept == InputInv /\ [Next]_vars => InputInv'
<1> SUFFICES ASSUME InputInv, [Next]_vars PROVE InputInv'
  OBVIOUS
<1>1. CASE Call
  BY <1>1, CallKeeps
<1>2. CASE NextFile
  BY <1>2, NextFileKeeps
<1>3. CASE Load
  BY <1>3, LoadKeeps
<1>4. CASE Transition
  BY <1>4, TransitionKeeps
<1>5. CASE BadInput
  BY <1>5, BadInputKeeps
<1>6. CASE Accept
  BY <1>6, AcceptKeeps
<1>7. CASE Input
  BY <1>7, InputKeeps
<1>8. CASE InputTooLong
  BY <1>8, InputTooLongKeeps
<1>9. CASE Unput
  BY <1>9, UnputKeeps
<1>10. CASE Yyless
  BY <1>10, YylessKeeps
<1>11. CASE Continue
  BY <1>11, ContinueKeeps
<1>12. CASE More
  BY <1>12, MoreKeeps
<1>13. CASE ParserMarksLexeme
  BY <1>13, ParserMarksKeeps
<1>14. CASE EndOfFile \/ Return \/ UNCHANGED vars
  BY <1>14, QuietKeeps
<1> QED BY <1>1, <1>2, <1>3, <1>4, <1>5, <1>6, <1>7, <1>8, <1>9, <1>10, <1>11,
           <1>12, <1>13, <1>14 DEF Next, Scan, Action

-----------------------------------------------------------------------------
(* The driver's variables, and where its lexemes begin.                    *)

\* The machine of one analyzer.
LEMMA Machine ==
  ASSUME DriverInv
  PROVE  /\ 0 \in States /\ YYF \notin States
         /\ \A q \in States : table.accept[q] \in 0 .. 4
         /\ \A q \in States, c \in Chars : table.nxt[q][c] \in States \cup {YYF}
         /\ \A c \in Chars : table.nxt[0][c] # YYF =>
              table.accept[table.nxt[0][c]] # 3
<1>1. PICK t \in Analyzers : t = table
  BY DEF DriverInv
<1>2. PICK S : S = DOMAIN t.accept
  OBVIOUS
<1>3. /\ 0 \in S /\ YYF \notin S /\ t.accept \in [S -> 0 .. 4]
      /\ t.nxt \in [S -> [Chars -> S \cup {YYF}]]
      /\ \A c \in Chars : t.nxt[0][c] # YYF => t.accept[t.nxt[0][c]] # 3
  BY <1>2, AnalyzersAssumption
<1> QED BY <1>1, <1>2, <1>3 DEF States

\* A transition is on a character, to a state of the machine.
LEMMA OnCharacter ==
  ASSUME InputInv, DriverInv, Transition
  PROVE  /\ yystate \in States /\ yylook \in Chars
         /\ yynstate = table.nxt[yystate][yylook] /\ yynstate \in States
         /\ table.accept[yynstate] \in 0 .. 4
         /\ In!ii_look(b, 1) = text[Place + 1]
<1>1. Running /\ at = "scan" /\ yynstate # YYF
  BY DEF Transition, Scanning
<1>2. /\ InP!Held(b, text, Line0) /\ b.termchar = NUL /\ ~first
      /\ text \in Seq(Chars) /\ Place \in Nat /\ Len(text) \in Nat
  BY <1>1, Unterminated DEF InputInv
<1>3. yylook # EOF /\ Place < Len(text)
  BY TransitionKeeps
<1>4. In!ii_look(b, 1) = text[Place + 1]
  BY <1>2, <1>3, LookIsNext DEF Place
<1>5. Place + 1 \in 1 .. Len(text)
  BY <1>2, <1>3
<1>6. text[Place + 1] \in Chars
  BY <1>2, <1>5
<1>7. yystate \in States
  BY <1>2 DEF DriverInv
<1>8. yynstate = table.nxt[yystate][yylook]
  BY <1>3 DEF yynstate
<1>9. yynstate \in States
  BY <1>1, <1>4, <1>6, <1>7, <1>8, Machine DEF yylook
<1> QED BY <1>4, <1>6, <1>7, <1>8, <1>9, Machine DEF yylook

\* Scanning taken up.
LEMMA ResumeKeeps ==
  ASSUME InputInv', DriverInv, NEW state \in States, NEW more \in BOOLEAN,
         Resume(state, more), UNCHANGED <<table, lexeme>>
  PROVE  DriverInv' /\ scan'.at = Place'
<1>1. Cur' = Place' /\ Place' \in Int
  BY CurIsPlace DEF Cur
<1>2. /\ at' = "scan" /\ yystate' = state /\ yylastaccept' = 0
      /\ scan' = [at |-> Cur', state |-> state, more |-> more]
      /\ yyprev' = yyprev /\ yyanchor' = yyanchor
      /\ table' = table /\ yytext' = yytext /\ yyleng' = yyleng
  BY DEF Resume, lexeme
<1>3. States' = States /\ 0 \in States
  BY <1>2, Machine DEF States
<1>4. scan' \in [at : Int, state : States \cup {YYF}, more : BOOLEAN]
  BY <1>1, <1>2
<1>5. scan'.at = Place'
  BY <1>1, <1>2
<1> QED BY <1>2, <1>3, <1>4, <1>5 DEF DriverInv

\* The driver's variables keep their types.
LEMMA DriverKept ==
  ASSUME InputInv, InputInv', DriverInv, [Next]_vars
  PROVE  DriverInv'
<1>0. 0 \in States /\ \A q \in States : table.accept[q] \in 0 .. 4
  BY Machine
<1>1. CASE Call \/ BadInput \/ Continue
  <2>1. Resume(0, FALSE) /\ UNCHANGED <<table, lexeme>>
    BY <1>1 DEF Call, BadInput, Continue
  <2> QED BY <1>0, <2>1, ResumeKeeps
<1>2. CASE More
  <2>1. Resume(yyprev, TRUE) /\ UNCHANGED <<table, lexeme>> /\ yyprev \in States
    BY <1>2 DEF More, DriverInv
  <2> QED BY <2>1, ResumeKeeps
<1>3. CASE EndOfFile
  BY <1>3, SameSizes DEF EndOfFile, DriverInv, States, driver
<1>4. CASE NextFile
  BY <1>4 DEF NextFile, DriverInv, States, driver, lexeme
<1>5. CASE Load
  <2>1. /\ at' = "scan" /\ UNCHANGED <<table, driver, lexeme, first>>
        /\ scan' = [at |-> 0, state |-> IF yystate = 0 THEN 0 ELSE YYF, more |-> FALSE]
    BY <1>5 DEF Load
  <2>2. scan' \in [at : Int, state : States \cup {YYF}, more : BOOLEAN]
    BY <1>0, <2>1
  <2> QED BY <2>1, <2>2 DEF DriverInv, States, driver, lexeme
<1>6. CASE Transition
  <2>1. /\ at = "scan" /\ at' = at /\ first' = first /\ table' = table
        /\ yytext' = yytext /\ yyleng' = yyleng
        /\ yyanchor' = table.accept[yynstate] /\ yystate' = yynstate
        /\ yylastaccept' \in {yynstate, yylastaccept} /\ yyprev' \in {yystate, yyprev}
        /\ scan' = IF In!Refused(b) THEN [scan EXCEPT !.state = YYF] ELSE scan
    BY <1>6 DEF Transition, Scanning, LastAccept, lexeme
  <2>2. yynstate \in States /\ yystate \in States /\ table.accept[yynstate] \in 0 .. 4
    BY <1>6, OnCharacter
  <2>3. States' = States
    BY <2>1 DEF States
  <2>4. scan' \in [at : Int, state : States \cup {YYF}, more : BOOLEAN]
    BY <2>1 DEF DriverInv
  <2> QED BY <2>1, <2>2, <2>3, <2>4 DEF DriverInv
<1>7. CASE Accept
  <2>1. /\ at' = "action" /\ first' = first /\ table' = table
        /\ yytext' = b'.smark /\ yyleng' = b'.emark - b'.smark
        /\ UNCHANGED <<driver, scan>>
    BY <1>7 DEF Accept
  <2>2. b'.smark \in InP!Index /\ b' \in InP!TypeOfBuffer
    BY <1>7, AcceptKeeps DEF InputInv
  <2>3. yyleng' \in Int
    <3>1. b'.emark \in Nat /\ b'.smark \in Nat
      BY <2>2, InP!Fields, InputAssumed
    <3> QED BY <2>1, <3>1
  <2> QED BY <2>1, <2>2, <2>3 DEF DriverInv, States, driver
<1>8. CASE Input
  <2>1. /\ at' = "action" /\ UNCHANGED <<table, driver, scan, first>>
        /\ \/ yytext' = b'.smark /\ yyleng' = yyleng + 1
           \/ UNCHANGED lexeme
    BY <1>8 DEF Input, InAction
  <2>2. b'.smark \in InP!Index
    BY <1>8, InputKeeps
  <2> QED BY <2>1, <2>2 DEF DriverInv, States, driver, lexeme
<1>9. CASE InputTooLong
  <2>1. /\ at' = "action" /\ UNCHANGED <<table, driver, lexeme, first>>
        /\ scan' = [scan EXCEPT !.state = YYF]
    BY <1>9 DEF InputTooLong, InAction
  <2>2. scan' \in [at : Int, state : States \cup {YYF}, more : BOOLEAN]
    BY <2>1 DEF DriverInv
  <2> QED BY <2>1, <2>2 DEF DriverInv, States, driver, lexeme
<1>10. CASE Unput
  BY <1>10 DEF Unput, InAction, DriverInv, States, driver
<1>11. CASE Yyless
  <2>1. at' = "action" /\ UNCHANGED <<table, driver, yytext, scan, first>>
    BY <1>11 DEF Yyless, InAction
  <2>2. yyleng' \in Int
    <3>1. PICK n \in 1 .. 2 : yyleng' = LengthLess(n)
      BY <1>11 DEF Yyless
    <3>2. yyleng \in Int
      BY DEF DriverInv
    <3> QED BY <3>1, <3>2 DEF LengthLess
  <2> QED BY <2>1, <2>2 DEF DriverInv, States, driver
<1>12. CASE Return
  BY <1>12 DEF Return, DriverInv, States, driver, lexeme
<1>13. CASE ParserMarksLexeme
  BY <1>13 DEF ParserMarksLexeme, DriverInv, States, driver, lexeme
<1>14. CASE UNCHANGED vars
  BY <1>14 DEF vars, DriverInv, States, driver, lexeme
<1> QED BY <1>1, <1>2, <1>3, <1>4, <1>5, <1>6, <1>7, <1>8, <1>9, <1>10, <1>11,
           <1>12, <1>13, <1>14 DEF Next, Scan, Action

\* Taking up scanning in state 0 begins a lexeme there.
LEMMA ScanBegins ==
  ASSUME InputInv', Resume(0, FALSE), Start' = Place'
  PROVE  ScanInv'
<1>1. Cur' = Place' /\ Place' \in Int
  BY CurIsPlace DEF Cur
<1>2. /\ yystate' = 0 /\ yylastaccept' = 0
      /\ scan' = [at |-> Cur', state |-> 0, more |-> FALSE]
  BY DEF Resume
<1>3. PICK p \in Int : p = Place'
  BY <1>1
<1>4. scan' = [at |-> p, state |-> 0, more |-> FALSE]
  BY <1>1, <1>2, <1>3, Zenon
<1>5. scan'.at = p /\ scan'.state = 0
  BY <1>4
<1>6. p # p + 1
  OBVIOUS
<1> QED BY <1>2, <1>3, <1>5, <1>6 DEF ScanInv

\* Where a lexeme begins, and the anchor of what accepts, through every step.
LEMMA ScanKept ==
  ASSUME InputInv, InputInv', DriverInv, ScanInv, [Next]_vars
  PROVE  ScanInv'
<1> SUFFICES ASSUME Running', at' = "scan", scan'.state # YYF, ~scan'.more
             PROVE  ScanInv'
  BY DEF ScanInv
<1>1. CASE Call
  BY <1>1, CallKeeps, ScanBegins DEF Call
<1>2. CASE BadInput
  BY <1>2, BadInputKeeps, ScanBegins DEF BadInput
<1>3. CASE Continue
  BY <1>3, ContinueKeeps, ScanBegins DEF Continue
<1>4. CASE More
  <2>1. scan' = [at |-> Cur', state |-> yyprev, more |-> TRUE]
    BY <1>4 DEF More, Resume
  <2> QED BY <2>1
<1>5. CASE Load
  <2>1. /\ scan' = [at |-> 0, state |-> IF yystate = 0 THEN 0 ELSE YYF, more |-> FALSE]
        /\ yystate' = yystate /\ yylastaccept' = yylastaccept /\ at = "load"
    BY <1>5 DEF Load, driver
  <2>2. yylastaccept = 0
    BY <2>1 DEF DriverInv
  <2>3. Start' = 0 /\ End' = 0 /\ Place' = 0
    BY <1>5, LoadKeeps
  <2>4. scan'.at = 0 /\ scan'.state = 0 /\ yystate = 0
    BY <2>1
  <2> QED BY <2>1, <2>2, <2>3, <2>4 DEF ScanInv
<1>6. CASE Transition
  <2>1. /\ Running /\ at = "scan" /\ table' = table
        /\ yyanchor' = table.accept[yynstate] /\ yystate' = yynstate
        /\ scan' = IF In!Refused(b) THEN [scan EXCEPT !.state = YYF] ELSE scan
    BY <1>6 DEF Transition, Scanning
  <2>2. ~In!Refused(b)
    <3> SUFFICES ASSUME In!Refused(b) PROVE FALSE
      OBVIOUS
    <3>1. scan'.state = YYF
      BY <2>1 DEF DriverInv
    <3> QED BY <3>1
  <2>3. scan' = scan
    BY <2>1, <2>2
  <2>4. /\ scan.state = 0 /\ Start = scan.at
        /\ Place = scan.at => yystate = 0
    BY <2>1, <2>3 DEF ScanInv
  <2>5. Start' = Start /\ Place' = Place + 1
        /\ End' = IF Accepts(yynstate) THEN Place' ELSE End
    BY <1>6, <2>2, TransitionKeeps
  <2>6. Start \in Nat /\ Place \in Nat /\ Start <= Place
    <3>1. InP!Held(b, text, Line0)
      BY <2>1, Unterminated
    <3> QED BY <3>1, HeldMarks DEF Start, Place
  <2>7. /\ yystate \in States /\ yylook \in Chars
        /\ yynstate = table.nxt[yystate][yylook]
    BY <1>6, OnCharacter
  <2>8. Place' # scan.at /\ (Place' = scan.at + 1 => Place = scan.at)
    BY <2>4, <2>5, <2>6
  <2>9. yyanchor' # 0 => End' = Place'
    BY <2>1, <2>5 DEF Accepts
  <2>10. Place' = scan.at + 1 => \E c \in Chars : yystate' = table'.nxt[0][c]
    BY <2>1, <2>4, <2>7, <2>8
  <2> QED BY <2>1, <2>3, <2>4, <2>5, <2>8, <2>9, <2>10 DEF ScanInv
<1>7. CASE UNCHANGED vars
  BY <1>7 DEF vars, driver, ScanInv, Running, Start, Place, End
<1>8. CASE EndOfFile \/ NextFile \/ Accept \/ Input \/ InputTooLong \/ Unput \/ Yyless
           \/ Return \/ ParserMarksLexeme
  BY <1>8 DEF EndOfFile, NextFile, Accept, Input, InputTooLong, Unput, Yyless, Return,
              ParserMarksLexeme, InAction
<1> QED BY <1>1, <1>2, <1>3, <1>4, <1>5, <1>6, <1>7, <1>8 DEF Next, Scan, Action

\* The anchors of a state that accepts: 0 to 4, one bit for each side.
LEMMA Sides ==
  ASSUME NEW a \in 0 .. 4
  PROVE  /\ Anchored(a, START) <=> a \in {1, 3}
         /\ Anchored(a, END) <=> a \in {2, 3}
<1>1. START = 1 /\ END = 2
  BY DEF START, END
<1>2. a = 0 \/ a = 1 \/ a = 2 \/ a = 3 \/ a = 4
  OBVIOUS
<1>3. /\ 0 \div 1 = 0 /\ 1 \div 1 = 1 /\ 2 \div 1 = 2 /\ 3 \div 1 = 3 /\ 4 \div 1 = 4
      /\ 0 \div 2 = 0 /\ 1 \div 2 = 0 /\ 2 \div 2 = 1 /\ 3 \div 2 = 1 /\ 4 \div 2 = 2
      /\ 0 % 2 = 0 /\ 1 % 2 = 1 /\ 2 % 2 = 0 /\ 3 % 2 = 1 /\ 4 % 2 = 0
  OBVIOUS
<1> QED BY <1>1, <1>2, <1>3 DEF Anchored

\* What Accept leaves for the action.
LEMMA LexemeAccepted ==
  ASSUME InputInv, InputInv', DriverInv, ScanInv, Accept
  PROVE  LexemeInv'
<1>1. /\ Running /\ at = "scan" /\ yylastaccept # 0
      /\ yytext' = b'.smark /\ yyleng' = b'.emark - b'.smark
      /\ scan' = scan /\ yyanchor' = yyanchor
  BY DEF Accept, Scanning, driver
<1>2. /\ b'.emark = b'.next
      /\ Place' = IF Anchored(yyanchor, END)
                  THEN IF End - 1 > Start THEN End - 1 ELSE Start
                  ELSE End
      /\ Start' = IF Anchored(yyanchor, START) /\ Start < Place' THEN Start + 1
                  ELSE Start
  BY AcceptKeeps
<1>3. ASSUME scan.state # YYF, ~scan.more
      PROVE  Start' = scan.at + (IF Anchored(yyanchor, START) THEN 1 ELSE 0)
  <2>1. /\ Start = scan.at
        /\ Place # scan.at /\ yyanchor = table.accept[yystate]
        /\ Place = scan.at + 1 => \E c \in Chars : yystate = table.nxt[0][c]
        /\ yyanchor # 0 => End = Place
    BY <1>1, <1>3 DEF ScanInv
  <2>2. Start \in Nat /\ End \in Nat /\ Place \in Nat /\ Start <= Place
    <3>1. InP!Held(b, text, Line0)
      BY <1>1, Unterminated
    <3>2. /\ Start \in Nat /\ End \in Nat /\ Place \in Nat
          /\ Start <= End /\ End <= Place
      BY <3>1, HeldMarks DEF Start, End, Place
    <3> QED BY <3>2
  <2>3. yyanchor \in 0 .. 4 /\ scan.at \in Int
    BY DEF DriverInv
  <2>4. CASE yyanchor \in {1, 3}
    <3>1. Anchored(yyanchor, START) /\ End = Place /\ Start < Place
      BY <2>1, <2>2, <2>3, <2>4, Sides
    <3>2. Start < Place'
      <4>1. CASE yyanchor = 1
        <5>1. ~Anchored(yyanchor, END)
          BY <2>3, <4>1, Sides
        <5> QED BY <1>2, <3>1, <5>1
      <4>2. CASE yyanchor = 3
        <5>1. Place # scan.at + 1
          <6> SUFFICES ASSUME Place = scan.at + 1 PROVE FALSE
            OBVIOUS
          <6>1. PICK c \in Chars : yystate = table.nxt[0][c]
            BY <2>1
          <6>2. yystate # YYF
            <7>1. ~first
              BY <1>1, Unterminated
            <7>2. yystate \in States
              BY <7>1 DEF DriverInv
            <7> QED BY <7>2, Machine
          <6>3. table.accept[yystate] # 3
            BY <6>1, <6>2, Machine
          <6> QED BY <2>1, <4>2, <6>3
        <5>2. Anchored(yyanchor, END)
          BY <2>3, <4>2, Sides
        <5>3. End - 1 > Start
          BY <2>1, <2>2, <3>1, <5>1
        <5>4. Place' = End - 1
          BY <1>2, <5>2, <5>3
        <5> QED BY <5>3, <5>4, <2>2
      <4> QED BY <2>4, <4>1, <4>2
    <3> QED BY <1>2, <2>1, <3>1, <3>2
  <2>5. CASE yyanchor \notin {1, 3}
    <3>1. ~Anchored(yyanchor, START)
      BY <2>3, <2>5, Sides
    <3> QED BY <1>2, <2>1, <2>3, <3>1
  <2> QED BY <2>4, <2>5
<1> QED BY <1>1, <1>2, <1>3 DEF LexemeInv

\* input() in an action lengthens the lexeme.
LEMMA LexemeLengthened ==
  ASSUME InP!NulFree, InputInv, DriverInv, LexemeInv, Input
  PROVE  LexemeInv'
<1> SUFFICES ASSUME Running', scan.state # YYF
             PROVE  /\ yytext' = b'.smark /\ yyleng' = b'.next - b'.smark
                    /\ Start' = Start
  BY DEF LexemeInv, Input, InAction, driver
<1>1. /\ Running /\ at = "action" /\ yytext = b.smark /\ yyleng = b.next - b.smark
  BY DEF Input, InAction, LexemeInv
<1>2. /\ InP!Held(b, text, Line0) /\ ~first /\ Cur = Place
      /\ Place \in Nat /\ Place <= Len(text) /\ Len(text) \in Nat
  BY <1>1, InAnAction DEF Cur
<1>3. /\ Start' = Start
      /\ Place' = IF Place < Len(text) THEN Place + 1 ELSE Place
      /\ Place = Len(text) => b'.smark = b.smark
  BY InputKeeps
<1>4. Place - Start = b.next - b.smark
  BY <1>2, HeldMarks DEF Place, Start
<1>5. Place' - Start' = b'.next - b'.smark
  <2>1. InputInv'
    BY InputKeeps
  <2>2. at' = "action" /\ first' = first
    BY DEF Input, InAction
  <2>3. Holds(b', text', Line0') /\ InP!Base(b', text') \in Int
        /\ b'.next \in Nat /\ b'.smark \in Nat
    <3>1. Holds(b', text', Line0') /\ b' \in InP!TypeOfBuffer /\ text' \in Seq(Chars)
      BY <1>2, <2>1, <2>2 DEF InputInv, Loaded
    <3>2. /\ b'.unread \in Nat /\ b'.end_buf \in Nat /\ b'.next \in Nat
          /\ b'.smark \in Nat
      BY <3>1, InP!Fields, InputAssumed
    <3>3. Len(text') \in Nat
      BY <3>1
    <3> QED BY <3>1, <3>2, <3>3 DEF InP!Base
  <2> QED BY <2>3 DEF Place, Start, PlaceOf, StartOf
<1>6. Start \in Nat /\ b.next \in Nat /\ b.smark \in Nat
  BY <1>2, HeldMarks DEF Start
<1>7. CASE Place < Len(text)
  <2>1. In!ii_lookahead(b, 1) = text[Place + 1]
    BY <1>2, <1>7, LookIsNext DEF Place
  <2>2. text[Place + 1] # NUL
    <3>1. InP!Counted(b, text, Line0)
      BY <1>2, InP!HeldFacts, InputAssumed
    <3>2. Place + 1 \in 1 .. Len(text)
      BY <1>2, <1>7
    <3> QED BY <3>1, <3>2 DEF InP!Counted
  <2>3. yytext' = b'.smark /\ yyleng' = yyleng + 1
    BY <1>2, <1>7, <2>1, <2>2 DEF Input
  <2> QED BY <1>1, <1>2, <1>3, <1>4, <1>5, <1>6, <1>7, <2>3
<1>8. CASE Place = Len(text)
  <2>1. UNCHANGED lexeme
    BY <1>2, <1>8 DEF Input
  <2> QED BY <1>1, <1>2, <1>3, <1>4, <1>5, <1>6, <1>8, <2>1 DEF lexeme
<1> QED BY <1>2, <1>7, <1>8

\* unput() and yyless() shorten it.
LEMMA LexemeShortened ==
  ASSUME InputInv, DriverInv, LexemeInv, Unput \/ Yyless
  PROVE  LexemeInv'
<1> SUFFICES ASSUME scan.state # YYF
             PROVE  /\ yytext' = b'.smark /\ yyleng' = b'.next - b'.smark
                    /\ Start' = Start
  BY DEF LexemeInv, Unput, Yyless, InAction, driver
<1>1. /\ Running /\ at = "action" /\ yytext = b.smark /\ yyleng = b.next - b.smark
      /\ yytext' = yytext
  BY DEF Unput, Yyless, InAction, LexemeInv
<1>2. b.next \in Nat /\ b.smark \in Nat
  <2>1. InP!Held(b, text, Line0)
    BY <1>1, InAnAction
  <2> QED BY <2>1, HeldMarks
<1>3. CASE Unput
  <2>1. yyleng > 0 /\ yyleng' = yyleng - 1
    BY <1>3 DEF Unput
  <2>2. b'.smark = b.smark /\ b'.next = b.next - 1 /\ Start' = Start
    BY <1>1, <1>3, <2>1, UnputKeeps
  <2> QED BY <1>1, <1>2, <2>1, <2>2
<1>4. CASE Yyless
  <2>1. PICK n \in 1 .. 2, p \in InP!TypeOfBuffer :
              /\ p = In!ii_pushback(In!ii_unterm(b), n)
              /\ yyleng' = LengthLess(n)
              /\ p.next = (IF b.next - n > b.smark THEN b.next - n ELSE b.smark)
              /\ p.smark = b.smark
              /\ b'.next = p.next /\ b'.smark = b.smark /\ Start' = Start
    BY <1>4, YylessKeeps
  <2>2. yyleng' = yyleng - (IF p.next > p.smark THEN n ELSE yyleng)
    BY <2>1 DEF LengthLess
  <2> QED BY <1>1, <1>2, <2>1, <2>2
<1> QED BY <1>3, <1>4

\* The lexeme through every step.
LEMMA LexemeKept ==
  ASSUME InP!NulFree, InputInv, InputInv', DriverInv, ScanInv, LexemeInv, [Next]_vars
  PROVE  LexemeInv'
<1>1. CASE Accept
  BY <1>1, LexemeAccepted
<1>2. CASE Input
  BY <1>2, LexemeLengthened
<1>3. CASE Unput \/ Yyless
  BY <1>3, LexemeShortened
<1>4. CASE InputTooLong
  <2>1. scan'.state = YYF
    BY <1>4 DEF InputTooLong, DriverInv
  <2> QED BY <2>1 DEF LexemeInv
<1>5. CASE UNCHANGED vars
  BY <1>5 DEF vars, driver, lexeme, LexemeInv, Running, Start
<1>6. CASE Call \/ EndOfFile \/ NextFile \/ Load \/ Transition \/ BadInput
           \/ Continue \/ More \/ Return \/ ParserMarksLexeme
  <2>1. at' # "action"
    BY <1>6 DEF Call, EndOfFile, NextFile, Load, Transition, BadInput, Continue, More,
                Return, ParserMarksLexeme, Resume, Scanning
  <2> QED BY <2>1 DEF LexemeInv
<1> QED BY <1>1, <1>2, <1>3, <1>4, <1>5, <1>6 DEF Next, Scan, Action

-----------------------------------------------------------------------------
(* The theorems.                                                           *)

Inv == InputInv /\ DriverInv /\ ScanInv

\* Before the first call nothing has been scanned.
LEMMA InitInv == Init => Inv /\ LexemeInv
<1> SUFFICES ASSUME Init PROVE Inv /\ LexemeInv
  OBVIOUS
<1>1. InputInv
  BY InitInput
<1>2. /\ at = "call" /\ first = TRUE /\ table \in Analyzers
      /\ yystate = YYF /\ yylastaccept = 0 /\ yyprev = 0 /\ yyanchor = 0
      /\ yytext = In!NULL /\ yyleng = 0
      /\ scan = [at |-> 0, state |-> YYF, more |-> FALSE]
  BY DEF Init
<1>3. 0 \in States
  BY <1>2, AnalyzersAssumption DEF States
<1>4. DriverInv
  BY <1>2, <1>3, SameSizes DEF DriverInv
<1> QED BY <1>1, <1>2, <1>4 DEF Inv, ScanInv, LexemeInv

\* The invariant holds.
LEMMA InvHolds == Spec => []Inv
<1>1. Init => Inv
  BY InitInv
<1>2. Inv /\ [Next]_vars => Inv'
  BY InputKept, DriverKept, ScanKept DEF Inv
<1> QED BY <1>1, <1>2, PTL DEF Spec

\* The driver calls the input system only in the ways it can bear: whatever
\* the tables, the files and the actions of the rules, its own variables and
\* the buffer's keep their types, and the marks stay in order and inside the
\* buffer, with room for the terminators.
THEOREM DriverTypeCorrect == Spec => []TypeOK
<1>1. Inv => TypeOK
  <2> SUFFICES ASSUME InputInv, DriverInv PROVE TypeOK
    BY DEF Inv
  <2>1. In!TypeOK
    <3>1. b \in In!TypeOfBuffer /\ text \in Seq(Chars) /\ opens \in 0 .. MaxOpens
      BY SameTypes DEF InputInv
    <3> QED BY <3>1 DEF In!TypeOK
  <2>2. In!MarksInOrder
    <3> SUFFICES ASSUME Running, Loaded PROVE In!MarksInOrder
      BY DEF In!MarksInOrder, In!Running, Running, Loaded
    <3>1. InP!Held(b, text, Line0)
      BY HeldNow
    <3>2. InP!Ordered(b) /\ b.next < InP!BUFSIZE
      BY <3>1, InP!HeldFacts, InputAssumed
    <3> QED BY <3>2, SameSizes DEF In!MarksInOrder, InP!Ordered
  <2>3. at \in {"call", "scan", "load", "action", "eof"}
    BY DEF InputInv
  <2>4. /\ yystate \in DOMAIN table.accept \cup {YYF}
        /\ yylastaccept \in DOMAIN table.accept /\ yyprev \in DOMAIN table.accept
        /\ yyanchor \in 0 .. 4 /\ yytext \in In!Index \cup {In!NULL} /\ yyleng \in Int
    BY SameSizes DEF DriverInv, States
  <2> QED BY <2>1, <2>2, <2>3, <2>4 DEF TypeOK
<1> QED BY <1>1, InvHolds, PTL

\* The text a rule's action sees is the text from where its lexeme starts to
\* the cursor, when no file holds a NUL: input() takes a NUL for the end of
\* the file and leaves yyleng alone (lex.m:82).
THEOREM ActionsSeeLexeme ==
  ASSUME Files \subseteq Seq(Chars \ {NUL}) PROVE Spec => []ActionSeesLexeme
<1>1. InP!NulFree
  <2>1. ASSUME NEW f \in Files, NEW j \in 1 .. Len(f) PROVE f[j] # NUL
    <3>1. f \in Seq(Chars \ {NUL})
      OBVIOUS
    <3>2. f[j] \in Chars \ {NUL}
      BY <3>1
    <3> QED BY <3>2
  <2> QED BY <2>1 DEF InP!NulFree
<1>2. Init => Inv /\ LexemeInv
  BY InitInv
<1>3. Inv /\ Inv' /\ LexemeInv /\ [Next]_vars => LexemeInv'
  BY <1>1, LexemeKept DEF Inv
<1>4. Inv /\ LexemeInv => ActionSeesLexeme
  <2> SUFFICES ASSUME InputInv, DriverInv, LexemeInv, Running, at = "action",
                      scan.state # YYF
               PROVE  ActionSeesLexeme
    BY DEF Inv, ActionSeesLexeme
  <2>1. /\ yytext = b.smark /\ yyleng = b.next - b.smark
        /\ ~scan.more =>
             Start = scan.at + (IF Anchored(yyanchor, START) THEN 1 ELSE 0)
    BY DEF LexemeInv
  <2>2. InP!Held(b, text, Line0) /\ Cur = Place
    BY InAnAction DEF Cur
  <2>3. /\ InP!Base(b, text) \in Int /\ b.smark \in Nat /\ b.next \in Nat
        /\ InP!LeftEdge(b) \in Nat /\ InP!LeftEdge(b) <= b.smark
        /\ InP!Shows(b, text) /\ InP!Ordered(b) /\ b \in InP!TypeOfBuffer
    BY <2>2, HeldMarks, InP!HeldFacts, InputAssumed
  <2>4. b.end_buf \in Nat /\ b.next <= b.end_buf
    BY <2>3, InP!Fields, InputAssumed DEF InP!Ordered
  <2>5. PICK base \in Int, start \in Nat, place \in Nat, left \in Nat, end \in Nat :
          /\ base = InP!Base(b, text) /\ start = b.smark /\ place = b.next
          /\ left = InP!LeftEdge(b) /\ end = b.end_buf
    BY <2>3, <2>4
  <2>6. Cur = base + place /\ Start = base + start
    BY <2>2, <2>5 DEF Place, PlaceOf, Start, StartOf
  <2>7. Cur - yyleng = Start
    BY <2>1, <2>5, <2>6
  <2>8. ASSUME NEW i \in 0 .. yyleng - 1
        PROVE  b.buf[yytext + i] = text[Cur - yyleng + i + 1]
    <3>1. PICK k \in Nat : k = start + i /\ k \in left .. end - 1 /\ k # place
      <4>1. left <= start /\ place <= end
        BY <2>3, <2>4, <2>5
      <4>2. i \in Nat /\ i < place - start
        BY <2>1, <2>5, <2>8
      <4> QED BY <4>1, <4>2
    <3>2. b.buf[k] = text[base + k + 1]
      BY <2>3, <2>5, <3>1 DEF InP!Shows
    <3>3. yytext + i = k /\ Cur - yyleng + i + 1 = base + k + 1
      BY <2>1, <2>5, <2>6, <2>7, <3>1
    <3> QED BY <3>2, <3>3
  <2> QED BY <2>1, <2>7, <2>8 DEF ActionSeesLexeme
<1> QED BY <1>2, <1>3, <1>4, InvHolds, PTL DEF Spec

-----------------------------------------------------------------------------
(* The longest match.                                                      *)

\* No rule matches the empty string: state 0 as yylastaccept stands for none.
NoEmptyLexeme == \A t \in Analyzers : t.accept[0] = 0

\* From a state that accepts at the end of a line no longer lexeme is tried:
\* one tried in vain takes the anchor from yyanchor.
EndAnchorsFinal ==
  \A t \in Analyzers : \A q \in DOMAIN t.accept :
    t.accept[q] \in {2, 3} => \A c \in Chars : t.nxt[q][c] = YYF

\* After, of any stream and any tables.
RunOf(x, t, p, q) ==
  LET run[n \in 0 .. Len(x) - p] ==
        IF n = 0 THEN q
        ELSE IF run[n-1] = YYF THEN YYF ELSE t.nxt[run[n-1]][x[p + n]]
  IN run
Run == RunOf(text, table, scan.at, scan.state)

\* What the driver knows of the n characters since scanning was taken up: the
\* machine has run on them, and yylastaccept is the last state that accepts,
\* marked by the end of the lexeme.
Reached(run, n) ==
  /\ run[n] = yystate
  /\ \A m \in 0 .. n : run[m] # YYF
  /\ yylastaccept = 0 => \A m \in 1 .. n : table.accept[run[m]] = 0
  /\ yylastaccept # 0 =>
       /\ yyanchor = table.accept[yystate]
       /\ \E m \in 1 .. n :
            /\ run[m] = yylastaccept /\ table.accept[run[m]] # 0 /\ End = scan.at + m
            /\ \A k \in m + 1 .. n : table.accept[run[k]] = 0

MatchInv ==
  Running /\ at = "scan" /\ scan.state # YYF =>
    /\ scan.at \in 0 .. Place /\ Start <= scan.at
    /\ Reached(Run, Place - scan.at)

\* The tables and the text that a run is on.
LEMMA AfterIsRun ==
  ASSUME NEW p, NEW q
  PROVE  After(p, q) = RunOf(text, table, p, q)
BY Zenon DEF After, RunOf

\* A function that runs the machine on the first n characters after p.
IsRun(f, x, t, p, q, n) ==
  f = [k \in 0 .. n |-> IF k = 0 THEN q
                        ELSE IF f[k-1] = YYF THEN YYF ELSE t.nxt[f[k-1]][x[p + k]]]

\* There is one for every n.
LEMMA RunsExist ==
  ASSUME NEW x, NEW t, NEW p, NEW q
  PROVE  \A n \in Nat : \E f : IsRun(f, x, t, p, q, n)
<1> DEFINE N == {n \in Nat : \E f : IsRun(f, x, t, p, q, n)}
<1>1. 0 \in N
  <2> DEFINE f == [k \in 0 .. 0 |-> q]
  <2>1. IsRun(f, x, t, p, q, 0)
    BY DEF IsRun
  <2> QED BY <2>1
<1>2. ASSUME NEW n \in Nat, n \in N PROVE n + 1 \in N
  <2>1. PICK f : IsRun(f, x, t, p, q, n)
    BY <1>2
  <2> DEFINE next == IF f[n] = YYF THEN YYF ELSE t.nxt[f[n]][x[p + (n + 1)]]
             g == [k \in 0 .. n + 1 |-> IF k = n + 1 THEN next ELSE f[k]]
  <2>2. \A k \in 0 .. n : g[k] = f[k]
    OBVIOUS
  <2>3. ASSUME NEW k \in 0 .. n + 1
        PROVE  g[k] = IF k = 0 THEN q
                      ELSE IF g[k-1] = YYF THEN YYF ELSE t.nxt[g[k-1]][x[p + k]]
    <3>1. CASE k = n + 1
      <4>1. g[k] = next /\ k - 1 = n /\ n \in 0 .. n /\ k # 0
        BY <3>1
      <4>2. g[k-1] = f[n]
        BY <2>2, <4>1
      <4> QED BY <3>1, <4>1, <4>2
    <3>2. CASE k # n + 1
      <4>1. k \in 0 .. n /\ (k # 0 => k - 1 \in 0 .. n)
        BY <3>2
      <4>2. g[k] = f[k] /\ (k # 0 => g[k-1] = f[k-1])
        BY <2>2, <4>1
      <4>3. f[k] = IF k = 0 THEN q
                   ELSE IF f[k-1] = YYF THEN YYF ELSE t.nxt[f[k-1]][x[p + k]]
        BY <2>1, <4>1 DEF IsRun
      <4> QED BY <4>2, <4>3
    <3> QED BY <3>1, <3>2
  <2>4. g = [k \in 0 .. n + 1 |-> g[k]]
    OBVIOUS
  <2> HIDE DEF g
  <2>5. IsRun(g, x, t, p, q, n + 1)
    BY <2>3, <2>4 DEF IsRun
  <2> QED BY <2>5
<1> HIDE DEF N
<1>3. Nat \subseteq N
  BY <1>1, <1>2, InP!EveryNat, InputAssumed
<1> QED BY <1>3 DEF N

\* From one character to the next, the first len of them.
Steps(r, x, t, p, len) ==
  \A n \in 0 .. len : n + 1 <= len =>
    r[n + 1] = IF r[n] = YYF THEN YYF ELSE t.nxt[r[n]][x[p + (n + 1)]]

\* RunOf is that function.
LEMMA RunSteps ==
  ASSUME NEW x, NEW t, NEW p, NEW q, Len(x) - p \in Nat
  PROVE  /\ RunOf(x, t, p, q)[0] = q
         /\ Steps(RunOf(x, t, p, q), x, t, p, Len(x) - p)
<1> DEFINE r == CHOOSE f : f = [k \in 0 .. Len(x) - p |->
                   IF k = 0 THEN q
                   ELSE IF f[k-1] = YYF THEN YYF ELSE t.nxt[f[k-1]][x[p + k]]]
<1>1. \E f : f = [k \in 0 .. Len(x) - p |->
                   IF k = 0 THEN q
                   ELSE IF f[k-1] = YYF THEN YYF ELSE t.nxt[f[k-1]][x[p + k]]]
  <2>1. PICK f : IsRun(f, x, t, p, q, Len(x) - p)
    BY RunsExist
  <2> QED BY <2>1, Zenon DEF IsRun
<1>2. r = [k \in 0 .. Len(x) - p |->
                   IF k = 0 THEN q
                   ELSE IF r[k-1] = YYF THEN YYF ELSE t.nxt[r[k-1]][x[p + k]]]
  BY <1>1, Zenon
<1>3. RunOf(x, t, p, q) = r
  BY Zenon DEF RunOf
<1> HIDE DEF r
<1>4. PICK len \in Nat : len = Len(x) - p
  OBVIOUS
<1>5. \A k \in 0 .. len : r[k] = IF k = 0 THEN q
                   ELSE IF r[k-1] = YYF THEN YYF ELSE t.nxt[r[k-1]][x[p + k]]
  BY <1>2, <1>4
<1>6. r[0] = q
  BY <1>5
<1>7. ASSUME NEW n \in 0 .. len, n + 1 <= len
      PROVE  r[n + 1] = IF r[n] = YYF THEN YYF ELSE t.nxt[r[n]][x[p + (n + 1)]]
  <2>1. n + 1 \in 0 .. len /\ n + 1 # 0 /\ (n + 1) - 1 = n
    BY <1>7
  <2> QED BY <1>5, <2>1
<1> QED BY <1>3, <1>4, <1>6, <1>7 DEF Steps

\* A machine that has stopped has stopped for good.
LEMMA DeadStays ==
  ASSUME NEW x, NEW t, NEW p, NEW q, Len(x) - p \in Nat,
         NEW d \in 0 .. Len(x) - p, RunOf(x, t, p, q)[d] = YYF
  PROVE  \A k \in d .. Len(x) - p : RunOf(x, t, p, q)[k] = YYF
<1>0. PICK len \in Nat : len = Len(x) - p
  OBVIOUS
<1>1. PICK r : r = RunOf(x, t, p, q) /\ len = Len(x) - p
  BY <1>0
<1> DEFINE N == {j \in Nat : d + j <= len => r[d + j] = YYF}
<1>2. 0 \in N
  BY <1>1
<1>3. ASSUME NEW j \in Nat, j \in N PROVE j + 1 \in N
  <2> SUFFICES ASSUME d + (j + 1) <= len PROVE r[d + (j + 1)] = YYF
    OBVIOUS
  <2>1. d + j \in 0 .. len /\ (d + j) + 1 <= len /\ (d + j) + 1 = d + (j + 1)
    BY <1>1
  <2>2. r[d + j] = YYF
    BY <1>3, <2>1
  <2>3. r[(d + j) + 1] = IF r[d + j] = YYF THEN YYF
                         ELSE t.nxt[r[d + j]][x[p + ((d + j) + 1)]]
    <3>1. Steps(r, x, t, p, len)
      BY <1>1, RunSteps
    <3> QED BY <2>1, <3>1 DEF Steps
  <2> QED BY <2>1, <2>2, <2>3
<1> HIDE DEF N
<1>4. Nat \subseteq N
  BY <1>2, <1>3, InP!EveryNat, InputAssumed
<1>5. ASSUME NEW k \in d .. len PROVE r[k] = YYF
  <2>1. k - d \in Nat /\ d + (k - d) = k
    BY <1>1
  <2> QED BY <1>4, <2>1 DEF N
<1> QED BY <1>1, <1>5

\* The marks of a loaded buffer, and after a step that leaves one.
MarksPlaced ==
  InputInv /\ Running /\ Loaded =>
    /\ Start \in Nat /\ Place \in Nat /\ Start <= Place
    /\ Place <= Len(text) /\ Len(text) \in Nat
LEMMA MarksNow == MarksPlaced
<1> SUFFICES ASSUME InputInv, Running, Loaded
             PROVE  /\ Start \in Nat /\ Place \in Nat /\ Start <= Place
                    /\ Place <= Len(text) /\ Len(text) \in Nat
  BY DEF MarksPlaced
<1>1. InP!Held(b, text, Line0)
  BY HeldNow
<1>2. /\ Start \in Nat /\ End \in Nat /\ Place \in Nat
      /\ Start <= End /\ End <= Place /\ Place <= Len(text) /\ Len(text) \in Nat
  BY <1>1, HeldMarks DEF Start, End, Place
<1> QED BY <1>2

\* And after a step.
LEMMA MarksThen == MarksPlaced'
BY MarksNow, PTL

\* Taking up scanning anywhere.
LEMMA MatchBegins ==
  ASSUME InputInv', Running', NEW state \in States, NEW more \in BOOLEAN,
         DriverInv, Resume(state, more), table' = table, first' = FALSE
  PROVE  MatchInv'
<1>1. Cur' = Place' /\ Place' \in Int
  BY CurIsPlace DEF Cur
<1>2. /\ yystate' = state /\ yylastaccept' = 0 /\ at' = "scan"
      /\ scan' = [at |-> Cur', state |-> state, more |-> more]
  BY DEF Resume
<1>3. Loaded'
  BY <1>2 DEF Loaded
<1>4. /\ Start' \in Nat /\ Place' \in Nat /\ Start' <= Place'
      /\ Place' <= Len(text') /\ Len(text') \in Nat
  BY <1>3, MarksThen DEF MarksPlaced
<1>5. PICK p \in Nat, len \in Nat : p = Place' /\ len = Len(text') /\ p <= len
  BY <1>4
<1>6. scan' = [at |-> p, state |-> state, more |-> more]
  BY <1>1, <1>2, <1>5, Zenon
<1>7. scan'.at = p /\ scan'.state = state
  BY <1>6
<1>8. PICK run : run = RunOf(text', table', p, state)
  OBVIOUS
<1>9. run[0] = state
  <2>1. Len(text') - p \in Nat
    BY <1>5
  <2> QED BY <1>8, <2>1, RunSteps
<1>10. state # YYF
  BY Machine
<1>11. Reached(run, 0)'
  BY <1>2, <1>9, <1>10 DEF Reached
<1>12. Run' = run
  BY <1>7, <1>8 DEF Run
<1>13. p - p = 0 /\ p \in 0 .. p
  OBVIOUS
<1>14. Start' <= p
  BY <1>4, <1>5
<1> QED BY <1>5, <1>7, <1>11, <1>12, <1>13, <1>14 DEF MatchInv

\* A transition is the next step of the run.
LEMMA MatchGoesOn ==
  ASSUME NoEmptyLexeme, InputInv, InputInv', DriverInv, MatchInv, Transition
  PROVE  MatchInv'
<1>1. /\ Running /\ at = "scan" /\ text' = text /\ table' = table
      /\ yyanchor' = table.accept[yynstate] /\ yystate' = yynstate
      /\ yylastaccept' = IF Accepts(yynstate) THEN yynstate ELSE yylastaccept
      /\ scan' = IF In!Refused(b) THEN [scan EXCEPT !.state = YYF] ELSE scan
  BY DEF Transition, Scanning, LastAccept
<1> SUFFICES ASSUME Running', scan'.state # YYF PROVE MatchInv'
  BY DEF MatchInv
<1>2. ~In!Refused(b) /\ scan' = scan
  <2>1. ~In!Refused(b)
    <3> SUFFICES ASSUME In!Refused(b) PROVE FALSE
      OBVIOUS
    <3>1. scan'.state = YYF
      BY <1>1 DEF DriverInv
    <3> QED BY <3>1
  <2> QED BY <1>1, <2>1
<1>3. scan.at \in 0 .. Place /\ Start <= scan.at /\ Reached(Run, Place - scan.at)
  BY <1>1, <1>2 DEF MatchInv
<1>4. /\ Start \in Nat /\ Place \in Nat /\ Place < Len(text) /\ Len(text) \in Nat
  <2>1. Loaded
    BY <1>1, Unterminated
  <2> QED BY <1>1, <2>1, MarksNow, TransitionKeeps DEF MarksPlaced
<1>5. Start' = Start /\ Place' = Place + 1
      /\ End' = IF Accepts(yynstate) THEN Place' ELSE End
  BY <1>2, TransitionKeeps
<1>6. PICK p \in Nat, place \in Nat, n \in Nat, len \in Nat :
        /\ p = scan.at /\ place = Place /\ n = place - p /\ len = Len(text)
        /\ place < len
  <2>1. PICK place \in Nat, len \in Nat : place = Place /\ len = Len(text) /\ place < len
    BY <1>4
  <2>2. PICK p \in 0 .. place : p = scan.at
    BY <1>3, <2>1
  <2>3. p \in Nat /\ place - p \in Nat
    OBVIOUS
  <2> QED BY <2>1, <2>2, <2>3
<1>7. PICK run : run = Run
  OBVIOUS
<1>8. Run' = run
  BY <1>1, <1>2, <1>7 DEF Run
<1>9. /\ run[n] = yystate /\ (\A m \in 0 .. n : run[m] # YYF)
      /\ yylastaccept = 0 => \A m \in 1 .. n : table.accept[run[m]] = 0
      /\ yylastaccept # 0 => \E m \in 1 .. n :
            /\ run[m] = yylastaccept /\ table.accept[run[m]] # 0 /\ End = p + m
            /\ \A k \in m + 1 .. n : table.accept[run[k]] = 0
  BY <1>3, <1>6, <1>7 DEF Reached
<1>10. /\ yystate \in States /\ yynstate \in States
       /\ yynstate = table.nxt[yystate][text[place + 1]]
  BY <1>6, OnCharacter DEF yylook
<1>11. run[n + 1] = yynstate /\ yynstate # YYF
  <2>1. len - p \in Nat /\ n \in 0 .. len - p /\ n + 1 <= len - p
        /\ p + (n + 1) = place + 1
    BY <1>6
  <2>2. Steps(run, text, table, p, len - p)
    <3>1. run = RunOf(text, table, p, scan.state) /\ Len(text) = len
      BY <1>6, <1>7 DEF Run
    <3> QED BY <2>1, <3>1, RunSteps
  <2>3. run[n + 1] = IF run[n] = YYF THEN YYF ELSE table.nxt[run[n]][text[p + (n + 1)]]
    BY <2>1, <2>2 DEF Steps
  <2> QED BY <1>9, <1>10, <2>1, <2>3, Machine
<1>12. Place' - scan'.at = n + 1 /\ Place' = p + (n + 1) /\ scan'.at = p
       /\ scan'.at \in 0 .. Place' /\ Start' <= scan'.at
  BY <1>2, <1>3, <1>5, <1>6
<1>13. \A m \in 0 .. n + 1 : run[m] # YYF
  BY <1>9, <1>11
<1>14. CASE Accepts(yynstate)
  <2>1. yynstate # 0
    <3>1. table.accept[0] = 0
      BY DEF NoEmptyLexeme, DriverInv
    <3> QED BY <1>14, <3>1 DEF Accepts
  <2>2. yylastaccept' = yynstate /\ yyanchor' = table'.accept[yystate']
        /\ yystate' = yynstate /\ End' = p + (n + 1)
    BY <1>1, <1>5, <1>12, <1>14
  <2>3. table'.accept[run[n + 1]] # 0
    BY <1>1, <1>11, <1>14 DEF Accepts
  <2>4. n + 1 \in 1 .. n + 1 /\ \A k \in (n + 1) + 1 .. n + 1 : FALSE
    OBVIOUS
  <2>5. Reached(run, n + 1)'
    BY <1>11, <1>12, <1>13, <2>1, <2>2, <2>3, <2>4 DEF Reached
  <2> QED BY <1>8, <1>12, <2>5 DEF MatchInv
<1>15. CASE ~Accepts(yynstate)
  <2>1. yylastaccept' = yylastaccept /\ yyanchor' = table'.accept[yystate']
        /\ yystate' = yynstate /\ End' = End
    BY <1>1, <1>5, <1>15
  <2>2. table.accept[run[n + 1]] = 0
    BY <1>11, <1>15 DEF Accepts
  <2>3. yylastaccept = 0 => \A m \in 1 .. n + 1 : table.accept[run[m]] = 0
    BY <1>9, <2>2
  <2>4. yylastaccept # 0 => \E m \in 1 .. n + 1 :
            /\ run[m] = yylastaccept /\ table.accept[run[m]] # 0 /\ End = p + m
            /\ \A k \in m + 1 .. n + 1 : table.accept[run[k]] = 0
    <3> SUFFICES ASSUME yylastaccept # 0
                 PROVE  \E m \in 1 .. n + 1 :
            /\ run[m] = yylastaccept /\ table.accept[run[m]] # 0 /\ End = p + m
            /\ \A k \in m + 1 .. n + 1 : table.accept[run[k]] = 0
      OBVIOUS
    <3>1. PICK m \in 1 .. n :
            /\ run[m] = yylastaccept /\ table.accept[run[m]] # 0 /\ End = p + m
            /\ \A k \in m + 1 .. n : table.accept[run[k]] = 0
      BY <1>9
    <3>2. m \in 1 .. n + 1
      OBVIOUS
    <3>3. \A k \in m + 1 .. n + 1 : table.accept[run[k]] = 0
      BY <2>2, <3>1
    <3> QED BY <3>1, <3>2, <3>3
  <2>5. Reached(run, n + 1)'
    BY <1>1, <1>11, <1>12, <1>13, <2>1, <2>3, <2>4 DEF Reached
  <2> QED BY <1>8, <1>12, <2>5 DEF MatchInv
<1> QED BY <1>14, <1>15

\* A file loaded: the machine is in state 0 at its first character, or the
\* lexeme began in the file before.
LEMMA MatchLoaded ==
  ASSUME InputInv, InputInv', DriverInv, Load
  PROVE  MatchInv'
<1>1. /\ at = "load" /\ at' = "scan" /\ table' = table /\ yystate' = yystate
      /\ yylastaccept' = yylastaccept /\ first' = first
      /\ scan' = [at |-> 0, state |-> IF yystate = 0 THEN 0 ELSE YYF, more |-> FALSE]
  BY DEF Load, driver
<1> SUFFICES ASSUME Running', scan'.state # YYF PROVE MatchInv'
  BY DEF MatchInv
<1>2. yylastaccept' = 0 /\ yystate' = 0 /\ scan'.at = 0 /\ scan'.state = 0
  BY <1>1 DEF DriverInv
<1>3. Place' = 0 /\ Start' = 0
  BY LoadKeeps
<1>4. Len(text') \in Nat
  BY DEF InputInv
<1>5. PICK run : run = RunOf(text', table', 0, 0)
  OBVIOUS
<1>6. run[0] = 0
  <2>1. Len(text') - 0 \in Nat
    BY <1>4
  <2> QED BY <1>5, <2>1, RunSteps
<1>7. 0 # YYF
  BY DEF YYF
<1>8. Reached(run, 0)'
  BY <1>2, <1>6, <1>7 DEF Reached
<1>9. Run' = run
  BY <1>2, <1>5 DEF Run
<1>10. 0 - 0 = 0 /\ 0 \in 0 .. 0 /\ 0 <= 0
  OBVIOUS
<1> QED BY <1>2, <1>3, <1>8, <1>9, <1>10 DEF MatchInv

\* The run through every step.
LEMMA MatchKept ==
  ASSUME NoEmptyLexeme, InputInv, InputInv', DriverInv, MatchInv, [Next]_vars
  PROVE  MatchInv'
<1> SUFFICES ASSUME Running', at' = "scan" PROVE MatchInv'
  BY DEF MatchInv
<1>0. 0 \in States
  BY Machine
<1>1. CASE Call \/ BadInput \/ Continue
  <2>1. Resume(0, FALSE) /\ table' = table /\ first' = FALSE
    <3>1. CASE Call
      BY <3>1 DEF Call
    <3>2. CASE BadInput
      BY <3>2 DEF BadInput, Scanning, InputInv
    <3>3. CASE Continue
      BY <3>3 DEF Continue, InputInv
    <3> QED BY <1>1, <3>1, <3>2, <3>3
  <2> QED BY <1>0, <2>1, MatchBegins
<1>2. CASE More
  <2>1. Resume(yyprev, TRUE) /\ table' = table /\ first' = FALSE /\ yyprev \in States
    BY <1>2 DEF More, InAction, DriverInv, InputInv
  <2> QED BY <2>1, MatchBegins
<1>3. CASE Load
  BY <1>3, MatchLoaded
<1>4. CASE Transition
  BY <1>4, MatchGoesOn
<1>5. CASE UNCHANGED vars
  BY <1>5 DEF vars, driver, MatchInv, Running, Start, Place, End, Run, Reached
<1>6. CASE EndOfFile \/ NextFile \/ Accept \/ Input \/ InputTooLong \/ Unput \/ Yyless
           \/ Return \/ ParserMarksLexeme
  BY <1>6 DEF EndOfFile, NextFile, Accept, Input, InputTooLong, Unput, Yyless, Return,
              ParserMarksLexeme, InAction
<1> QED BY <1>1, <1>2, <1>3, <1>4, <1>5, <1>6 DEF Next, Scan, Action

\* Where the machine has no transition, it can match nothing longer.
LEMMA NothingLonger ==
  ASSUME InputInv, DriverInv, MatchInv, Scanning, scan.state # YYF, yynstate = YYF
  PROVE  /\ After(scan.at, scan.state) = Run
         /\ Len(text) - scan.at \in Nat /\ Place - scan.at \in 0 .. Len(text) - scan.at
         /\ \A n \in 0 .. Len(text) - scan.at : Run[n] # YYF => n <= Place - scan.at
<1>1. Running /\ at = "scan"
  BY DEF Scanning
<1>2. scan.at \in 0 .. Place /\ Reached(Run, Place - scan.at)
  BY <1>1 DEF MatchInv
<1>3. /\ InP!Held(b, text, Line0) /\ b.termchar = NUL /\ ~first /\ text \in Seq(Chars)
      /\ Place \in Nat /\ Place <= Len(text) /\ Len(text) \in Nat
  BY <1>1, Unterminated DEF InputInv
<1>4. PICK p \in Nat, place \in Nat, len \in Nat :
        p = scan.at /\ place = Place /\ len = Len(text) /\ p <= place /\ place <= len
  <2>1. PICK place \in Nat, len \in Nat : place = Place /\ len = Len(text) /\ place <= len
    BY <1>3
  <2>2. PICK p \in 0 .. place : p = scan.at
    BY <1>2, <2>1
  <2>3. p \in Nat /\ p <= place
    OBVIOUS
  <2> QED BY <2>1, <2>2, <2>3
<1>5. PICK n \in Nat : n = place - p /\ n \in 0 .. len - p /\ len - p \in Nat
  BY <1>4
<1>6. PICK run : run = RunOf(text, table, p, scan.state)
  OBVIOUS
<1>7. Run = run /\ Len(text) - p = len - p
  BY <1>4, <1>6 DEF Run
<1>8. run[n] = yystate /\ run[n] # YYF
  BY <1>2, <1>4, <1>5, <1>7 DEF Reached
<1>9. CASE place = len
  <2>1. \A k \in 0 .. len - p : k <= n
    BY <1>4, <1>5, <1>9
  <2> QED BY <1>4, <1>5, <1>7, <2>1, AfterIsRun DEF Run
<1>10. CASE place < len
  <2>1. yylook = text[place + 1] /\ yylook \in Chars
    <3>1. In!ii_look(b, 1) = text[place + 1]
      BY <1>3, <1>4, <1>10, LookIsNext DEF Place
    <3>2. place + 1 \in 1 .. Len(text)
      BY <1>4, <1>10
    <3> QED BY <1>3, <3>1, <3>2 DEF yylook
  <2>2. yylook # EOF
    BY <2>1, InputAssumed DEF InP!CharsAssumption
  <2>3. table.nxt[yystate][text[place + 1]] = YYF
    BY <2>1, <2>2 DEF yynstate
  <2>4. n + 1 \in 0 .. len - p /\ n + 1 <= len - p /\ p + (n + 1) = place + 1
    BY <1>4, <1>5, <1>10
  <2>5. run[n + 1] = IF run[n] = YYF THEN YYF ELSE table.nxt[run[n]][text[p + (n + 1)]]
    <3>1. Steps(run, text, table, p, len - p)
      <4>1. Len(text) = len
        BY <1>4
      <4> QED BY <1>5, <1>6, <4>1, RunSteps
    <3> QED BY <1>5, <2>4, <3>1 DEF Steps
  <2>6. run[n + 1] = YYF
    BY <1>8, <2>3, <2>4, <2>5
  <2>7. \A k \in n + 1 .. len - p : run[k] = YYF
    BY <1>5, <1>6, <1>7, <2>4, <2>6, DeadStays
  <2>8. ASSUME NEW k \in 0 .. len - p, run[k] # YYF PROVE k <= n
    BY <1>5, <2>7, <2>8
  <2> QED BY <1>4, <1>5, <1>7, <2>8, AfterIsRun DEF Run
<1> QED BY <1>4, <1>9, <1>10

\* The whole invariant.
MatchingInv == Inv /\ MatchInv

\* It holds when no analyzer matches the empty string.
LEMMA MatchingHolds == NoEmptyLexeme => (Spec => []MatchingInv)
<1> SUFFICES ASSUME NoEmptyLexeme PROVE Spec => []MatchingInv
  OBVIOUS
<1>1. Init => MatchInv
  BY DEF Init, MatchInv
<1>2. Inv /\ Inv' /\ MatchInv /\ [Next]_vars => MatchInv'
  BY MatchKept DEF Inv
<1> QED BY <1>1, <1>2, InvHolds, PTL DEF Spec, MatchingInv

\* What matches, of the run.
LEMMA MatchesOfRun ==
  ASSUME MatchingInv, Scanning, scan.state # YYF, yynstate = YYF
  PROVE  Matches(scan.at, scan.state) =
           {n \in 1 .. Len(text) - scan.at : Run[n] # YYF /\ table.accept[Run[n]] # 0}
<1>1. After(scan.at, scan.state) = Run
  BY NothingLonger DEF MatchingInv, Inv
<1> QED BY <1>1, Zenon DEF Matches

\* Text is skipped as bad input only where no lexeme begins, when no analyzer
\* matches the empty string (state 0 as yylastaccept means none, lex.m:119).
THEOREM BadInputBeginsNoLexeme ==
  ASSUME \A t \in Analyzers : t.accept[0] = 0 PROVE Spec => []OnlyBadInputSkipped
<1>1. NoEmptyLexeme
  BY DEF NoEmptyLexeme
<1>2. MatchingInv => (BadInput /\ scan.state # YYF => Matches(scan.at, scan.state) = {})
  <2> SUFFICES ASSUME MatchingInv, BadInput, scan.state # YYF
               PROVE  Matches(scan.at, scan.state) = {}
    OBVIOUS
  <2>1. Scanning /\ yynstate = YYF /\ yylastaccept = 0 /\ Running /\ at = "scan"
    BY DEF BadInput, Scanning
  <2>2. \A n \in 0 .. Len(text) - scan.at : Run[n] # YYF => n <= Place - scan.at
    BY <2>1, NothingLonger DEF MatchingInv, Inv
  <2>3. Reached(Run, Place - scan.at)
    BY <2>1 DEF MatchingInv, MatchInv
  <2>4. \A n \in 1 .. Place - scan.at : table.accept[Run[n]] = 0
    BY <2>1, <2>3 DEF Reached
  <2>5. ASSUME NEW n \in 1 .. Len(text) - scan.at, Run[n] # YYF
        PROVE  table.accept[Run[n]] = 0
    <3>1. n <= Place - scan.at
      BY <2>2, <2>5
    <3> QED BY <2>4, <3>1
  <2> QED BY <2>1, <2>5, MatchesOfRun
<1> QED BY <1>1, <1>2, MatchingHolds, PTL DEF OnlyBadInputSkipped

\* The greatest of what matches.
LEMMA GreatestIs ==
  ASSUME NEW M, M \subseteq Int, NEW m \in M, \A n \in M : n <= m
  PROVE  Max(M) = m
<1>1. \E x \in M : \A y \in M : x >= y
  OBVIOUS
<1>2. Max(M) \in M /\ \A y \in M : Max(M) >= y
  BY <1>1 DEF Max
<1>3. Max(M) \in Int /\ m \in Int
  BY <1>2
<1> QED BY <1>2, <1>3

\* A lexeme accepted is the longest that matches, less the end of the line its
\* anchor matched.
LEMMA LongestAccepted ==
  ASSUME EndAnchorsFinal, MatchingInv, Accept, scan.state # YYF
  PROVE  \E m \in Matches(scan.at, scan.state) :
           /\ \A n \in Matches(scan.at, scan.state) : n <= m
           /\ yylastaccept = Run[m]
           /\ Cur' = scan.at + m
                     - (IF Anchored(table.accept[yylastaccept], END) THEN 1 ELSE 0)
<1>1. /\ Scanning /\ yynstate = YYF /\ yylastaccept # 0 /\ Running /\ at = "scan"
      /\ InputInv /\ DriverInv /\ MatchInv
  BY DEF Accept, Scanning, MatchingInv, Inv
<1>2. /\ scan.at \in 0 .. Place /\ Start <= scan.at /\ Reached(Run, Place - scan.at)
  BY <1>1 DEF MatchInv
<1>3. /\ Start \in Nat /\ Place \in Nat /\ Place <= Len(text) /\ Len(text) \in Nat
  <2>1. Loaded
    BY <1>1, Unterminated
  <2> QED BY <1>1, <2>1, MarksNow DEF MarksPlaced
<1>4. PICK p \in Nat, place \in Nat, N \in Nat, len \in Nat :
        /\ p = scan.at /\ place = Place /\ N = place - p /\ len = Len(text)
        /\ place <= len
  <2>1. PICK place \in Nat, len \in Nat : place = Place /\ len = Len(text) /\ place <= len
    BY <1>3
  <2>2. PICK p \in 0 .. place : p = scan.at
    BY <1>2, <2>1
  <2>3. p \in Nat /\ place - p \in Nat
    OBVIOUS
  <2> QED BY <2>1, <2>2, <2>3
<1>5. PICK run : run = RunOf(text, table, p, scan.state) /\ run = Run
  BY <1>4 DEF Run
<1>6. /\ run[N] = yystate /\ \A k \in 0 .. N : run[k] # YYF
      /\ yyanchor = table.accept[yystate]
  BY <1>1, <1>2, <1>4, <1>5 DEF Reached
<1>7. PICK m \in 1 .. N :
        /\ run[m] = yylastaccept /\ table.accept[run[m]] # 0 /\ End = p + m
        /\ \A k \in m + 1 .. N : table.accept[run[k]] = 0
  BY <1>1, <1>2, <1>4, <1>5 DEF Reached
<1>8. Matches(scan.at, scan.state) =
        {n \in 1 .. len - p : run[n] # YYF /\ table.accept[run[n]] # 0}
  BY <1>1, <1>4, <1>5, MatchesOfRun
<1>9. m \in Matches(scan.at, scan.state)
  <2>1. m \in 1 .. len - p /\ m \in 0 .. N
    BY <1>4
  <2> QED BY <1>6, <1>7, <1>8, <2>1
<1>10. ASSUME NEW n \in Matches(scan.at, scan.state) PROVE n <= m
  <2>1. n \in 1 .. len - p /\ run[n] # YYF /\ table.accept[run[n]] # 0
    BY <1>8
  <2>2. n <= N
    <3>1. \A k \in 0 .. len - p : run[k] # YYF => k <= N
      BY <1>1, <1>4, <1>5, NothingLonger
    <3> QED BY <2>1, <3>1
  <2>3. n \notin m + 1 .. N
    BY <1>7, <2>1
  <2> QED BY <2>1, <2>2, <2>3
<1>11. yystate \in States /\ yylastaccept \in States
  <2>1. ~first
    BY <1>1, Unterminated
  <2> QED BY <1>1, <2>1 DEF DriverInv
<1>12. PICK a, z \in 0 .. 4 : a = table.accept[yylastaccept] /\ z = yyanchor
  <2>1. table.accept[yylastaccept] \in 0 .. 4 /\ yyanchor \in 0 .. 4
    BY <1>1, <1>11, Machine DEF DriverInv
  <2> QED BY <2>1
<1>13. m < N => a \notin {2, 3} /\ z = 0
  <2> SUFFICES ASSUME m < N PROVE a \notin {2, 3} /\ z = 0
    OBVIOUS
  <2>1. z = 0
    <3>1. N \in m + 1 .. N
      OBVIOUS
    <3> QED BY <1>6, <1>7, <1>12, <3>1
  <2>2. a \notin {2, 3}
    <3> SUFFICES ASSUME a \in {2, 3} PROVE FALSE
      OBVIOUS
    <3>1. p + (m + 1) \in 1 .. Len(text)
      BY <1>4
    <3>2. text[p + (m + 1)] \in Chars
      <4>1. text \in Seq(Chars)
        BY <1>1 DEF InputInv
      <4> QED BY <3>1, <4>1
    <3>3. table.nxt[yylastaccept][text[p + (m + 1)]] = YYF
      BY <1>1, <1>11, <1>12, <3>2 DEF EndAnchorsFinal, DriverInv, States
    <3>4. m \in 0 .. len - p /\ m + 1 <= len - p /\ len - p \in Nat /\ Len(text) - p = len - p
          /\ m \in 0 .. N /\ m + 1 \in 0 .. N
      BY <1>4
    <3>5. Steps(run, text, table, p, len - p)
      <4>1. len - p \in Nat /\ Len(text) - p = len - p
        BY <3>4
      <4>2. run = RunOf(text, table, p, scan.state)
        BY <1>5
      <4>3. Steps(run, text, table, p, Len(text) - p)
        <5>1. Len(text) - p \in Nat
          BY <4>1
        <5> QED BY <4>2, <5>1, RunSteps
      <4> QED BY <4>1, <4>3
    <3>6. run[m + 1] = IF run[m] = YYF THEN YYF
                       ELSE table.nxt[run[m]][text[p + (m + 1)]]
      BY <3>4, <3>5 DEF Steps
    <3> QED BY <1>6, <1>7, <3>3, <3>4, <3>6
  <2> QED BY <2>1, <2>2
<1>14. m = N => a = z
  BY <1>6, <1>7, <1>12
<1>15. Anchored(z, END) <=> Anchored(a, END)
  <2>1. CASE m < N
    <3>1. ~Anchored(a, END) /\ ~Anchored(z, END)
      BY <1>13, <2>1, Sides
    <3> QED BY <3>1
  <2>2. CASE m = N
    BY <1>14, <2>2
  <2> QED BY <2>1, <2>2
<1>16. Cur' = Place' /\ Place' = IF Anchored(z, END)
                                 THEN IF End - 1 > Start THEN End - 1 ELSE Start
                                 ELSE End
  BY <1>1, <1>12, AcceptKeeps, CurIsPlace DEF Cur
<1>17. Cur' = p + m - (IF Anchored(a, END) THEN 1 ELSE 0)
  <2>1. PICK start \in Nat : start = Start /\ start <= p
    BY <1>2, <1>3, <1>4
  <2>2. End - 1 = p + m - 1 /\ start <= p + m - 1 /\ p + m - 0 = p + m
    BY <1>7, <2>1
  <2>3. CASE Anchored(a, END)
    <3>1. Cur' = IF p + m - 1 > start THEN p + m - 1 ELSE start
      BY <1>15, <1>16, <2>1, <2>2, <2>3
    <3> QED BY <2>2, <2>3, <3>1
  <2>4. CASE ~Anchored(a, END)
    BY <1>7, <1>15, <1>16, <2>2, <2>4
  <2> QED BY <2>3, <2>4
<1> QED BY <1>4, <1>5, <1>7, <1>9, <1>10, <1>12, <1>17

\* The lexeme accepted is the longest match, whatever the lookahead, the
\* backing up and the refills of the buffer, when no analyzer matches the
\* empty string and from a state anchored to the end of a line none goes on.
\* Where one does, yyanchor is that of the state the longer match failed in
\* (lex.m:101), and the line end stays in the lexeme.
THEOREM AcceptsLongestMatch ==
  ASSUME \A t \in Analyzers : t.accept[0] = 0,
         \A t \in Analyzers : \A q \in DOMAIN t.accept :
           t.accept[q] \in {2, 3} => \A c \in Chars : t.nxt[q][c] = YYF
  PROVE  Spec => []LongestMatch
<1>1. NoEmptyLexeme /\ EndAnchorsFinal
  BY Zenon DEF NoEmptyLexeme, EndAnchorsFinal
<1>2. MatchingInv =>
        (Accept /\ scan.state # YYF =>
           LET n == Max(Matches(scan.at, scan.state))
               q == After(scan.at, scan.state)[n]
               trail == IF Anchored(table.accept[q], END) THEN 1 ELSE 0
           IN /\ Matches(scan.at, scan.state) # {}
              /\ yylastaccept = q
              /\ Cur' = scan.at + n - trail)
  <2> SUFFICES ASSUME MatchingInv, Accept, scan.state # YYF
               PROVE  LET n == Max(Matches(scan.at, scan.state))
                          q == After(scan.at, scan.state)[n]
                          trail == IF Anchored(table.accept[q], END) THEN 1 ELSE 0
                      IN /\ Matches(scan.at, scan.state) # {}
                         /\ yylastaccept = q
                         /\ Cur' = scan.at + n - trail
    OBVIOUS
  <2>1. PICK m \in Matches(scan.at, scan.state) :
          /\ \A n \in Matches(scan.at, scan.state) : n <= m
          /\ yylastaccept = Run[m]
          /\ Cur' = scan.at + m
                    - (IF Anchored(table.accept[yylastaccept], END) THEN 1 ELSE 0)
    BY <1>1, LongestAccepted
  <2>2. Scanning /\ yynstate = YYF
    BY DEF Accept
  <2>3. Matches(scan.at, scan.state) \subseteq Int
    BY <2>2, MatchesOfRun
  <2>4. Max(Matches(scan.at, scan.state)) = m
    BY <2>1, <2>3, GreatestIs
  <2>5. After(scan.at, scan.state) = Run
    BY <2>2, NothingLonger DEF MatchingInv, Inv
  <2> QED BY <2>1, <2>4, <2>5
<1> QED BY <1>1, <1>2, MatchingHolds, PTL DEF LongestMatch

=============================================================================
