-------------------------- MODULE InputBuffer_proofs --------------------------
(***************************************************************************)
(* Proofs about InputBuffer for every buffer size, alphabet and file: the  *)
(* types, the order of the marks, when a lexeme is refused and when the    *)
(* program ends with "Buffer full"; then that the buffer shows the stream, *)
(* that the lines are counted and that the whole implements CharStream.    *)
(***************************************************************************)
EXTENDS InputBuffer, NaturalsInduction, WellFoundedInduction, FiniteSetTheorems, TLAPS

\* A set that has 0, and with a number the next one, has all of them: the places of
\* the text.
LEMMA EveryNat ==
  ASSUME NEW S, 0 \in S, \A n \in Nat : n \in S => n + 1 \in S
  PROVE  Nat \subseteq S
<1>1. SUFFICES ASSUME {n \in Nat : n \notin S} # {} PROVE FALSE
  OBVIOUS
<1>2. PICK m \in {n \in Nat : n \notin S} : \A k \in {n \in Nat : n \notin S} : m <= k
  <2>1. IsWellFoundedOn(OpToRel(<, Nat), Nat)
    BY NatLessThanWellFounded
  <2>2. PICK m \in {n \in Nat : n \notin S} :
          \A k \in {n \in Nat : n \notin S} : ~(<<k, m>> \in OpToRel(<, Nat))
    BY <1>1, <2>1, WFMin
  <2>3. \A k \in {n \in Nat : n \notin S} : m <= k
    <3> TAKE k \in {n \in Nat : n \notin S}
    <3>1. ~(k < m)
      BY <2>2 DEF OpToRel
    <3> QED BY <3>1
  <2> QED BY <2>3
<1>3. m # 0
  OBVIOUS
<1>4. m - 1 \in Nat /\ m - 1 \in S
  BY <1>2, <1>3
<1> QED BY <1>4

\* The marks of a buffer in which nothing has been advanced over yet are as
\* ordered as those of any other.
Ordered(s) ==
  /\ 0 <= s.smark /\ s.smark <= s.emark /\ s.emark <= s.next
  /\ s.next <= s.end_buf
  /\ s.pmark # NULL =>
       0 <= s.pmark /\ s.pmark <= s.smark /\ s.pmark + s.plength < BUFSIZE

\* What an advance needs and leaves.  While there is more to read, less than
\* MAXLEX of the buffer is unused and LOOK characters are ahead; at the end
\* of file there is room for the terminator.
Full(s) == BUFSIZE - s.end_buf < MAXLEX
Sound(s) ==
  /\ Ordered(s)
  /\ ~s.eof_read => s.next + LOOK <= s.end_buf /\ Full(s)
  /\ s.eof_read => s.end_buf < BUFSIZE

\* The buffer of a file just opened.
Fresh(s) ==
  /\ s.smark = BUFSIZE /\ s.emark = BUFSIZE /\ s.next = BUFSIZE
  /\ s.end_buf = BUFSIZE /\ s.pmark = NULL /\ ~s.eof_read

\* A record the functions of input.c may be called on, or may leave.
Legal(s) ==
  /\ s \in TypeOfBuffer
  /\ s.unread <= Len(text)
  /\ s.exit = "full" => s.unread = 0
MayConsume(s) == s.next < s.end_buf /\ (~s.eof_read => s.next + LOOK < s.end_buf)
Callable(s) == Legal(s) /\ s.exit = "no" /\ Sound(s)
Outcome(s)  == Legal(s) /\ (s.exit = "no" => Sound(s))

IInv ==
  /\ TypeOK
  /\ Legal(b)
  /\ Running => IF ready THEN Sound(b) ELSE Fresh(b)
  /\ ready => b.been_called
  /\ terminated => ready

-----------------------------------------------------------------------------
(* Arithmetic of the buffer. *)

\* A request is a multiple of MAXLEX that leaves less than MAXLEX unused.
LEMMA Requests ==
  ASSUME NEW x \in Nat
  PROVE  /\ (x \div MAXLEX) * MAXLEX \in Nat
         /\ (x \div MAXLEX) * MAXLEX <= x
         /\ x < (x \div MAXLEX) * MAXLEX + MAXLEX
         /\ MAXLEX <= x => MAXLEX <= (x \div MAXLEX) * MAXLEX
<1>1. MAXLEX \in Nat \ {0}
  BY BoundsAssumption
<1>2. ASSUME NEW m \in Nat \ {0}
      PROVE  /\ (x \div m) * m \in Nat
             /\ (x \div m) * m <= x
             /\ x < (x \div m) * m + m
             /\ m <= x => m <= (x \div m) * m
  OBVIOUS
<1> QED BY <1>1, <1>2

LEMMA Sizes ==
  /\ BUFSIZE \in Nat /\ BUFSIZE = 3 * MAXLEX + 2 * LOOK
  /\ MAXLEX \in Nat /\ LOOK \in Nat /\ 0 < LOOK /\ LOOK < MAXLEX
BY BoundsAssumption DEF BUFSIZE

-----------------------------------------------------------------------------
(* The functions that only move the marks, and the terminator. *)

\* A sound buffer always has a place for the terminator.
LEMMA RoomForTerminator ==
  ASSUME NEW s, s \in TypeOfBuffer, Sound(s)
  PROVE  s.next < BUFSIZE
BY Sizes DEF TypeOfBuffer, Sound, Ordered

\* Moving the marks, the cursor not forward, keeps a buffer callable.
LEMMA MovedMarks ==
  ASSUME NEW s, NEW t, Callable(s), t \in TypeOfBuffer, Ordered(t),
         t.next <= s.next, t.end_buf = s.end_buf, t.eof_read = s.eof_read,
         t.unread = s.unread, t.exit = s.exit
  PROVE  Callable(t)
<1>1. s \in TypeOfBuffer /\ Sound(s) /\ Legal(s) /\ s.exit = "no"
  BY DEF Callable, Legal
<1>2. Sound(t)
  BY <1>1, Sizes DEF Sound, Full, TypeOfBuffer
<1>3. Legal(t)
  BY <1>1 DEF Legal
<1> QED BY <1>1, <1>2, <1>3 DEF Callable

LEMMA MarkStartCallable ==
  ASSUME NEW s, Callable(s) PROVE Callable(ii_mark_start(s))
<1> DEFINE t == ii_mark_start(s)
<1>1. s \in TypeOfBuffer /\ Sound(s)
  BY DEF Callable, Legal
<1>2. t \in TypeOfBuffer
  BY <1>1 DEF TypeOfBuffer, ii_mark_start
<1>3. Ordered(t)
  BY <1>1, Sizes DEF TypeOfBuffer, Sound, Ordered, ii_mark_start, NULL
<1>4. /\ t.next <= s.next /\ t.end_buf = s.end_buf /\ t.eof_read = s.eof_read
      /\ t.unread = s.unread /\ t.exit = s.exit
  BY <1>1, Sizes DEF TypeOfBuffer, ii_mark_start
<1> HIDE DEF t
<1>5. Callable(t)
  BY <1>2, <1>3, <1>4, MovedMarks
<1> QED BY <1>5 DEF t

LEMMA MarkEndCallable ==
  ASSUME NEW s, Callable(s) PROVE Callable(ii_mark_end(s))
<1> DEFINE t == ii_mark_end(s)
<1>1. s \in TypeOfBuffer /\ Sound(s)
  BY DEF Callable, Legal
<1>2. t \in TypeOfBuffer
  BY <1>1 DEF TypeOfBuffer, ii_mark_end
<1>3. Ordered(t)
  BY <1>1, Sizes DEF TypeOfBuffer, Sound, Ordered, ii_mark_end, NULL
<1>4. /\ t.next <= s.next /\ t.end_buf = s.end_buf /\ t.eof_read = s.eof_read
      /\ t.unread = s.unread /\ t.exit = s.exit
  BY <1>1, Sizes DEF TypeOfBuffer, ii_mark_end
<1> HIDE DEF t
<1>5. Callable(t)
  BY <1>2, <1>3, <1>4, MovedMarks
<1> QED BY <1>5 DEF t

LEMMA MoveStartCallable ==
  ASSUME NEW s, Callable(s) PROVE Callable(ii_move_start(s))
<1> DEFINE t == ii_move_start(s)
<1>1. s \in TypeOfBuffer /\ Sound(s)
  BY DEF Callable, Legal
<1>2. CASE s.smark >= s.emark
  BY <1>2 DEF ii_move_start
<1>3. CASE ~(s.smark >= s.emark)
  <2>1. t = [s EXCEPT !.smark = @ + 1]
    BY <1>3 DEF ii_move_start
  <2> HIDE DEF t
  <2>2. t \in TypeOfBuffer
    BY <1>1, <1>3, <2>1, Sizes DEF TypeOfBuffer, Sound, Ordered
  <2>3. Ordered(t)
    BY <1>1, <1>3, <2>1, Sizes DEF TypeOfBuffer, Sound, Ordered, NULL
  <2>4. /\ t.next <= s.next /\ t.end_buf = s.end_buf /\ t.eof_read = s.eof_read
        /\ t.unread = s.unread /\ t.exit = s.exit
    BY <1>1, <2>1, Sizes DEF TypeOfBuffer
  <2>5. Callable(t)
    BY <2>2, <2>3, <2>4, MovedMarks
  <2> QED BY <2>5 DEF t
<1> QED BY <1>2, <1>3

LEMMA MoveBackCallable ==
  ASSUME NEW s, Callable(s) PROVE Callable(ii_move_back(s))
<1> DEFINE t == ii_move_back(s)
<1>1. s \in TypeOfBuffer /\ Sound(s)
  BY DEF Callable, Legal
<1>2. t \in TypeOfBuffer
  BY <1>1 DEF TypeOfBuffer, ii_move_back
<1>3. Ordered(t)
  BY <1>1, Sizes DEF TypeOfBuffer, Sound, Ordered, ii_move_back, NULL
<1>4. /\ t.next <= s.next /\ t.end_buf = s.end_buf /\ t.eof_read = s.eof_read
      /\ t.unread = s.unread /\ t.exit = s.exit
  BY <1>1, Sizes DEF TypeOfBuffer, Sound, Ordered, ii_move_back
<1> HIDE DEF t
<1>5. Callable(t)
  BY <1>2, <1>3, <1>4, MovedMarks
<1> QED BY <1>5 DEF t

LEMMA MarkPrevCallable ==
  ASSUME NEW s, Callable(s) PROVE Callable(ii_mark_prev(s))
<1> DEFINE t == ii_mark_prev(s)
<1>1. s \in TypeOfBuffer /\ Sound(s) /\ s.next < BUFSIZE
  BY RoomForTerminator DEF Callable, Legal
<1>2. t \in TypeOfBuffer
  <2>1. s.emark - s.smark \in Int /\ s.smark \in 0 .. BUFSIZE
    BY <1>1, Sizes DEF TypeOfBuffer
  <2> QED BY <1>1, <2>1 DEF TypeOfBuffer, ii_mark_prev
<1>3. Ordered(t)
  BY <1>1, Sizes DEF TypeOfBuffer, Sound, Ordered, ii_mark_prev, NULL
<1>4. /\ t.next <= s.next /\ t.end_buf = s.end_buf /\ t.eof_read = s.eof_read
      /\ t.unread = s.unread /\ t.exit = s.exit
  BY <1>1, Sizes DEF TypeOfBuffer, ii_mark_prev
<1> HIDE DEF t
<1>5. Callable(t)
  BY <1>2, <1>3, <1>4, MovedMarks
<1> QED BY <1>5 DEF t

\* A pushback keeps the types of any buffer.
LEMMA PushbackTyped ==
  ASSUME NEW s \in TypeOfBuffer, NEW n \in Nat
  PROVE  ii_pushback(s, n) \in TypeOfBuffer /\ ii_pushback(s, n).exit = s.exit
<1> DEFINE to    == IF s.next - n > s.smark THEN s.next - n ELSE s.smark
           lines == {i \in Index : to <= i /\ i < s.next /\ s.buf[i] \in {NL, NUL}}
           line  == s.lineno - Cardinality(lines)
           t     == ii_pushback(s, n)
<1>1. line \in Int
  <2>1. IsFiniteSet(Index)
    BY Sizes, FS_Interval DEF Index
  <2>2. Cardinality(lines) \in Nat
    BY <2>1, FS_Subset, FS_CardinalityType
  <2> QED BY <2>2 DEF TypeOfBuffer
<1>2. to \in 0 .. BUFSIZE
  BY Sizes DEF TypeOfBuffer
<1>3. t = [s EXCEPT !.next = to, !.lineno = line,
                    !.emark = IF to < @ THEN to ELSE @,
                    !.mline = IF to < s.emark THEN line ELSE @]
  BY DEF ii_pushback
<1> HIDE DEF to, line, t
<1>4. t \in TypeOfBuffer /\ t.exit = s.exit
  BY <1>1, <1>2, <1>3 DEF TypeOfBuffer
<1> QED BY <1>4 DEF t

\* Pushing back keeps to the rules as well.
LEMMA PushbackCallable ==
  ASSUME NEW s, Callable(s), NEW n \in Nat
  PROVE  Callable(ii_pushback(s, n))
<1> DEFINE to    == IF s.next - n > s.smark THEN s.next - n ELSE s.smark
           lines == {i \in Index : to <= i /\ i < s.next /\ s.buf[i] \in {NL, NUL}}
           line  == s.lineno - Cardinality(lines)
           t     == ii_pushback(s, n)
<1>1. s \in TypeOfBuffer /\ Sound(s)
  BY DEF Callable, Legal
<1>2. line \in Int
  <2>1. IsFiniteSet(Index)
    BY Sizes, FS_Interval DEF Index
  <2>2. Cardinality(lines) \in Nat
    BY <2>1, FS_Subset, FS_CardinalityType
  <2> QED BY <1>1, <2>2 DEF TypeOfBuffer
<1>3. to \in 0 .. BUFSIZE /\ s.smark <= to /\ to <= s.next
  BY <1>1, Sizes DEF TypeOfBuffer, Sound, Ordered
<1>4. t = [s EXCEPT !.next = to, !.lineno = line,
                    !.emark = IF to < @ THEN to ELSE @,
                    !.mline = IF to < s.emark THEN line ELSE @]
  BY DEF ii_pushback
<1> HIDE DEF to, line, t
<1>5. t \in TypeOfBuffer
  BY <1>1, <1>2, <1>3, <1>4 DEF TypeOfBuffer
<1>6. Ordered(t)
  BY <1>1, <1>3, <1>4, Sizes DEF TypeOfBuffer, Sound, Ordered, NULL
<1>7. /\ t.next <= s.next /\ t.end_buf = s.end_buf /\ t.eof_read = s.eof_read
      /\ t.unread = s.unread /\ t.exit = s.exit
  BY <1>1, <1>3, <1>4, Sizes DEF TypeOfBuffer
<1>8. Callable(t)
  BY <1>5, <1>6, <1>7, MovedMarks
<1> QED BY <1>8 DEF t

\* Storing a character moves no mark.
LEMMA StoreCallable ==
  ASSUME NEW s, Callable(s), NEW c \in Chars, NEW d \in Chars
  PROVE  /\ Callable([s EXCEPT !.buf[s.next] = c])
         /\ Callable([s EXCEPT !.termchar = d, !.buf[s.next] = c])
         /\ s.buf[s.next] \in Chars
<1>1. s \in TypeOfBuffer /\ Sound(s) /\ s.next < BUFSIZE
  BY RoomForTerminator DEF Callable, Legal
<1>2. s.next \in Index /\ s.buf \in [Index -> Chars]
  BY <1>1, Sizes DEF TypeOfBuffer, Index
<1>3. ASSUME NEW t, t = [s EXCEPT !.buf[s.next] = c]
      PROVE  Callable(t)
  <2>1. t \in TypeOfBuffer
    BY <1>1, <1>2, <1>3 DEF TypeOfBuffer
  <2>2. Ordered(t)
    BY <1>1, <1>3 DEF TypeOfBuffer, Sound, Ordered
  <2>3. /\ t.next <= s.next /\ t.end_buf = s.end_buf /\ t.eof_read = s.eof_read
        /\ t.unread = s.unread /\ t.exit = s.exit
    BY <1>1, <1>3, Sizes DEF TypeOfBuffer
  <2> QED BY <2>1, <2>2, <2>3, MovedMarks
<1>4. ASSUME NEW t, t = [s EXCEPT !.termchar = d, !.buf[s.next] = c]
      PROVE  Callable(t)
  <2>1. t \in TypeOfBuffer
    BY <1>1, <1>2, <1>4 DEF TypeOfBuffer
  <2>2. Ordered(t)
    BY <1>1, <1>4 DEF TypeOfBuffer, Sound, Ordered
  <2>3. /\ t.next <= s.next /\ t.end_buf = s.end_buf /\ t.eof_read = s.eof_read
        /\ t.unread = s.unread /\ t.exit = s.exit
    BY <1>1, <1>4, Sizes DEF TypeOfBuffer
  <2> QED BY <2>1, <2>2, <2>3, MovedMarks
<1> QED BY <1>2, <1>3, <1>4

LEMMA TermCallable ==
  ASSUME NEW s, Callable(s) PROVE Callable(ii_term(s))
<1>1. s.buf[s.next] \in Chars
  BY StoreCallable, CharsAssumption
<1> QED BY <1>1, StoreCallable, CharsAssumption DEF ii_term

LEMMA UntermCallable ==
  ASSUME NEW s, Callable(s) PROVE Callable(ii_unterm(s))
<1>1. s.termchar \in Chars
  BY DEF Callable, Legal, TypeOfBuffer
<1>2. [s EXCEPT !.buf[s.next] = s.termchar, !.termchar = NUL]
        = [s EXCEPT !.termchar = NUL, !.buf[s.next] = s.termchar]
  BY DEF Callable, Legal, TypeOfBuffer
<1>3. CASE s.termchar = NUL
  BY <1>3 DEF ii_unterm
<1>4. CASE s.termchar # NUL
  BY <1>1, <1>2, <1>4, StoreCallable, CharsAssumption DEF ii_unterm
<1> QED BY <1>3, <1>4

LEMMA UnputCallable ==
  ASSUME NEW s, Callable(s), NEW c \in Chars
  PROVE  Callable(ii_unput(s, c))
<1>1. ASSUME NEW t, Callable(t) PROVE Callable(StoreBack(t, c))
  <2>1. Callable(ii_pushback(t, 1))
    BY <1>1, PushbackCallable
  <2> QED BY <2>1, StoreCallable DEF StoreBack
<1> QED BY <1>1, UntermCallable, TermCallable DEF ii_unput

-----------------------------------------------------------------------------
(* The functions that read. *)

\* A buffer whose marks are in order, with MAXLEX or more to the left of what
\* it must keep, can be refilled, and is sound afterwards.
Refillable(s) ==
  /\ Legal(s) /\ s.exit = "no" /\ Ordered(s) /\ ~s.eof_read
  /\ MAXLEX <= BUFSIZE - (s.end_buf - LeftEdge(s))

LEMMA LeftEdgeInside ==
  ASSUME NEW s, s \in TypeOfBuffer, Ordered(s)
  PROVE  /\ LeftEdge(s) \in 0 .. BUFSIZE /\ LeftEdge(s) <= s.smark
         /\ s.pmark # NULL => LeftEdge(s) <= s.pmark
         /\ s.end_buf - LeftEdge(s) \in 0 .. BUFSIZE
         /\ s.next - LeftEdge(s) <= s.end_buf - LeftEdge(s)
BY Sizes DEF TypeOfBuffer, Ordered, LeftEdge, NULL

\* The characters a refill reads are characters of the stream.
LEMMA RefillText ==
  ASSUME NEW len \in Nat, NEW unread \in Nat, unread <= len,
         NEW got \in Nat, got <= unread,
         NEW copied \in Nat, NEW i \in Nat, ~(i < copied), i < copied + got
  PROVE  len - unread + (i - copied) + 1 \in 1 .. len
OBVIOUS

LEMMA RefillSound ==
  ASSUME NEW s, Refillable(s), text \in Seq(Chars),
         NEW need \in Nat, need = Need(s.end_buf - LeftEdge(s)),
         NEW got \in Nat, 0 < got, got <= need, got <= s.unread
  PROVE  Callable(Refill(s, got)) /\ MayConsume(Refill(s, got))
<1> DEFINE t == Refill(s, got)
<1>1. PICK left \in 0 .. BUFSIZE, copied \in 0 .. BUFSIZE :
        left = LeftEdge(s) /\ copied = s.end_buf - left
  BY LeftEdgeInside DEF Refillable, Legal
<1>2. left <= s.smark /\ (s.pmark # NULL => left <= s.pmark)
  BY <1>1, LeftEdgeInside DEF Refillable, Legal
<1>3. s \in TypeOfBuffer /\ Ordered(s) /\ s.exit = "no" /\ ~s.eof_read
  BY DEF Refillable, Legal
<1>4. /\ s.smark \in 0 .. BUFSIZE /\ s.emark \in 0 .. BUFSIZE
      /\ s.next \in 0 .. BUFSIZE /\ s.end_buf \in 0 .. BUFSIZE
      /\ s.smark <= s.emark /\ s.emark <= s.next /\ s.next <= s.end_buf
  BY <1>3 DEF TypeOfBuffer, Ordered
<1>5. s.unread \in Nat /\ s.unread <= Len(text) /\ Len(text) \in Nat
  BY DEF Refillable, Legal, TypeOfBuffer
<1>6. /\ BUFSIZE \in Nat /\ MAXLEX \in Nat /\ LOOK \in Nat /\ LOOK < MAXLEX
      /\ copied \in Nat /\ left \in Nat
  BY Sizes
<1>7. /\ need <= BUFSIZE - copied
      /\ BUFSIZE - copied < need + MAXLEX /\ MAXLEX <= need
  <2>1. BUFSIZE - copied \in Nat /\ MAXLEX <= BUFSIZE - copied
    BY <1>1, <1>6 DEF Refillable
  <2>2. need = ((BUFSIZE - copied) \div MAXLEX) * MAXLEX
    BY <1>1 DEF Need
  <2> QED BY <2>1, <2>2, Requests DEF Need
<1>8. /\ copied + got \in 0 .. BUFSIZE /\ s.smark - left \in 0 .. BUFSIZE
      /\ s.emark - left \in 0 .. BUFSIZE /\ s.next - left \in 0 .. BUFSIZE
      /\ s.smark - left <= s.emark - left /\ s.emark - left <= s.next - left
      /\ s.next - left < copied + got
      /\ ~(got < need) => /\ (s.next - left) + LOOK < copied + got
                          /\ BUFSIZE - (copied + got) < MAXLEX
      /\ got < need => copied + got < BUFSIZE
  <2>1. ASSUME NEW sm \in 0 .. BUFSIZE, NEW em \in 0 .. BUFSIZE,
               NEW nx \in 0 .. BUFSIZE, NEW eb \in 0 .. BUFSIZE,
               sm <= em, em <= nx, nx <= eb, left <= sm, copied = eb - left
        PROVE  /\ copied + got \in 0 .. BUFSIZE /\ sm - left \in 0 .. BUFSIZE
               /\ em - left \in 0 .. BUFSIZE /\ nx - left \in 0 .. BUFSIZE
               /\ sm - left <= em - left /\ em - left <= nx - left
               /\ nx - left < copied + got
               /\ ~(got < need) => /\ (nx - left) + LOOK < copied + got
                                   /\ BUFSIZE - (copied + got) < MAXLEX
               /\ got < need => copied + got < BUFSIZE
    BY <1>6, <1>7, <2>1
  <2>2. left <= s.smark /\ copied = s.end_buf - left
    BY <1>1, <1>2
  <2> QED BY <1>4, <2>1, <2>2
<1>9. MovedText(s, got) \in [Index -> Chars]
  <2> DEFINE byte(i) == IF i < copied THEN s.buf[left + i]
                        ELSE IF i < copied + got
                             THEN text[Len(text) - s.unread + (i - copied) + 1]
                             ELSE s.buf[i]
  <2>1. MovedText(s, got) = [i \in Index |-> byte(i)]
    BY <1>1 DEF MovedText
  <2>2. ASSUME NEW i \in Index PROVE byte(i) \in Chars
    <3>1. i \in Nat /\ s.buf \in [Index -> Chars]
      BY <1>3 DEF Index, TypeOfBuffer
    <3>2. CASE i < copied
      <4>1. left + i < BUFSIZE /\ left + i \in Nat
        BY <1>1, <1>4, <1>6, <3>1, <3>2
      <4>2. left + i \in Index
        BY <4>1, <1>6 DEF Index
      <4> QED BY <3>1, <3>2, <4>2
    <3>3. CASE ~(i < copied) /\ i < copied + got
      <4>1. Len(text) - s.unread + (i - copied) + 1 \in 1 .. Len(text)
        BY <1>5, <1>6, <3>1, <3>3, RefillText
      <4> QED BY <3>3, <4>1
    <3>4. CASE ~(i < copied) /\ ~(i < copied + got)
      BY <3>1, <3>4
    <3> QED BY <3>2, <3>3, <3>4
  <2> QED BY <2>1, <2>2
<1>10. t = [s EXCEPT !.buf = MovedText(s, got), !.end_buf = copied + got,
                     !.eof_read = got < need, !.unread = @ - got,
                     !.pmark = IF @ = NULL THEN NULL ELSE @ - left,
                     !.smark = @ - left, !.emark = @ - left, !.next = @ - left]
  BY <1>1, <1>3 DEF Refill, TypeOfBuffer
<1> HIDE DEF t
<1>11. s.pmark # NULL =>
         /\ s.pmark - left \in 0 .. BUFSIZE /\ s.pmark - left <= s.smark - left
         /\ (s.pmark - left) + s.plength < BUFSIZE
  <2>1. s.plength \in Int
    BY <1>3 DEF TypeOfBuffer
  <2>2. ASSUME s.pmark # NULL
        PROVE  s.pmark \in 0 .. BUFSIZE /\ s.pmark <= s.smark
               /\ s.pmark + s.plength < BUFSIZE
    BY <1>3, <2>2 DEF TypeOfBuffer, Ordered
  <2>3. ASSUME s.pmark # NULL
        PROVE  /\ s.pmark - left \in 0 .. BUFSIZE /\ s.pmark - left <= s.smark - left
               /\ (s.pmark - left) + s.plength < BUFSIZE
    <3>1. PICK p \in 0 .. BUFSIZE, m \in Int, l \in Int :
            p = s.pmark /\ m = s.smark /\ l = s.plength
      BY <1>4, <2>1, <2>2, <2>3
    <3>2. left <= p /\ p <= m /\ p + l < BUFSIZE
      BY <1>2, <2>2, <2>3, <3>1
    <3>3. p - left \in 0 .. BUFSIZE /\ p - left <= m - left /\ (p - left) + l < BUFSIZE
      BY <1>6, <3>2
    <3> QED BY <3>1, <3>3
  <2> QED BY <2>3
<1>12. t \in TypeOfBuffer
  <2>1. s.unread - got \in Nat
    BY <1>5
  <2>2. /\ copied + got \in 0 .. BUFSIZE /\ s.smark - left \in 0 .. BUFSIZE
        /\ s.emark - left \in 0 .. BUFSIZE /\ s.next - left \in 0 .. BUFSIZE
        /\ s.pmark # NULL => s.pmark - left \in 0 .. BUFSIZE
        /\ (got < need) \in BOOLEAN
    BY <1>8, <1>11
  <2> QED BY <1>3, <1>9, <1>10, <2>1, <2>2 DEF TypeOfBuffer
<1>13. /\ t.smark = s.smark - left /\ t.emark = s.emark - left
       /\ t.next = s.next - left /\ t.end_buf = copied + got
       /\ t.pmark = IF s.pmark = NULL THEN NULL ELSE s.pmark - left
       /\ t.eof_read = (got < need) /\ t.unread = s.unread - got
       /\ t.plength = s.plength /\ t.exit = s.exit
  BY <1>3, <1>10 DEF TypeOfBuffer
<1>14. Ordered(t)
  BY <1>6, <1>8, <1>11, <1>13 DEF Ordered
<1>15. Sound(t) /\ MayConsume(t)
  <2>1. t.next \in Int /\ t.end_buf \in Int
    BY <1>6, <1>12 DEF TypeOfBuffer
  <2>2. /\ t.next < t.end_buf
        /\ ~t.eof_read => t.next + LOOK < t.end_buf /\ BUFSIZE - t.end_buf < MAXLEX
        /\ t.eof_read => t.end_buf < BUFSIZE
    BY <1>8, <1>13
  <2>3. ~t.eof_read => t.next + LOOK <= t.end_buf
    BY <1>6, <2>1, <2>2
  <2> QED BY <1>14, <2>2, <2>3 DEF Sound, Full, MayConsume
<1>16. Legal(t) /\ t.exit = "no"
  BY <1>3, <1>5, <1>12, <1>13 DEF Legal
<1>17. Callable(t)
  BY <1>15, <1>16 DEF Callable
<1> QED BY <1>15, <1>17 DEF t

\* There is always room to read into, so a refill that ends the program with
\* "Buffer full" had no more of the file to read.
LEMMA MoveAndFillOutcome ==
  ASSUME NEW s, Refillable(s), text \in Seq(Chars), NEW f \in MoveAndFill(s)
  PROVE  /\ Outcome(f) /\ f.been_called = s.been_called
         /\ f.exit = "no" => MayConsume(f)
<1> DEFINE need == Need(s.end_buf - LeftEdge(s))
<1>1. s \in TypeOfBuffer /\ Legal(s) /\ s.exit = "no"
  BY DEF Refillable, Legal
<1>2. need \in Nat /\ need # 0
  <2>1. s.end_buf - LeftEdge(s) \in 0 .. BUFSIZE
    BY LeftEdgeInside DEF Refillable, Legal
  <2>2. BUFSIZE - (s.end_buf - LeftEdge(s)) \in Nat
    BY <2>1, Sizes
  <2> QED BY <2>2, Requests, Sizes DEF Need, Refillable
<1>3. ASSUME NEW e \in {"full", "error"}, e = "full" => s.unread = 0,
             f = [s EXCEPT !.exit = e]
      PROVE  Outcome(f) /\ f.been_called = s.been_called /\ f.exit # "no"
  BY <1>1, <1>3 DEF Outcome, Legal, TypeOfBuffer
<1>4. CASE f \in {[s EXCEPT !.exit = "error"] : x \in {e \in {1} : ReadErrors /\ need > 0}}
  BY <1>3, <1>4
<1>5. ASSUME NEW got \in Counts(need, s.unread),
             f = IF need = 0 \/ got = 0 THEN [s EXCEPT !.exit = "full"] ELSE Refill(s, got)
      PROVE  /\ Outcome(f) /\ f.been_called = s.been_called
             /\ f.exit = "no" => MayConsume(f)
  <2>1. CASE got = 0
    <3>1. s.unread = 0
      BY <1>1, <1>2, <1>5, <2>1 DEF Counts, Legal, TypeOfBuffer
    <3> QED BY <1>3, <1>5, <2>1, <3>1
  <2>2. CASE got # 0
    <3>1. f = Refill(s, got) /\ got \in Nat /\ 0 < got /\ got <= need /\ got <= s.unread
      BY <1>1, <1>2, <1>5, <2>2 DEF Counts, Legal, TypeOfBuffer
    <3>2. Callable(f) /\ MayConsume(f)
      BY <1>2, <3>1, RefillSound
    <3>3. f.been_called = s.been_called
      BY <1>1, <3>1 DEF Refill, TypeOfBuffer
    <3> QED BY <3>2, <3>3 DEF Callable, Outcome
  <2> QED BY <2>1, <2>2
<1> QED BY <1>4, <1>5 DEF MoveAndFill

LEMMA ConsumeCallable ==
  ASSUME NEW s, Callable(s), MayConsume(s)
  PROVE  Callable(Consume(s)) /\ Consume(s).been_called = s.been_called
<1> DEFINE line == IF s.buf[s.next] = NL THEN s.lineno + 1 ELSE s.lineno
           t    == Consume(s)
<1>1. s \in TypeOfBuffer /\ Legal(s) /\ s.exit = "no" /\ Sound(s)
  BY DEF Callable, Legal
<1>2. line \in Int /\ s.next + 1 \in 0 .. BUFSIZE
  BY <1>1, Sizes DEF TypeOfBuffer, MayConsume
<1>3. t = [s EXCEPT !.lineno = line, !.next = s.next + 1]
  BY <1>1 DEF Consume, TypeOfBuffer
<1> HIDE DEF line, t
<1>4. t \in TypeOfBuffer
  BY <1>1, <1>2, <1>3 DEF TypeOfBuffer
<1>5. /\ t.next = s.next + 1 /\ t.smark = s.smark /\ t.emark = s.emark
      /\ t.pmark = s.pmark /\ t.plength = s.plength /\ t.end_buf = s.end_buf
      /\ t.eof_read = s.eof_read /\ t.unread = s.unread /\ t.exit = s.exit
      /\ t.been_called = s.been_called
  BY <1>1, <1>3 DEF TypeOfBuffer
<1>6. Ordered(t)
  BY <1>1, <1>5, Sizes DEF TypeOfBuffer, Sound, Ordered, MayConsume
<1>7. Sound(t)
  BY <1>1, <1>5, <1>6, Sizes DEF TypeOfBuffer, Sound, Full, MayConsume
<1>8. Callable(t)
  BY <1>1, <1>4, <1>5, <1>7 DEF Callable, Legal
<1> QED BY <1>5, <1>8 DEF t

\* ii_advance() after its first call for a file.
LEMMA AdvanceReady ==
  ASSUME NEW s, Callable(s), s.been_called, text \in Seq(Chars),
         NEW f \in ii_advance(s)
  PROVE  Outcome(f) /\ f.been_called
<1>1. FirstCall(s) = s
  BY DEF FirstCall
<1>2. s \in TypeOfBuffer /\ Legal(s) /\ s.exit = "no" /\ Sound(s)
  BY DEF Callable, Legal
<1>3. CASE NO_MORE_CHARS(s) \/ Refused(s)
  BY <1>1, <1>2, <1>3 DEF ii_advance, Outcome
<1>4. CASE ~(NO_MORE_CHARS(s) \/ Refused(s))
  <2>1. PICK g \in ii_flush(s, FALSE) : f = IF g.exit = "no" THEN Consume(g) ELSE g
    BY <1>1, <1>4 DEF ii_advance
  <2>2. CASE s.eof_read \/ ~InDanger(s)
    <3>1. g = s
      BY <2>1, <2>2 DEF ii_flush
    <3>2. MayConsume(s)
      BY <1>2, <1>4, <2>2, Sizes
         DEF MayConsume, NO_MORE_CHARS, InDanger, TypeOfBuffer, Sound
    <3> QED BY <1>2, <2>1, <3>1, <3>2, ConsumeCallable DEF Outcome, Callable
  <2>3. CASE ~(s.eof_read \/ ~InDanger(s))
    <3>1. ~NoRoom(s)
      BY <1>4, <2>3 DEF Refused, NO_MORE_CHARS
    <3>2. g \in MoveAndFill(s)
      BY <2>1, <2>3, <3>1 DEF ii_flush
    <3>3. Refillable(s)
      <4>1. LeftEdge(s) \in 0 .. BUFSIZE /\ s.end_buf \in 0 .. BUFSIZE
        BY <1>2, LeftEdgeInside DEF TypeOfBuffer, Sound
      <4>2. MAXLEX <= BUFSIZE - (s.end_buf - LeftEdge(s))
        BY <3>1, <4>1, Sizes DEF NoRoom
      <4> QED BY <1>2, <2>3, <4>2 DEF Refillable, Sound
    <3>4. Outcome(g) /\ g.been_called /\ (g.exit = "no" => MayConsume(g))
      BY <3>2, <3>3, MoveAndFillOutcome
    <3>5. CASE g.exit = "no"
      BY <2>1, <3>4, <3>5, ConsumeCallable DEF Outcome, Callable
    <3>6. CASE g.exit # "no"
      BY <2>1, <3>4, <3>6
    <3> QED BY <3>5, <3>6
  <2> QED BY <2>2, <2>3
<1> QED BY <1>3, <1>4

\* The first ii_advance() for a file refills the empty buffer.
LEMMA AdvanceFresh ==
  ASSUME NEW s, Legal(s), s.exit = "no", Fresh(s), text \in Seq(Chars),
         NEW f \in ii_advance(s)
  PROVE  Outcome(f) /\ f.been_called
<1> DEFINE s1 == FirstCall(s)
<1>1. s \in TypeOfBuffer
  BY DEF Legal
<1>2. /\ s1 \in TypeOfBuffer /\ s1.been_called
      /\ s1.unread = s.unread /\ s1.exit = s.exit
      /\ ~s1.eof_read /\ s1.pmark = NULL /\ s1.end_buf = BUFSIZE
      /\ s1.smark \in {BUFSIZE - 1, BUFSIZE}
      /\ s1.emark = s1.smark /\ s1.next = s1.smark
  <2>1. CASE s.been_called
    BY <1>1, <2>1, Sizes DEF FirstCall, Fresh
  <2>2. CASE ~s.been_called
    <3>1. BUFSIZE - 1 \in Index /\ BUFSIZE - 1 \in 0 .. BUFSIZE
      BY Sizes DEF Index
    <3>2. s1 = [s EXCEPT !.next = BUFSIZE - 1, !.smark = BUFSIZE - 1,
                         !.emark = BUFSIZE - 1, !.pmark = NULL,
                         !.buf[BUFSIZE - 1] = NL, !.lineno = @ - 1,
                         !.mline = @ - 1, !.been_called = TRUE]
      BY <2>2 DEF FirstCall
    <3> HIDE DEF s1
    <3>3. s1 \in TypeOfBuffer
      <4>1. [s.buf EXCEPT ![BUFSIZE - 1] = NL] \in [Index -> Chars]
        BY <1>1, <3>1, CharsAssumption DEF TypeOfBuffer
      <4>2. s1 = [s EXCEPT !.next = BUFSIZE - 1, !.smark = BUFSIZE - 1,
                           !.emark = BUFSIZE - 1, !.pmark = NULL,
                           !.buf = [s.buf EXCEPT ![BUFSIZE - 1] = NL],
                           !.lineno = s.lineno - 1,
                           !.mline = s.mline - 1, !.been_called = TRUE]
        BY <1>1, <3>2 DEF TypeOfBuffer
      <4>3. s.lineno - 1 \in Int /\ s.mline - 1 \in Int
        BY <1>1 DEF TypeOfBuffer
      <4>4. PICK last \in 0 .. BUFSIZE : last = BUFSIZE - 1
        BY <3>1
      <4> QED BY <1>1, <4>1, <4>2, <4>3, <4>4 DEF TypeOfBuffer
    <3>4. /\ s1.been_called /\ s1.unread = s.unread /\ s1.exit = s.exit
          /\ s1.eof_read = s.eof_read /\ s1.pmark = NULL
          /\ s1.end_buf = s.end_buf /\ s1.smark = BUFSIZE - 1
          /\ s1.emark = BUFSIZE - 1 /\ s1.next = BUFSIZE - 1
      BY <1>1, <3>2 DEF TypeOfBuffer
    <3> QED BY <3>3, <3>4 DEF Fresh
  <2> QED BY <2>1, <2>2
<1> HIDE DEF s1
<1>3. Ordered(s1)
  BY <1>2, Sizes DEF Ordered
<1>4. LeftEdge(s1) = s1.smark
  BY <1>2 DEF LeftEdge
<1>5. InDanger(s1) /\ ~NoRoom(s1) /\ ~NO_MORE_CHARS(s1) /\ ~Refused(s1)
  BY <1>2, <1>4, Sizes DEF InDanger, NoRoom, NO_MORE_CHARS, Refused
<1>6. Refillable(s1)
  <2>1. MAXLEX <= BUFSIZE - (s1.end_buf - LeftEdge(s1))
    BY <1>2, <1>4, Sizes
  <2> QED BY <1>2, <1>3, <2>1 DEF Refillable, Legal
<1>7. PICK g \in MoveAndFill(s1) : f = IF g.exit = "no" THEN Consume(g) ELSE g
  BY <1>2, <1>5 DEF ii_advance, ii_flush, s1
<1>8. Outcome(g) /\ g.been_called /\ (g.exit = "no" => MayConsume(g))
  BY <1>2, <1>6, <1>7, MoveAndFillOutcome
<1>9. CASE g.exit = "no"
  BY <1>7, <1>8, <1>9, ConsumeCallable DEF Outcome, Callable
<1>10. CASE g.exit # "no"
  BY <1>7, <1>8, <1>10
<1> QED BY <1>9, <1>10

LEMMA InputReady ==
  ASSUME NEW s, Callable(s), s.been_called, text \in Seq(Chars),
         NEW f \in ii_input(s)
  PROVE  Outcome(f) /\ f.been_called
<1>1. Callable(ii_unterm(s)) /\ ii_unterm(s).been_called
  <2>1. ii_unterm(s).been_called
    BY DEF ii_unterm, Callable, Legal, TypeOfBuffer
  <2> QED BY <2>1, UntermCallable
<1>2. PICK g \in ii_advance(ii_unterm(s)) :
        f = CASE g.exit # "no" -> g
              [] g.exit = "no" /\ s.termchar = NUL -> ii_mark_end(g)
              [] OTHER -> ii_term(ii_mark_end(g))
  BY DEF ii_input
<1>3. Outcome(g) /\ g.been_called
  BY <1>1, <1>2, AdvanceReady
<1>4. CASE g.exit # "no"
  BY <1>2, <1>3, <1>4
<1>5. CASE g.exit = "no"
  <2>1. Callable(g)
    BY <1>3, <1>5 DEF Callable, Outcome
  <2>2. Callable(ii_mark_end(g)) /\ ii_mark_end(g).been_called
    BY <1>3, <2>1, MarkEndCallable DEF ii_mark_end, Callable, Legal, TypeOfBuffer
  <2>3. /\ Callable(ii_term(ii_mark_end(g)))
        /\ ii_term(ii_mark_end(g)).been_called
    BY <2>2, TermCallable DEF ii_term, Callable, Legal, TypeOfBuffer
  <2>4. f = ii_mark_end(g) \/ f = ii_term(ii_mark_end(g))
    BY <1>2, <1>5
  <2> QED BY <2>2, <2>3, <2>4 DEF Callable, Outcome
<1> QED BY <1>4, <1>5

\* A flush forced after a refusal keeps nothing to the left of the cursor.
LEMMA FlushReady ==
  ASSUME NEW s, Callable(s), s.been_called, Refused(s), text \in Seq(Chars),
         NEW f \in ii_flushbuf(s)
  PROVE  Outcome(f) /\ f.been_called
<1> DEFINE u == ii_unterm(s)
           m == ii_mark_prev(ii_mark_start(u))
<1>1. s \in TypeOfBuffer
  BY DEF Callable, Legal
<1>2. /\ Callable(u) /\ u.been_called /\ u.next = s.next /\ u.end_buf = s.end_buf
      /\ u.smark = s.smark /\ u.pmark = s.pmark /\ u.eof_read = s.eof_read
  <2>1. /\ u.been_called /\ u.next = s.next /\ u.end_buf = s.end_buf
        /\ u.smark = s.smark /\ u.pmark = s.pmark /\ u.eof_read = s.eof_read
    BY <1>1 DEF ii_unterm, TypeOfBuffer
  <2> QED BY <2>1, UntermCallable
<1> HIDE DEF u
<1>3. u \in TypeOfBuffer
  BY <1>2 DEF Callable, Legal
<1>4. NoRoom(u) /\ ~u.eof_read /\ InDanger(u)
  BY <1>2 DEF Refused, NoRoom, LeftEdge, InDanger
<1>5. f \in MoveAndFill(m)
  BY <1>4 DEF ii_flushbuf, ii_flush, u
<1>6. Callable(m)
  BY <1>2, MarkStartCallable, MarkPrevCallable
<1>7. /\ m.been_called /\ m.next = u.next /\ m.end_buf = u.end_buf
      /\ m.smark = u.next /\ m.pmark = u.next /\ m.eof_read = u.eof_read
  BY <1>2, <1>3 DEF ii_mark_prev, ii_mark_start, TypeOfBuffer
<1>8. Refillable(m)
  <2>1. LeftEdge(m) = u.next
    BY <1>3, <1>7, Sizes DEF LeftEdge, TypeOfBuffer
  <2>2. MAXLEX <= BUFSIZE - (m.end_buf - LeftEdge(m))
    BY <1>3, <1>4, <1>7, <2>1, Sizes DEF InDanger, TypeOfBuffer
  <2> QED BY <1>4, <1>6, <1>7, <2>2 DEF Refillable, Callable, Sound
<1> QED BY <1>5, <1>7, <1>8, MoveAndFillOutcome

-----------------------------------------------------------------------------
(* The invariant. *)

LEMMA InitIInv == Init => IInv
<1> SUFFICES ASSUME Init PROVE IInv
  OBVIOUS
<1>1. text \in Seq(Chars) /\ Len(text) \in Nat
  BY CharsAssumption DEF Init
<1>2. b \in TypeOfBuffer
  <2>1. [i \in Index |-> NUL] \in [Index -> Chars]
    BY CharsAssumption
  <2>2. BUFSIZE \in 0 .. BUFSIZE
    BY Sizes
  <2> QED BY <1>1, <2>1, <2>2, CharsAssumption DEF Init, TypeOfBuffer
<1>3. TypeOK
  <2>1. line0 \in Int /\ ready \in BOOLEAN /\ terminated \in BOOLEAN
    <3>1. line0 = 1
      BY DEF Init
    <3>2. ready \in BOOLEAN /\ terminated \in BOOLEAN
      BY Zenon DEF Init
    <3> QED BY <3>1, <3>2
  <2>2. changes \in 0 .. MaxChanges
    BY BoundsAssumption DEF Init
  <2> QED BY <1>1, <1>2, <2>1, <2>2 DEF TypeOK
<1>4. Legal(b) /\ Fresh(b)
  BY <1>1, <1>2 DEF Init, Legal, Fresh
<1> QED BY <1>3, <1>4 DEF IInv, Init

LEMMA ReplacedCharacter ==
  ASSUME NEW S, NEW s \in Seq(S), NEW c \in S, NEW i
  PROVE  [s EXCEPT ![i] = c] \in Seq(S) /\ Len([s EXCEPT ![i] = c]) = Len(s)
<1> DEFINE t == [s EXCEPT ![i] = c]
<1>1. s \in [1 .. Len(s) -> S] /\ Len(s) \in Nat
  OBVIOUS
<1>2. t \in [1 .. Len(s) -> S]
  BY <1>1
<1> HIDE DEF t
<1>3. t \in Seq(S) /\ Len(t) = Len(s)
  BY <1>1, <1>2
<1> QED BY <1>3 DEF t

LEMMA NextIInv == IInv /\ [Next]_vars => IInv'
<1> SUFFICES ASSUME IInv, [Next]_vars PROVE IInv'
  OBVIOUS
<1>1. TypeOK /\ Legal(b)
  BY DEF IInv
<1>2. /\ b \in TypeOfBuffer /\ text \in Seq(Chars) /\ Len(text) \in Nat
      /\ line0 \in Int /\ changes \in 0 .. MaxChanges
  BY <1>1, BoundsAssumption DEF TypeOK
<1>3. Running /\ ready => Callable(b) /\ b.been_called
  BY <1>1 DEF IInv, Running, Callable
\* What a call leaves in the buffer of an open file keeps the invariant.
<1> DEFINE Kept == /\ Len(text') \in Nat /\ Len(text) <= Len(text') /\ text' \in Seq(Chars)
                   /\ line0' \in Int /\ ready' = TRUE
                   /\ terminated' \in BOOLEAN /\ changes' \in 0 .. MaxChanges
<1>4. ASSUME Kept, Outcome(b'), b'.been_called
      PROVE  IInv'
  <2>1. b' \in TypeOfBuffer /\ b'.unread <= Len(text) /\ b'.unread \in Nat
    BY <1>4 DEF Outcome, Legal, TypeOfBuffer
  <2>2. b'.unread <= Len(text')
    BY <1>2, <1>4, <2>1
  <2>3. TypeOK'
    BY <1>1, <1>4, <2>1 DEF TypeOK
  <2>4. Legal(b)'
    BY <1>4, <2>1, <2>2 DEF Outcome, Legal
  <2>5. (Running => Sound(b))'
    BY <1>4 DEF Outcome, Running
  <2> QED BY <1>4, <2>3, <2>4, <2>5 DEF IInv
<1>5. ASSUME Callable(b'), Running, ready, b'.been_called = b.been_called,
             UNCHANGED <<text, line0, ready, changes>>, terminated' \in BOOLEAN
      PROVE  IInv'
  <2>1. Kept
    BY <1>1, <1>2, <1>5
  <2>2. Outcome(b') /\ b'.been_called
    BY <1>3, <1>5 DEF Callable, Outcome
  <2> QED BY <1>4, <2>1, <2>2
<1> HIDE DEF Kept
<1>6. terminated \in BOOLEAN
  BY <1>1 DEF TypeOK
<1>7. CASE NewFile
  <2>1. PICK f \in Files : text' = f /\ b' = ii_newfile(b, f)
    BY <1>7 DEF NewFile
  <2>2. f \in Seq(Chars) /\ Len(f) \in Nat
    BY CharsAssumption
  <2>3. b' \in TypeOfBuffer
    <3>1. PICK top \in 0 .. BUFSIZE : top = BUFSIZE
      BY Sizes
    <3>2. b' = [b EXCEPT !.eof_read = FALSE, !.next = top, !.smark = top,
                         !.pmark = NULL, !.emark = top, !.end_buf = top,
                         !.lineno = 1, !.mline = 1, !.unread = Len(f)]
      BY <2>1, <3>1 DEF ii_newfile
    <3>3. Len(f) \in Nat /\ 1 \in Int
      BY <2>2
    <3> QED BY <1>2, <3>2, <3>3 DEF TypeOfBuffer
  <2>4. Fresh(b') /\ b'.unread = Len(f) /\ b'.exit = b.exit
    BY <1>2, <2>1 DEF ii_newfile, TypeOfBuffer, Fresh
  <2>5. TypeOK'
    <3>1. changes' \in 0 .. MaxChanges
      BY <1>2, <1>7, BoundsAssumption DEF NewFile
    <3>2. ready' \in BOOLEAN /\ terminated' \in BOOLEAN
      BY <1>6, <1>7, Zenon DEF NewFile
    <3>3. line0' = 1
      BY <1>7 DEF NewFile
    <3> QED BY <2>1, <2>2, <2>3, <3>1, <3>2, <3>3 DEF TypeOK
  <2>6. Legal(b)'
    BY <1>7, <2>1, <2>2, <2>3, <2>4 DEF Legal, NewFile, Running
  <2> QED BY <1>7, <2>4, <2>5, <2>6 DEF IInv, NewFile
<1>8. CASE Advance
  <2>1. Kept
    <3>1. CASE b.been_called
      BY <1>2, <1>6, <1>8, <3>1 DEF Advance, Kept
    <3>2. CASE ~b.been_called
      <4>1. /\ <<NL>> \o text \in Seq(Chars)
            /\ Len(<<NL>> \o text) = Len(text) + 1
        BY <1>2, CharsAssumption
      <4>2. text' = <<NL>> \o text /\ line0' = line0 - 1
        BY <1>8, <3>2 DEF Advance
      <4>3. Len(text') \in Nat /\ Len(text) <= Len(text') /\ text' \in Seq(Chars)
        BY <1>2, <4>1, <4>2
      <4>4. terminated' \in BOOLEAN
        BY <1>6, <1>8 DEF Advance
      <4>5. ready' = TRUE /\ changes' = changes
        BY <1>8 DEF Advance
      <4> QED BY <1>2, <4>2, <4>3, <4>4, <4>5 DEF Kept
    <3> QED BY <3>1, <3>2
  <2>2. Outcome(b') /\ b'.been_called
    <3>1. CASE ready
      BY <1>2, <1>3, <1>8, <3>1, AdvanceReady DEF Advance
    <3>2. CASE ~ready
      BY <1>1, <1>2, <1>8, <3>2, AdvanceFresh DEF Advance, IInv, Running
    <3> QED BY <3>1, <3>2
  <2> QED BY <1>4, <2>1, <2>2
<1>9. CASE MarkStart
  <2>1. Callable(b') /\ b'.been_called = b.been_called
    BY <1>2, <1>3, <1>9, MarkStartCallable
       DEF MarkStart, Open, ii_mark_start, TypeOfBuffer
  <2> QED BY <1>5, <1>6, <1>9, <2>1 DEF MarkStart, Open
<1>10. CASE MarkEnd
  <2>1. Callable(b') /\ b'.been_called = b.been_called
    BY <1>2, <1>3, <1>10, MarkEndCallable DEF MarkEnd, Open, ii_mark_end, TypeOfBuffer
  <2> QED BY <1>5, <1>6, <1>10, <2>1 DEF MarkEnd, Open
<1>11. CASE MoveStart
  <2>1. b'.been_called = b.been_called
    BY <1>2, <1>11 DEF MoveStart, ii_move_start, TypeOfBuffer
  <2>2. Callable(b')
    BY <1>3, <1>11, MoveStartCallable DEF MoveStart, Open
  <2> QED BY <1>5, <1>6, <1>11, <2>1, <2>2 DEF MoveStart, Open
<1>12. CASE MoveBack
  <2>1. Callable(b') /\ b'.been_called = b.been_called
    BY <1>2, <1>3, <1>12, MoveBackCallable
       DEF MoveBack, Open, ii_move_back, TypeOfBuffer
  <2> QED BY <1>5, <1>6, <1>12, <2>1 DEF MoveBack, Open
<1>13. CASE MarkPrev
  <2>1. Callable(b') /\ b'.been_called = b.been_called
    BY <1>2, <1>3, <1>13, MarkPrevCallable DEF MarkPrev, ii_mark_prev, TypeOfBuffer
  <2> QED BY <1>5, <1>6, <1>13, <2>1 DEF MarkPrev
<1>14. CASE Pushback
  <2>1. PICK n \in 1 .. MaxBack : b' = ii_pushback(b, n)
    BY <1>14 DEF Pushback
  <2>2. n \in Nat
    BY BoundsAssumption
  <2>3. Callable(b')
    BY <1>3, <1>14, <2>1, <2>2, PushbackCallable DEF Pushback, Open
  <2>4. b'.been_called = b.been_called
    BY <1>2, <2>1 DEF ii_pushback, TypeOfBuffer
  <2> QED BY <1>5, <1>6, <1>14, <2>3, <2>4 DEF Pushback, Open
<1>15. CASE Term
  <2>1. Callable(b') /\ b'.been_called = b.been_called
    BY <1>2, <1>3, <1>15, TermCallable DEF Term, Open, ii_term, TypeOfBuffer
  <2> QED BY <1>5, <1>15, <2>1 DEF Term, Open
<1>16. CASE Unterm
  <2>1. b'.been_called = b.been_called
    BY <1>2, <1>16 DEF Unterm, ii_unterm, TypeOfBuffer
  <2>2. ready
    BY <1>16 DEF IInv, Unterm
  <2>3. Callable(b')
    BY <1>3, <1>16, <2>2, UntermCallable DEF Unterm
  <2> QED BY <1>5, <1>16, <2>1, <2>2, <2>3 DEF Unterm
<1>17. CASE Input
  <2>1. Kept
    BY <1>2, <1>6, <1>17 DEF Input, Kept
  <2>2. Outcome(b') /\ b'.been_called
    BY <1>2, <1>3, <1>17, InputReady DEF Input
  <2> QED BY <1>4, <2>1, <2>2
<1>18. ASSUME NEW c \in PutBack, Unput(c) PROVE IInv'
  <2>1. c \in Chars
    BY CharsAssumption
  <2>2. Callable(b')
    BY <1>3, <1>18, <2>1, UnputCallable DEF Unput
  <2>3. b'.been_called
    BY <1>2, <1>3, <1>18
       DEF Unput, ii_unput, StoreBack, ii_pushback, ii_term, ii_unterm, TypeOfBuffer
  <2>4. Kept
    <3>1. /\ [text EXCEPT ![Cur] = c] \in Seq(Chars)
          /\ Len([text EXCEPT ![Cur] = c]) = Len(text)
      BY <1>2, <2>1, ReplacedCharacter
    <3>2. /\ text' = text \/ text' = [text EXCEPT ![Cur] = c]
      BY <1>18 DEF Unput
    <3>3. text' \in Seq(Chars) /\ Len(text') = Len(text)
      BY <1>2, <3>1, <3>2
    <3>4. line0' = line0 /\ changes' \in 0 .. MaxChanges /\ ready' = TRUE
      BY <1>2, <1>18, BoundsAssumption DEF Unput
    <3>5. terminated' \in BOOLEAN
      BY <1>6, <1>18 DEF Unput
    <3> QED BY <1>2, <3>3, <3>4, <3>5 DEF Kept
  <2> QED BY <1>4, <2>2, <2>3, <2>4 DEF Callable, Outcome
<1>19. CASE FlushBuf
  <2>1. Kept
    <3>1. text' = text /\ line0' = line0 /\ changes' = changes /\ ready' = TRUE
      BY <1>19 DEF FlushBuf
    <3>2. terminated' \in BOOLEAN
      BY <1>19 DEF FlushBuf
    <3> QED BY <1>2, <3>1, <3>2 DEF Kept
  <2>2. Outcome(b') /\ b'.been_called
    BY <1>2, <1>3, <1>19, FlushReady DEF FlushBuf
  <2> QED BY <1>4, <2>1, <2>2
<1>20. CASE UNCHANGED vars
  BY <1>20 DEF IInv, vars, TypeOK, Legal, Running, Sound, Ordered, Fresh, Full
<1> QED
  BY <1>7, <1>8, <1>9, <1>10, <1>11, <1>12, <1>13, <1>14, <1>15, <1>16, <1>17,
     <1>18, <1>19, <1>20 DEF Next

\* The marks and the text read stay consistent, and what is read fits in the
\* buffer, in every state of the input system.
THEOREM IInvHolds == Spec => []IInv
BY InitIInv, NextIInv, PTL DEF Spec

\* Every variable of the input system keeps its type: no index leaves the
\* buffer.
THEOREM TypeCorrect == Spec => []TypeOK
<1>1. IInv => TypeOK
  BY DEF IInv
<1> QED BY IInvHolds, <1>1, PTL

\* The marks stay in order, inside the text read, with room for the
\* terminators ii_term() and the parsers write (input.c:164-175).
THEOREM MarksStayInOrder == Spec => []MarksInOrder
<1>1. IInv => MarksInOrder
  <2> SUFFICES ASSUME IInv, Running, ready PROVE MarksInOrder
    BY DEF MarksInOrder
  <2>1. b \in TypeOfBuffer /\ Sound(b)
    BY DEF IInv, Legal
  <2>2. b.next < BUFSIZE
    BY <2>1, RoomForTerminator
  <2> QED BY <2>1, <2>2 DEF MarksInOrder, Sound, Ordered
<1> QED BY IInvHolds, <1>1, PTL

LEMMA RefusedLong == IInv => RefusedOnlyWhenLong
<1> SUFFICES ASSUME IInv, Running, ready, Refused(b)
             PROVE  b.next - LeftEdge(b) > MAXLEX + LOOK
  BY DEF RefusedOnlyWhenLong
<1>1. b \in TypeOfBuffer /\ Sound(b)
  BY DEF IInv, Legal
<1>2. PICK left \in 0 .. BUFSIZE : left = LeftEdge(b)
  BY <1>1, LeftEdgeInside DEF Sound
<1>3. /\ b.next >= b.end_buf - LOOK /\ left < MAXLEX
      /\ BUFSIZE - b.end_buf < MAXLEX
  BY <1>1, <1>2 DEF Refused, InDanger, NoRoom, Sound, Full
<1>4. b.next \in 0 .. BUFSIZE /\ b.end_buf \in 0 .. BUFSIZE
  BY <1>1 DEF TypeOfBuffer
<1>5. b.next - left > MAXLEX + LOOK
  BY <1>3, <1>4, Sizes
<1> QED BY <1>2, <1>5

\* ii_advance() refuses a lexeme only when it, with the previous lexeme if
\* still marked, is longer than MAXLEX + LOOK (input.c:193-204).
THEOREM OnlyLongLexemesRefused == Spec => []RefusedOnlyWhenLong
BY IInvHolds, RefusedLong, PTL

\* A refill always has room for a whole MAXLEX, so "Buffer full" ends the
\* program only at the end of the file (input.c:209-211, 230-231).
THEOREM NeverFullForWantOfRoom == Spec => []FullOnlyAtEndOfFile
<1>1. IInv => FullOnlyAtEndOfFile
  BY DEF IInv, Legal, FullOnlyAtEndOfFile
<1> QED BY IInvHolds, <1>1, PTL

-----------------------------------------------------------------------------
(***************************************************************************)
(* What the buffer holds.  Base is the one fact behind the theorems that   *)
(* follow: the character at index i of the buffer is the one at Base + i   *)
(* of the stream, from the left edge of what a flush keeps to the end of   *)
(* what was read.  A flush moves the text and Base together.               *)
(***************************************************************************)

\* Positions of the stream x, counted as the characters before them.
Base(s, x)      == Len(x) - s.unread - s.end_buf
Position(s, x)  == Base(s, x) + s.next

\* The buffer holds the stream but for the terminator, and the terminator
\* stands for the character saved.  Past the text read, at the end of file,
\* what is saved is a stale byte.
Shows(s, x) ==
  /\ 0 <= Base(s, x) + LeftEdge(s)
  /\ \A i \in LeftEdge(s) .. s.end_buf - 1 :
       i # s.next \/ s.termchar = NUL => s.buf[i] = x[Base(s, x) + i + 1]
  /\ s.termchar # NUL =>
       /\ s.buf[s.next] = NUL
       /\ s.next < s.end_buf => s.termchar = x[Base(s, x) + s.next + 1]
  /\ ~ShortReads => (s.eof_read => s.unread = 0)

\* The lines are counted when no file holds a NUL (and none is put back).
NulFree     == \A f \in Files : \A j \in 1 .. Len(f) : f[j] # NUL
Lines(x, i) == Cardinality({j \in 1 .. i : x[j] = NL})
Counted(s, x, l0) ==
  NulFree => /\ s.lineno = l0 + Lines(x, Base(s, x) + s.next)
             /\ s.mline = l0 + Lines(x, Base(s, x) + s.emark)
             /\ \A j \in 1 .. Len(x) : x[j] # NUL

Agrees(s, x, l0) == Shows(s, x) /\ Counted(s, x, l0)

TextInv ==
  Running => /\ Agrees(b, text, line0)
             /\ b.termchar # NUL => terminated
             /\ ~ready => b.unread = Len(text) /\ b.termchar = NUL

-----------------------------------------------------------------------------
(* Counting lines. *)

LEMMA PrefixFinite ==
  ASSUME NEW x, NEW i \in Nat
  PROVE  /\ IsFiniteSet({j \in 1 .. i : x[j] = NL}) /\ Lines(x, i) \in Nat
         /\ Lines(x, 0) = 0
<1>1. IsFiniteSet(1 .. i) /\ {j \in 1 .. i : x[j] = NL} \in SUBSET (1 .. i)
  BY FS_Interval
<1>2. {j \in 1 .. 0 : x[j] = NL} = {}
  OBVIOUS
<1> QED BY <1>1, <1>2, FS_Subset, FS_CardinalityType, FS_EmptySet DEF Lines

LEMMA LinesType ==
  ASSUME NEW x, NEW i \in Nat
  PROVE  Lines(x, i) \in Nat /\ Lines(x, 0) = 0
BY PrefixFinite

LEMMA NextLine ==
  ASSUME NEW x, NEW i \in Nat
  PROVE  Lines(x, i + 1) = IF x[i + 1] = NL THEN Lines(x, i) + 1 ELSE Lines(x, i)
<1> DEFINE S == {j \in 1 .. i : x[j] = NL}
           T == {j \in 1 .. i + 1 : x[j] = NL}
<1>1. IsFiniteSet(S)
  BY PrefixFinite
<1>2. CASE x[i + 1] = NL
  <2>1. T = S \cup {i + 1} /\ i + 1 \notin S
    BY <1>2
  <2>2. Cardinality(T) = Cardinality(S) + 1
    BY <1>1, <2>1, FS_AddElement
  <2> QED BY <1>2, <2>2 DEF Lines
<1>3. CASE x[i + 1] # NL
  <2>1. T = S
    BY <1>3
  <2> QED BY <1>3, <2>1 DEF Lines
<1> QED BY <1>2, <1>3

\* The lines ii_pushback() counts on its way back from "from" to "to".
Passed(s, to, from) ==
  {i \in Index : to <= i /\ i < from /\ s.buf[i] \in {NL, NUL}}

Text(s, x, base, to, from) ==
  \A i \in to .. from - 1 : s.buf[i] = x[base + i + 1] /\ s.buf[i] # NUL

LEMMA LinesPassed ==
  ASSUME NEW s \in TypeOfBuffer, NEW x, NEW to \in Nat, NEW from \in Nat,
         NEW base \in Int, 0 <= base + to, to <= from, from <= BUFSIZE,
         Text(s, x, base, to, from)
  PROVE  Lines(x, base + to) = Lines(x, base + from) - Cardinality(Passed(s, to, from))
<1> DEFINE Fine(n) == /\ Lines(x, base + (to + n))
                           = Lines(x, base + to) + Cardinality(Passed(s, to, to + n))
                      /\ IsFiniteSet(Passed(s, to, to + n))
           S == {n \in Nat : to + n <= from => Fine(n)}
<1>0. base + to \in Nat /\ Lines(x, base + to) \in Nat
  <2>1. base + to \in Nat
    OBVIOUS
  <2> QED BY <2>1, LinesType
<1>1. 0 \in S
  <2>1. Passed(s, to, to + 0) = {}
    BY DEF Passed, Index
  <2>2. base + (to + 0) = base + to
    OBVIOUS
  <2>3. Cardinality(Passed(s, to, to + 0)) = 0 /\ IsFiniteSet(Passed(s, to, to + 0))
    BY <2>1, FS_EmptySet
  <2>4. Fine(0)
    BY <1>0, <2>2, <2>3
  <2> QED BY <2>4
<1>2. ASSUME NEW n \in Nat, n \in S PROVE n + 1 \in S
  <2> SUFFICES ASSUME to + (n + 1) <= from PROVE Fine(n + 1)
    OBVIOUS
  <2>1. Fine(n)
    BY <1>2
  <2>2. PICK k \in Nat : k = to + n /\ k < from
    OBVIOUS
  <2>3. k \in Index /\ k \in to .. from - 1
    BY <2>2, Sizes DEF Index
  <2>4. PICK p \in Nat : p = base + k
    BY <2>2
  <2>5. s.buf[k] = x[p + 1] /\ s.buf[k] # NUL
    BY <2>3, <2>4 DEF Text
  <2>6. base + (to + (n + 1)) = p + 1 /\ to + (n + 1) = k + 1 /\ base + (to + n) = p
    BY <2>2, <2>4
  <2>7. CASE s.buf[k] = NL
    <3>1. /\ Passed(s, to, k + 1) = Passed(s, to, k) \cup {k}
          /\ k \notin Passed(s, to, k)
      BY <2>2, <2>3, <2>7 DEF Passed, Index
    <3>2. Lines(x, p + 1) = Lines(x, p) + 1
      BY <2>5, <2>7, NextLine
    <3>4. /\ Cardinality(Passed(s, to, k + 1)) = Cardinality(Passed(s, to, k)) + 1
          /\ IsFiniteSet(Passed(s, to, k + 1)) /\ Cardinality(Passed(s, to, k)) \in Nat
      BY <2>1, <2>2, <3>1, FS_AddElement, FS_CardinalityType
    <3> QED BY <2>1, <2>2, <1>0, <2>6, <3>2, <3>4
  <2>8. CASE s.buf[k] # NL
    <3>1. Passed(s, to, k + 1) = Passed(s, to, k)
      BY <2>2, <2>3, <2>5, <2>8 DEF Passed, Index
    <3>2. Lines(x, p + 1) = Lines(x, p)
      BY <2>5, <2>8, NextLine
    <3> QED BY <2>1, <2>2, <2>6, <3>1, <3>2
  <2> QED BY <2>7, <2>8
<1> HIDE DEF Fine
<1>3. Nat \subseteq S
  BY <1>1, <1>2, EveryNat
<1>4. from - to \in Nat /\ to + (from - to) = from
  OBVIOUS
<1>5. Fine(from - to)
  BY <1>3, <1>4
<1>6. /\ Lines(x, base + from) = Lines(x, base + to) + Cardinality(Passed(s, to, from))
      /\ IsFiniteSet(Passed(s, to, from))
  BY <1>4, <1>5 DEF Fine
<1>7. Lines(x, base + to) \in Nat /\ Cardinality(Passed(s, to, from)) \in Nat
  BY <1>0, <1>6, FS_CardinalityType
<1> QED BY <1>6, <1>7

-----------------------------------------------------------------------------
(* The functions that only move the marks, and the terminator. *)

\* Nothing is lost while the text stays where it is and the left edge of what
\* must be kept does not move left.
SameText(s, t) ==
  /\ t.buf = s.buf /\ t.end_buf = s.end_buf /\ t.unread = s.unread
  /\ t.eof_read = s.eof_read /\ t.termchar = s.termchar
  /\ t.termchar = NUL \/ t.next = s.next
  /\ LeftEdge(s) <= LeftEdge(t)

LEMMA SameTextShown ==
  ASSUME NEW s \in TypeOfBuffer, NEW t \in TypeOfBuffer, Ordered(s), Ordered(t),
         NEW x, Len(x) \in Nat, Shows(s, x), SameText(s, t)
  PROVE  Shows(t, x) /\ Base(t, x) = Base(s, x) /\ Base(s, x) \in Int
<1>1. Base(t, x) = Base(s, x) /\ Base(s, x) \in Int
  BY DEF Base, SameText, TypeOfBuffer
<1>2. PICK base \in Int : base = Base(s, x) /\ base = Base(t, x)
  BY <1>1
<1>3. PICK left \in Nat, edge \in Nat : left = LeftEdge(s) /\ edge = LeftEdge(t)
  BY LeftEdgeInside
<1>4. left <= edge /\ t.end_buf = s.end_buf /\ s.end_buf \in Nat
  BY <1>3 DEF SameText, TypeOfBuffer
<1>5. 0 <= base + edge
  BY <1>2, <1>3, <1>4 DEF Shows
<1>6. ASSUME NEW i \in edge .. t.end_buf - 1, i # t.next \/ t.termchar = NUL
      PROVE  t.buf[i] = x[base + i + 1]
  <2>1. i \in left .. s.end_buf - 1
    BY <1>4
  <2>2. i # s.next \/ s.termchar = NUL
    BY <1>6 DEF SameText
  <2>3. s.buf[i] = x[base + i + 1]
    BY <1>2, <1>3, <2>1, <2>2 DEF Shows
  <2> QED BY <2>3 DEF SameText
<1>7. t.termchar # NUL =>
        /\ t.buf[t.next] = NUL
        /\ t.next < t.end_buf => t.termchar = x[base + t.next + 1]
  BY <1>2 DEF Shows, SameText
<1>8. ~ShortReads => (t.eof_read => t.unread = 0)
  BY DEF Shows, SameText
<1>9. Shows(t, x)
  BY <1>2, <1>3, <1>5, <1>6, <1>7, <1>8 DEF Shows
<1> QED BY <1>1, <1>9

\* What every one of these lemmas starts from.
Held(s, x, l0) ==
  /\ Callable(s) /\ Len(x) \in Nat /\ l0 \in Int /\ Agrees(s, x, l0)

\* The types of the variables, and the order of the marks.
LEMMA Fields ==
  ASSUME NEW s \in TypeOfBuffer
  PROVE  /\ s.next \in Nat /\ s.smark \in Nat /\ s.emark \in Nat
         /\ s.end_buf \in Nat /\ s.unread \in Nat
         /\ s.pmark = NULL \/ s.pmark \in Nat
         /\ s.next <= BUFSIZE
BY DEF TypeOfBuffer

LEMMA OrderedMarks ==
  ASSUME NEW s, Ordered(s)
  PROVE  /\ s.smark <= s.emark /\ s.emark <= s.next /\ s.next <= s.end_buf
         /\ s.pmark # NULL => s.pmark <= s.smark
BY DEF Ordered

\* Where the stream, the buffer and the position meet.
LEMMA Places ==
  ASSUME NEW len \in Nat, NEW unread \in Nat, NEW end \in Nat, NEW next \in Nat
  PROVE  /\ (len - unread - end) + end <= len
         /\ len - unread - (end - next) = (len - unread - end) + next
OBVIOUS

LEMMA HeldFacts ==
  ASSUME NEW s, NEW x, NEW l0, Held(s, x, l0)
  PROVE  /\ s \in TypeOfBuffer /\ Ordered(s) /\ Sound(s) /\ s.next < BUFSIZE
         /\ Shows(s, x) /\ Counted(s, x, l0) /\ Len(x) \in Nat
         /\ Base(s, x) \in Int /\ LeftEdge(s) \in Nat /\ l0 \in Int
         /\ LeftEdge(s) <= s.smark /\ (s.pmark # NULL => LeftEdge(s) <= s.pmark)
         /\ 0 <= Base(s, x) + LeftEdge(s)
<1>1. s \in TypeOfBuffer /\ Ordered(s) /\ Sound(s)
  BY DEF Held, Callable, Legal, Sound
<1>2. Base(s, x) \in Int
  BY <1>1 DEF Base, TypeOfBuffer, Held
<1> QED BY <1>1, <1>2, LeftEdgeInside, RoomForTerminator DEF Held, Agrees, Shows

\* The client's position is that of the proofs.
LEMMA CurIsPosition ==
  ASSUME Held(b, text, line0)
  PROVE  Cur = Position(b, text)
<1>1. /\ Len(text) \in Nat /\ b.unread \in Nat /\ b.end_buf \in Nat /\ b.next \in Nat
  BY HeldFacts, Fields
<1> QED BY <1>1, Places DEF Cur, Position, Base

LEMMA MarkStartAgrees ==
  ASSUME NEW s, NEW x, NEW l0, Held(s, x, l0)
  PROVE  Held(ii_mark_start(s), x, l0)
<1> DEFINE t == ii_mark_start(s)
<1>1. s \in TypeOfBuffer /\ Ordered(s) /\ Shows(s, x) /\ Counted(s, x, l0)
      /\ Len(x) \in Nat /\ LeftEdge(s) \in Nat /\ LeftEdge(s) <= s.smark
  BY HeldFacts
<1>2. Callable(t)
  BY MarkStartCallable DEF Held
<1>3. t \in TypeOfBuffer /\ Ordered(t)
  BY <1>2 DEF Callable, Legal, Sound
<1>4. /\ t.smark = s.next /\ t.emark = s.next /\ t.mline = s.lineno
      /\ t.lineno = s.lineno /\ t.pmark = s.pmark /\ t.next = s.next
      /\ t.buf = s.buf /\ t.end_buf = s.end_buf /\ t.unread = s.unread
      /\ t.eof_read = s.eof_read /\ t.termchar = s.termchar
  BY <1>1 DEF ii_mark_start, TypeOfBuffer
<1> HIDE DEF t
<1>5. LeftEdge(s) <= LeftEdge(t)
  BY <1>1, <1>4 DEF LeftEdge, Ordered, TypeOfBuffer, NULL
<1>6. SameText(s, t)
  BY <1>4, <1>5 DEF SameText
<1>7. Shows(t, x) /\ Base(t, x) = Base(s, x)
  BY <1>1, <1>3, <1>6, SameTextShown
<1>8. Counted(t, x, l0)
  BY <1>1, <1>4, <1>7 DEF Counted
<1>9. Held(t, x, l0)
  BY <1>2, <1>7, <1>8 DEF Held, Agrees
<1> QED BY <1>9 DEF t

LEMMA MarkEndAgrees ==
  ASSUME NEW s, NEW x, NEW l0, Held(s, x, l0)
  PROVE  Held(ii_mark_end(s), x, l0)
<1> DEFINE t == ii_mark_end(s)
<1>1. s \in TypeOfBuffer /\ Ordered(s) /\ Shows(s, x) /\ Counted(s, x, l0)
      /\ Len(x) \in Nat /\ LeftEdge(s) \in Nat
  BY HeldFacts
<1>2. Callable(t)
  BY MarkEndCallable DEF Held
<1>3. t \in TypeOfBuffer /\ Ordered(t)
  BY <1>2 DEF Callable, Legal, Sound
<1>4. /\ t.smark = s.smark /\ t.emark = s.next /\ t.mline = s.lineno
      /\ t.lineno = s.lineno /\ t.pmark = s.pmark /\ t.next = s.next
      /\ t.buf = s.buf /\ t.end_buf = s.end_buf /\ t.unread = s.unread
      /\ t.eof_read = s.eof_read /\ t.termchar = s.termchar
  BY <1>1 DEF ii_mark_end, TypeOfBuffer
<1> HIDE DEF t
<1>5. LeftEdge(s) <= LeftEdge(t)
  BY <1>1, <1>4 DEF LeftEdge
<1>6. SameText(s, t)
  BY <1>4, <1>5 DEF SameText
<1>7. Shows(t, x) /\ Base(t, x) = Base(s, x)
  BY <1>1, <1>3, <1>6, SameTextShown
<1>8. Counted(t, x, l0)
  BY <1>1, <1>4, <1>7 DEF Counted
<1>9. Held(t, x, l0)
  BY <1>2, <1>7, <1>8 DEF Held, Agrees
<1> QED BY <1>9 DEF t

LEMMA MoveStartAgrees ==
  ASSUME NEW s, NEW x, NEW l0, Held(s, x, l0)
  PROVE  Held(ii_move_start(s), x, l0)
<1> DEFINE t == ii_move_start(s)
<1>1. s \in TypeOfBuffer /\ Ordered(s) /\ Shows(s, x) /\ Counted(s, x, l0)
      /\ Len(x) \in Nat /\ LeftEdge(s) \in Nat
  BY HeldFacts
<1>2. CASE s.smark >= s.emark
  BY <1>2 DEF ii_move_start
<1>3. CASE ~(s.smark >= s.emark)
  <2>1. Callable(t)
    BY MoveStartCallable DEF Held
  <2>2. t \in TypeOfBuffer /\ Ordered(t)
    BY <2>1 DEF Callable, Legal, Sound
  <2>3. /\ t.smark = s.smark + 1 /\ t.emark = s.emark /\ t.mline = s.mline
        /\ t.lineno = s.lineno /\ t.pmark = s.pmark /\ t.next = s.next
        /\ t.buf = s.buf /\ t.end_buf = s.end_buf /\ t.unread = s.unread
        /\ t.eof_read = s.eof_read /\ t.termchar = s.termchar
    BY <1>1, <1>3 DEF ii_move_start, TypeOfBuffer
  <2> HIDE DEF t
  <2>4. LeftEdge(s) <= LeftEdge(t)
    BY <1>1, <2>3 DEF LeftEdge, Ordered, TypeOfBuffer, NULL
  <2>5. SameText(s, t)
    BY <2>3, <2>4 DEF SameText
  <2>6. Shows(t, x) /\ Base(t, x) = Base(s, x)
    BY <1>1, <2>2, <2>5, SameTextShown
  <2>7. Counted(t, x, l0)
    BY <1>1, <2>3, <2>6 DEF Counted
  <2>8. Held(t, x, l0)
    BY <2>1, <2>6, <2>7 DEF Held, Agrees
  <2> QED BY <2>8 DEF t
<1> QED BY <1>2, <1>3

LEMMA MoveBackAgrees ==
  ASSUME NEW s, NEW x, NEW l0, Held(s, x, l0), s.termchar = NUL
  PROVE  Held(ii_move_back(s), x, l0)
<1> DEFINE t == ii_move_back(s)
<1>1. s \in TypeOfBuffer /\ Ordered(s) /\ Shows(s, x) /\ Counted(s, x, l0)
      /\ Len(x) \in Nat /\ LeftEdge(s) \in Nat
  BY HeldFacts
<1>2. Callable(t)
  BY MoveBackCallable DEF Held
<1>3. t \in TypeOfBuffer /\ Ordered(t)
  BY <1>2 DEF Callable, Legal, Sound
<1>4. /\ t.smark = s.smark /\ t.emark = s.emark /\ t.mline = s.mline
      /\ t.lineno = s.mline /\ t.pmark = s.pmark /\ t.next = s.emark
      /\ t.buf = s.buf /\ t.end_buf = s.end_buf /\ t.unread = s.unread
      /\ t.eof_read = s.eof_read /\ t.termchar = s.termchar
  BY <1>1 DEF ii_move_back, TypeOfBuffer
<1> HIDE DEF t
<1>5. LeftEdge(s) <= LeftEdge(t)
  BY <1>1, <1>4 DEF LeftEdge
<1>6. SameText(s, t)
  BY <1>4, <1>5 DEF SameText
<1>7. Shows(t, x) /\ Base(t, x) = Base(s, x)
  BY <1>1, <1>3, <1>6, SameTextShown
<1>8. Counted(t, x, l0)
  BY <1>1, <1>4, <1>7 DEF Counted
<1>9. Held(t, x, l0)
  BY <1>2, <1>7, <1>8 DEF Held, Agrees
<1> QED BY <1>9 DEF t

LEMMA MarkPrevAgrees ==
  ASSUME NEW s, NEW x, NEW l0, Held(s, x, l0)
  PROVE  Held(ii_mark_prev(s), x, l0)
<1> DEFINE t == ii_mark_prev(s)
<1>1. s \in TypeOfBuffer /\ Ordered(s) /\ Shows(s, x) /\ Counted(s, x, l0)
      /\ Len(x) \in Nat /\ LeftEdge(s) \in Nat /\ LeftEdge(s) <= s.smark
  BY HeldFacts
<1>2. Callable(t)
  BY MarkPrevCallable DEF Held
<1>3. t \in TypeOfBuffer /\ Ordered(t)
  BY <1>2 DEF Callable, Legal, Sound
<1>4. /\ t.smark = s.smark /\ t.emark = s.emark /\ t.mline = s.mline
      /\ t.lineno = s.lineno /\ t.pmark = s.smark /\ t.next = s.next
      /\ t.buf = s.buf /\ t.end_buf = s.end_buf /\ t.unread = s.unread
      /\ t.eof_read = s.eof_read /\ t.termchar = s.termchar
  BY <1>1 DEF ii_mark_prev, TypeOfBuffer
<1> HIDE DEF t
<1>5. LeftEdge(s) <= LeftEdge(t)
  BY <1>1, <1>4 DEF LeftEdge
<1>6. SameText(s, t)
  BY <1>4, <1>5 DEF SameText
<1>7. Shows(t, x) /\ Base(t, x) = Base(s, x)
  BY <1>1, <1>3, <1>6, SameTextShown
<1>8. Counted(t, x, l0)
  BY <1>1, <1>4, <1>7 DEF Counted
<1>9. Held(t, x, l0)
  BY <1>2, <1>7, <1>8 DEF Held, Agrees
<1> QED BY <1>9 DEF t

\* The stream holds no NUL, so the newlines passed are what ii_pushback()
\* takes from the line number.
LEMMA PushbackAgrees ==
  ASSUME NEW s, NEW x, NEW l0, Held(s, x, l0), s.termchar = NUL, NEW n \in Nat
  PROVE  Held(ii_pushback(s, n), x, l0)
<1> DEFINE t == ii_pushback(s, n)
<1>1. s \in TypeOfBuffer /\ Ordered(s) /\ Shows(s, x) /\ Counted(s, x, l0)
      /\ Len(x) \in Nat /\ LeftEdge(s) \in Nat /\ l0 \in Int
      /\ LeftEdge(s) <= s.smark
  BY HeldFacts
<1>2. Callable(t)
  BY PushbackCallable DEF Held
<1>3. t \in TypeOfBuffer /\ Ordered(t)
  BY <1>2 DEF Callable, Legal, Sound
<1>4. PICK to \in Nat : to = IF s.next - n > s.smark THEN s.next - n ELSE s.smark
  <2>1. s.next \in Nat /\ s.smark \in Nat
    BY <1>1 DEF TypeOfBuffer
  <2>2. (IF s.next - n > s.smark THEN s.next - n ELSE s.smark) \in Nat
    BY <2>1
  <2> QED BY <2>2
<1>5. s.smark <= to /\ to <= s.next
  <2>1. s.next \in Nat /\ s.smark \in Nat
    BY <1>1 DEF TypeOfBuffer
  <2>2. s.smark <= s.emark /\ s.emark <= s.next /\ s.emark \in Nat
    BY <1>1, OrderedMarks, Fields
  <2> QED BY <1>4, <2>1, <2>2
<1>6. /\ t.smark = s.smark /\ t.pmark = s.pmark /\ t.next = to
      /\ t.emark = (IF to < s.emark THEN to ELSE s.emark)
      /\ t.lineno = s.lineno - Cardinality(Passed(s, to, s.next))
      /\ t.mline = (IF to < s.emark THEN t.lineno ELSE s.mline)
      /\ t.buf = s.buf /\ t.end_buf = s.end_buf /\ t.unread = s.unread
      /\ t.eof_read = s.eof_read /\ t.termchar = s.termchar
  BY <1>1, <1>4 DEF ii_pushback, TypeOfBuffer, Passed
<1> HIDE DEF t
<1>7. LeftEdge(s) <= LeftEdge(t)
  BY <1>1, <1>6 DEF LeftEdge
<1>8. SameText(s, t)
  BY <1>6, <1>7 DEF SameText
<1>9. Shows(t, x) /\ Base(t, x) = Base(s, x) /\ Base(s, x) \in Int
  BY <1>1, <1>3, <1>8, SameTextShown
<1>10. Counted(t, x, l0)
  <2> SUFFICES ASSUME NulFree
               PROVE  /\ t.lineno = l0 + Lines(x, Base(t, x) + t.next)
                      /\ t.mline = l0 + Lines(x, Base(t, x) + t.emark)
                      /\ \A j \in 1 .. Len(x) : x[j] # NUL
    BY DEF Counted
  <2>1. PICK base \in Int : base = Base(s, x)
    BY <1>9
  <2>2. PICK left \in Nat, from \in Nat : left = LeftEdge(s) /\ from = s.next
    BY <1>1 DEF TypeOfBuffer
  <2>3. /\ left <= to /\ to <= from /\ from <= s.end_buf /\ s.end_buf \in Nat
        /\ from <= BUFSIZE /\ 0 <= base + left /\ base + s.end_buf <= Len(x)
    <3>1. left <= to /\ to <= from /\ from <= s.end_buf /\ s.end_buf \in Nat
      BY <1>1, <1>5, <2>2 DEF Ordered, TypeOfBuffer
    <3>2. from <= BUFSIZE /\ 0 <= base + left
      BY <1>1, <2>1, <2>2 DEF TypeOfBuffer, Shows
    <3>3. base + s.end_buf <= Len(x)
      <4>1. base = Len(x) - s.unread - s.end_buf
        BY <2>1 DEF Base
      <4>2. Len(x) \in Nat /\ s.unread \in Nat /\ s.end_buf \in Nat /\ s.next \in Nat
        BY <1>1, Fields
      <4> QED BY <4>1, <4>2, Places
    <3> QED BY <3>1, <3>2, <3>3
  <2>4. /\ s.lineno = l0 + Lines(x, base + from)
        /\ s.mline = l0 + Lines(x, base + s.emark)
        /\ \A j \in 1 .. Len(x) : x[j] # NUL
    BY <1>1, <2>1, <2>2 DEF Counted
  <2>5. ASSUME NEW i \in to .. from - 1
        PROVE  s.buf[i] = x[base + i + 1] /\ s.buf[i] # NUL
    <3>1. i \in left .. s.end_buf - 1 /\ i # s.next
      <4>1. left \in Nat /\ from \in Nat /\ from = s.next
        BY <2>2
      <4>2. i \in Int /\ to <= i /\ i <= from - 1
        OBVIOUS
      <4>3. left <= i /\ i # s.next
        BY <1>5, <2>3, <4>1, <4>2
      <4> QED BY <2>3, <4>1, <4>2, <4>3
    <3>2. s.buf[i] = x[base + i + 1]
      BY <1>1, <2>1, <2>2, <3>1 DEF Shows
    <3>3. base + i + 1 \in 1 .. Len(x)
      BY <1>1, <2>3, <3>1
    <3> QED BY <2>4, <3>2, <3>3
  <2>6. 0 <= base + to /\ Text(s, x, base, to, from)
    BY <2>3, <2>5 DEF Text
  <2>7. Lines(x, base + to) = Lines(x, base + from) - Cardinality(Passed(s, to, from))
    BY <1>1, <2>3, <2>6, LinesPassed
  <2>8. base + from \in Nat /\ Lines(x, base + from) \in Nat
    <3>1. base + from \in Nat
      BY <2>3
    <3> QED BY <3>1, LinesType
  <2>9. Cardinality(Passed(s, to, from)) \in Nat
    <3>1. IsFiniteSet(Index)
      BY Sizes, FS_Interval DEF Index
    <3>2. Passed(s, to, from) \in SUBSET Index
      BY DEF Passed
    <3> QED BY <3>1, <3>2, FS_Subset, FS_CardinalityType
  <2>10. t.lineno = l0 + Lines(x, base + to)
    BY <1>1, <1>6, <2>2, <2>4, <2>7, <2>8, <2>9
  <2>11. Base(t, x) = base /\ t.next = to
    BY <1>6, <1>9, <2>1
  <2>12. t.mline = l0 + Lines(x, base + t.emark)
    <3>1. CASE to < s.emark
      <4>1. t.emark = to /\ t.mline = t.lineno
        BY <1>6, <3>1
      <4> QED BY <2>10, <4>1
    <3>2. CASE ~(to < s.emark)
      <4>1. t.emark = s.emark /\ t.mline = s.mline
        BY <1>6, <3>2
      <4> QED BY <2>4, <4>1
    <3> QED BY <3>1, <3>2
  <2> QED BY <2>4, <2>10, <2>11, <2>12
<1>11. Held(t, x, l0)
  BY <1>2, <1>9, <1>10 DEF Held, Agrees
<1> QED BY <1>11 DEF t

\* The terminator hides one character, and gives it back.
LEMMA TermAgrees ==
  ASSUME NEW s, NEW x, NEW l0, Held(s, x, l0), s.termchar = NUL
  PROVE  Held(ii_term(s), x, l0)
<1> DEFINE t == ii_term(s)
<1>1. s \in TypeOfBuffer /\ Ordered(s) /\ Shows(s, x) /\ Counted(s, x, l0)
      /\ Len(x) \in Nat /\ LeftEdge(s) \in Nat /\ s.next < BUFSIZE
      /\ LeftEdge(s) <= s.smark /\ Base(s, x) \in Int
  BY HeldFacts
<1>2. Callable(t)
  BY TermCallable DEF Held
<1>3. s.next \in Index /\ s.buf \in [Index -> Chars]
  BY <1>1, Sizes DEF TypeOfBuffer, Index
<1>4. /\ t.smark = s.smark /\ t.emark = s.emark /\ t.mline = s.mline
      /\ t.lineno = s.lineno /\ t.pmark = s.pmark /\ t.next = s.next
      /\ t.end_buf = s.end_buf /\ t.unread = s.unread /\ t.eof_read = s.eof_read
      /\ t.termchar = s.buf[s.next] /\ t.buf = [s.buf EXCEPT ![s.next] = NUL]
  BY <1>1 DEF ii_term, TypeOfBuffer
<1> HIDE DEF t
<1>5. LeftEdge(t) = LeftEdge(s) /\ Base(t, x) = Base(s, x)
  BY <1>4 DEF LeftEdge, Base
<1>6. Shows(t, x)
  <2>1. PICK base \in Int : base = Base(s, x)
    BY <1>1
  <2>2. PICK left \in Nat, next \in Index : left = LeftEdge(s) /\ next = s.next
    BY <1>1, <1>3
  <2>3. left <= next /\ s.end_buf \in Nat
    BY <1>1, <2>2 DEF Ordered, TypeOfBuffer
  <2>4. ASSUME NEW i \in left .. s.end_buf - 1 PROVE s.buf[i] = x[base + i + 1]
    BY <1>1, <2>1, <2>2, <2>4 DEF Shows
  <2>5. ASSUME NEW i \in left .. s.end_buf - 1, i # next \/ t.termchar = NUL
        PROVE  t.buf[i] = x[base + i + 1]
    <3>1. i \in Index
      BY <1>1, <2>3, Sizes DEF Index, TypeOfBuffer
    <3> QED BY <1>3, <1>4, <2>2, <2>4, <2>5, <3>1
  <2>6. t.buf[next] = NUL
    BY <1>3, <1>4, <2>2
  <2>7. next < s.end_buf => t.termchar = x[base + next + 1]
    <3>1. ASSUME next < s.end_buf PROVE next \in left .. s.end_buf - 1
      BY <2>3, <3>1 DEF Index
    <3> QED BY <1>4, <2>2, <2>4, <3>1
  <2>8. 0 <= base + left /\ (~ShortReads => (t.eof_read => t.unread = 0))
    BY <1>1, <1>4, <2>1, <2>2 DEF Shows
  <2> QED BY <1>4, <1>5, <2>1, <2>2, <2>5, <2>6, <2>7, <2>8 DEF Shows
<1>7. Counted(t, x, l0)
  BY <1>1, <1>4, <1>5 DEF Counted
<1>8. Held(t, x, l0)
  BY <1>2, <1>6, <1>7 DEF Held, Agrees
<1> QED BY <1>8 DEF t

LEMMA UntermAgrees ==
  ASSUME NEW s, NEW x, NEW l0, Held(s, x, l0)
  PROVE  /\ Held(ii_unterm(s), x, l0) /\ ii_unterm(s).termchar = NUL
         /\ ii_unterm(s).next = s.next /\ ii_unterm(s).smark = s.smark
         /\ ii_unterm(s).emark = s.emark /\ ii_unterm(s).pmark = s.pmark
         /\ ii_unterm(s).unread = s.unread /\ ii_unterm(s).end_buf = s.end_buf
         /\ ii_unterm(s).eof_read = s.eof_read
         /\ ii_unterm(s).been_called = s.been_called /\ ii_unterm(s).exit = s.exit
<1> DEFINE t == ii_unterm(s)
<1>1. s \in TypeOfBuffer /\ Ordered(s) /\ Shows(s, x) /\ Counted(s, x, l0)
      /\ Len(x) \in Nat /\ LeftEdge(s) \in Nat /\ s.next < BUFSIZE
      /\ LeftEdge(s) <= s.smark /\ Base(s, x) \in Int
  BY HeldFacts
<1>2. Callable(t)
  BY UntermCallable DEF Held
<1>3. s.next \in Index /\ s.buf \in [Index -> Chars]
  BY <1>1, Sizes DEF TypeOfBuffer, Index
<1>4. CASE s.termchar = NUL
  BY <1>4 DEF ii_unterm
<1>5. CASE s.termchar # NUL
  <2>1. /\ t.smark = s.smark /\ t.emark = s.emark /\ t.mline = s.mline
        /\ t.lineno = s.lineno /\ t.pmark = s.pmark /\ t.next = s.next
        /\ t.end_buf = s.end_buf /\ t.unread = s.unread /\ t.eof_read = s.eof_read
        /\ t.been_called = s.been_called /\ t.exit = s.exit
        /\ t.termchar = NUL /\ t.buf = [s.buf EXCEPT ![s.next] = s.termchar]
    BY <1>1, <1>5 DEF ii_unterm, TypeOfBuffer
  <2> HIDE DEF t
  <2>2. LeftEdge(t) = LeftEdge(s) /\ Base(t, x) = Base(s, x)
    BY <2>1 DEF LeftEdge, Base
  <2>3. Shows(t, x)
    <3>1. PICK base \in Int : base = Base(s, x)
      BY <1>1
    <3>2. PICK left \in Nat, next \in Index : left = LeftEdge(s) /\ next = s.next
      BY <1>1, <1>3
    <3>3. ASSUME NEW i \in left .. s.end_buf - 1
          PROVE  t.buf[i] = x[base + i + 1]
      <4>1. i \in Index
        BY <1>1, <3>3, Sizes DEF Index, TypeOfBuffer
      <4>2. CASE i = next
        <5>1. next < s.end_buf
          BY <1>1, <3>3, <4>2 DEF TypeOfBuffer
        <5>2. s.termchar = x[base + next + 1]
          BY <1>1, <1>5, <3>1, <3>2, <5>1 DEF Shows
        <5> QED BY <1>3, <2>1, <3>2, <4>2, <5>2
      <4>3. CASE i # next
        <5>1. s.buf[i] = x[base + i + 1]
          BY <1>1, <3>1, <3>2, <3>3, <4>3 DEF Shows
        <5> QED BY <1>3, <2>1, <3>2, <4>1, <4>3, <5>1
      <4> QED BY <4>2, <4>3
    <3>4. 0 <= base + left /\ (~ShortReads => (t.eof_read => t.unread = 0))
      BY <1>1, <2>1, <3>1, <3>2 DEF Shows
    <3> QED BY <2>1, <2>2, <3>1, <3>2, <3>3, <3>4 DEF Shows
  <2>4. Counted(t, x, l0)
    BY <1>1, <2>1, <2>2 DEF Counted
  <2>5. Held(t, x, l0)
    BY <1>2, <2>3, <2>4 DEF Held, Agrees
  <2> QED BY <2>1, <2>5 DEF t
<1> QED BY <1>4, <1>5

\* A character put back takes the place in the stream of the one before the
\* cursor; the lines before it are what they were.
LEMMA EarlierLines ==
  ASSUME NEW x \in Seq(Chars), NEW c, NEW at \in 1 .. Len(x),
         NEW i \in Nat, i < at
  PROVE  Lines([x EXCEPT ![at] = c], i) = Lines(x, i)
<1> DEFINE y == [x EXCEPT ![at] = c]
<1>1. ASSUME NEW j \in 1 .. i PROVE y[j] = x[j]
  <2>1. j \in 1 .. Len(x) /\ j # at
    OBVIOUS
  <2> QED BY <2>1
<1> HIDE DEF y
<1>2. {j \in 1 .. i : y[j] = NL} = {j \in 1 .. i : x[j] = NL}
  BY <1>1
<1>3. Lines(y, i) = Lines(x, i)
  BY <1>2 DEF Lines
<1> QED BY <1>3 DEF y

LEMMA StoreAgrees ==
  ASSUME NEW s, NEW x \in Seq(Chars), NEW l0, Held(s, x, l0), s.termchar = NUL,
         s.next < s.end_buf, NEW c \in Chars \ {NUL}
  PROVE  /\ Held([s EXCEPT !.buf[s.next] = c],
                 [x EXCEPT ![Position(s, x) + 1] = c], l0)
         /\ Position(s, x) + 1 \in 1 .. Len(x)
<1> DEFINE t == [s EXCEPT !.buf[s.next] = c]
           y == [x EXCEPT ![Position(s, x) + 1] = c]
<1>1. s \in TypeOfBuffer /\ Ordered(s) /\ Shows(s, x) /\ Counted(s, x, l0)
      /\ Len(x) \in Nat /\ LeftEdge(s) \in Nat /\ s.next < BUFSIZE
      /\ LeftEdge(s) <= s.smark /\ Base(s, x) \in Int
      /\ 0 <= Base(s, x) + LeftEdge(s)
  BY HeldFacts
<1>2. Callable(t)
  BY StoreCallable DEF Held
<1>3. s.next \in Index /\ s.buf \in [Index -> Chars]
  BY <1>1, Sizes DEF TypeOfBuffer, Index
<1>4. /\ t.smark = s.smark /\ t.emark = s.emark /\ t.mline = s.mline
      /\ t.lineno = s.lineno /\ t.pmark = s.pmark /\ t.next = s.next
      /\ t.end_buf = s.end_buf /\ t.unread = s.unread /\ t.eof_read = s.eof_read
      /\ t.termchar = NUL /\ t.buf = [s.buf EXCEPT ![s.next] = c]
  BY <1>1 DEF TypeOfBuffer
<1>5. PICK base \in Int, left \in Nat, next \in Index, emark \in Nat :
        /\ base = Base(s, x) /\ left = LeftEdge(s) /\ next = s.next
        /\ emark = s.emark
  BY <1>1, <1>3 DEF TypeOfBuffer
<1>6. /\ left <= emark /\ emark <= next /\ 0 <= base + left
      /\ next < s.end_buf /\ base + s.end_buf <= Len(x) /\ s.end_buf \in Nat
  <2>1. base + s.end_buf <= Len(x) /\ s.end_buf \in Nat
    BY <1>1, <1>5 DEF Base, TypeOfBuffer
  <2>2. left <= emark /\ emark <= next
    BY <1>1, <1>5 DEF Ordered, TypeOfBuffer
  <2> QED BY <1>1, <1>5, <2>1, <2>2
<1>7. PICK at \in 1 .. Len(x) : at = base + next + 1
  BY <1>1, <1>6 DEF Index
<1>8. y = [x EXCEPT ![at] = c] /\ Position(s, x) + 1 = at
  BY <1>5, <1>7 DEF Position
<1>9. Len(y) = Len(x) /\ y \in Seq(Chars)
  BY <1>8, ReplacedCharacter
<1>10. /\ y[at] = c
       /\ \A j \in 1 .. Len(x) : j # at => y[j] = x[j]
  BY <1>8
<1> HIDE DEF t, y
<1>11. LeftEdge(t) = left /\ Base(t, y) = base
  BY <1>4, <1>5, <1>9 DEF LeftEdge, Base
<1>12. Shows(t, y)
  <2>1. ASSUME NEW i \in left .. s.end_buf - 1
        PROVE  t.buf[i] = y[base + i + 1]
    <3>1. i \in Index
      <4>1. s.end_buf \in Nat /\ s.end_buf <= BUFSIZE
        BY <1>1 DEF TypeOfBuffer
      <4>2. i \in Nat /\ i < s.end_buf
        BY <1>1, <1>5, <2>1, <4>1
      <4> QED BY <4>1, <4>2, Sizes DEF Index
    <3>2. CASE i = next
      BY <1>3, <1>4, <1>5, <1>7, <1>10, <3>2
    <3>3. CASE i # next
      <4>1. s.buf[i] = x[base + i + 1]
        BY <1>1, <1>5, <2>1, <3>3 DEF Shows
      <4>2. base + i + 1 \in 1 .. Len(x) /\ base + i + 1 # at
        BY <1>1, <1>6, <1>7, <2>1, <3>3 DEF Index
      <4> QED BY <1>3, <1>4, <1>5, <1>10, <3>1, <3>3, <4>1, <4>2
    <3> QED BY <3>2, <3>3
  <2>2. ~ShortReads => (t.eof_read => t.unread = 0)
    BY <1>1, <1>4 DEF Shows
  <2> QED BY <1>4, <1>6, <1>11, <2>1, <2>2 DEF Shows
<1>13. Counted(t, y, l0)
  <2>1. /\ base + next \in Nat /\ base + next < at
        /\ base + emark \in Nat /\ base + emark < at
    BY <1>6, <1>7 DEF Index
  <2>2. Lines(y, base + next) = Lines(x, base + next)
    <3>1. Lines([x EXCEPT ![at] = c], base + next) = Lines(x, base + next)
      BY <2>1, EarlierLines, Zenon
    <3> QED BY <1>8, <3>1, Zenon
  <2>3. Lines(y, base + emark) = Lines(x, base + emark)
    <3>1. Lines([x EXCEPT ![at] = c], base + emark) = Lines(x, base + emark)
      BY <2>1, EarlierLines, Zenon
    <3> QED BY <1>8, <3>1, Zenon
  <2>4. NulFree => \A j \in 1 .. Len(y) : y[j] # NUL
    BY <1>1, <1>9, <1>10 DEF Counted
  <2> QED BY <1>1, <1>4, <1>5, <1>11, <2>2, <2>3, <2>4 DEF Counted
<1>14. Held(t, y, l0)
  BY <1>1, <1>2, <1>9, <1>12, <1>13 DEF Held, Agrees
<1> QED BY <1>7, <1>8, <1>14 DEF t, y

\* What the stream x becomes when c is put back, the cursor at Position(s, x).
PutInto(s, x, c) ==
  IF s.next - 1 > s.smark THEN [x EXCEPT ![Position(s, x)] = c] ELSE x

LEMMA StoreBackAgrees ==
  ASSUME NEW s, NEW x \in Seq(Chars), NEW l0, Held(s, x, l0), s.termchar = NUL,
         NEW c \in Chars \ {NUL}
  PROVE  /\ Held(StoreBack(s, c), PutInto(s, x, c), l0)
         /\ StoreBack(s, c).termchar = NUL
         /\ s.next - 1 > s.smark => Position(s, x) \in 1 .. Len(x)
<1> DEFINE p == ii_pushback(s, 1)
<1>1. s \in TypeOfBuffer /\ Ordered(s) /\ Base(s, x) \in Int
  BY HeldFacts
<1>2. Held(p, x, l0)
  BY PushbackAgrees
<1>3. /\ p.next = IF s.next - 1 > s.smark THEN s.next - 1 ELSE s.smark
      /\ p.smark = s.smark /\ p.termchar = NUL /\ p.end_buf = s.end_buf
      /\ p.unread = s.unread
  BY <1>1 DEF ii_pushback, TypeOfBuffer
<1> HIDE DEF p
<1>4. CASE s.next - 1 > s.smark
  <2>1. p.next = s.next - 1 /\ p.next > p.smark /\ p.next < p.end_buf
    BY <1>1, <1>3, <1>4 DEF Ordered, TypeOfBuffer
  <2>2. Position(p, x) + 1 = Position(s, x)
    BY <1>1, <1>3, <2>1 DEF Position, Base, TypeOfBuffer
  <2>3. StoreBack(s, c) = [p EXCEPT !.buf[p.next] = c]
    BY <2>1 DEF StoreBack, p
  <2>4. /\ Held([p EXCEPT !.buf[p.next] = c],
                [x EXCEPT ![Position(p, x) + 1] = c], l0)
        /\ Position(p, x) + 1 \in 1 .. Len(x)
    BY <1>2, <1>3, <2>1, StoreAgrees
  <2>5. [p EXCEPT !.buf[p.next] = c].termchar = NUL
    BY <1>2, <1>3, HeldFacts DEF TypeOfBuffer
  <2> QED BY <1>4, <2>2, <2>3, <2>4, <2>5 DEF PutInto
<1>5. CASE ~(s.next - 1 > s.smark)
  <2>1. ~(p.next > p.smark)
    BY <1>1, <1>3, <1>5 DEF TypeOfBuffer
  <2>2. StoreBack(s, c) = p
    BY <2>1 DEF StoreBack, p
  <2> QED BY <1>2, <1>3, <1>5, <2>2 DEF PutInto
<1> QED BY <1>4, <1>5

LEMMA UnputAgrees ==
  ASSUME NEW s, NEW x \in Seq(Chars), NEW l0, Held(s, x, l0), NEW c \in Chars \ {NUL}
  PROVE  /\ Held(ii_unput(s, c), PutInto(s, x, c), l0)
         /\ s.termchar = NUL => ii_unput(s, c).termchar = NUL
<1>1. CASE s.termchar = NUL
  BY <1>1, StoreBackAgrees DEF ii_unput
<1>2. CASE s.termchar # NUL
  <2>1. PICK u : u = ii_unterm(s)
    OBVIOUS
  <2>2. Held(u, x, l0) /\ u.termchar = NUL /\ PutInto(u, x, c) = PutInto(s, x, c)
    BY <2>1, UntermAgrees DEF PutInto, Position, Base
  <2>3. /\ Held(StoreBack(u, c), PutInto(s, x, c), l0)
        /\ StoreBack(u, c).termchar = NUL
    BY <2>2, StoreBackAgrees
  <2>4. Held(ii_term(StoreBack(u, c)), PutInto(s, x, c), l0)
    BY <2>3, TermAgrees
  <2> QED BY <1>2, <2>1, <2>4 DEF ii_unput
<1> QED BY <1>1, <1>2

-----------------------------------------------------------------------------
(* The functions that read. *)

\* The marks of t are where those of s were in the stream.
SamePlaces(s, t, x) ==
  /\ Base(t, x) + t.smark = Base(s, x) + s.smark
  /\ Base(t, x) + t.emark = Base(s, x) + s.emark
  /\ t.pmark = NULL <=> s.pmark = NULL
  /\ s.pmark # NULL => Base(t, x) + t.pmark = Base(s, x) + s.pmark

\* The stream ends with the open file: before it stands at most the newline
\* that the first ii_advance() of the program pushes.
EndsWithFile(x) ==
  /\ Len(x) \in Nat /\ Len(text) <= Len(x)
  /\ \A k \in 1 .. Len(text) : x[Len(x) - Len(text) + k] = text[k]

\* A buffer about to be refilled.
Refilled(s, x, l0) ==
  /\ Refillable(s) /\ EndsWithFile(x) /\ l0 \in Int
  /\ Agrees(s, x, l0) /\ s.termchar = NUL

LEMMA BaseMoves ==
  ASSUME NEW len \in Int, NEW unread \in Int, NEW left \in Int, NEW copied \in Int
  PROVE  \A got \in Int : len - (unread - got) - (copied + got)
                           = (len - unread - (left + copied)) + left
OBVIOUS

LEMMA RefillAgrees ==
  ASSUME NEW s, NEW x, NEW l0, Refilled(s, x, l0), text \in Seq(Chars),
         NEW need \in Nat, need = Need(s.end_buf - LeftEdge(s)),
         NEW got \in Nat, 0 < got, got <= need, got <= s.unread,
         ~ShortReads => (got < need => got = s.unread)
  PROVE  /\ Held(Refill(s, got), x, l0) /\ Refill(s, got).termchar = NUL
         /\ SamePlaces(s, Refill(s, got), x)
         /\ Position(Refill(s, got), x) = Position(s, x)
<1> DEFINE t == Refill(s, got)
<1>1. /\ s \in TypeOfBuffer /\ Ordered(s) /\ ~s.eof_read
      /\ Shows(s, x) /\ Counted(s, x, l0) /\ Len(x) \in Nat
      /\ Len(text) \in Nat /\ s.unread <= Len(text) /\ s.unread \in Nat
  BY DEF Refilled, Refillable, Legal, Agrees, EndsWithFile, TypeOfBuffer
<1>2. Callable(t)
  BY RefillSound DEF Refilled
<1>3. PICK left \in Nat, copied \in Nat : left = LeftEdge(s) /\ copied = s.end_buf - left
  BY <1>1, LeftEdgeInside
<1>4. PICK base \in Int : base = Base(s, x)
  BY <1>1 DEF Base, TypeOfBuffer
<1>5. /\ t.smark = s.smark - left /\ t.emark = s.emark - left /\ t.mline = s.mline
      /\ t.pmark = (IF s.pmark = NULL THEN NULL ELSE s.pmark - left)
      /\ t.lineno = s.lineno /\ t.next = s.next - left
      /\ t.end_buf = copied + got /\ t.unread = s.unread - got
      /\ t.termchar = NUL /\ t.buf = MovedText(s, got)
  BY <1>1, <1>3 DEF Refill, TypeOfBuffer, Refilled
<1>14. t.eof_read => got < need
  BY <1>1, Zenon DEF Refill, TypeOfBuffer
<1>6. t \in TypeOfBuffer /\ Ordered(t)
  BY <1>2 DEF Callable, Legal, Sound
<1> HIDE DEF t
<1>7. Base(t, x) = base + left
  <2>1. PICK end \in Nat, unread \in Nat : end = s.end_buf /\ unread = s.unread
    BY <1>1 DEF TypeOfBuffer
  <2>2. /\ base = Len(x) - unread - end
        /\ Base(t, x) = Len(x) - (unread - got) - (copied + got)
    BY <1>4, <1>5, <2>1 DEF Base
  <2>3. end = left + copied
    BY <1>3, <2>1
  <2>4. Len(x) \in Int
    BY <1>1
  <2> QED BY <2>2, <2>3, <2>4, BaseMoves
<1>8. /\ left <= s.smark /\ (s.pmark # NULL => left <= s.pmark)
      /\ s.smark \in Nat /\ s.emark \in Nat /\ s.next \in Nat /\ s.end_buf \in Nat
      /\ s.pmark # NULL => s.pmark \in Nat
      /\ s.end_buf = left + copied /\ left <= s.emark /\ left <= s.next
  <2>1. left <= s.smark /\ (s.pmark # NULL => left <= s.pmark)
    BY <1>1, <1>3, LeftEdgeInside
  <2>2. /\ s.smark \in Nat /\ s.emark \in Nat /\ s.next \in Nat /\ s.end_buf \in Nat
        /\ s.pmark # NULL => s.pmark \in Nat
    BY <1>1, Fields
  <2>3. s.end_buf = left + copied
    BY <1>3, <2>2
  <2>4. s.smark <= s.emark /\ s.emark <= s.next
    BY <1>1, OrderedMarks
  <2> QED BY <1>3, <2>1, <2>2, <2>3, <2>4
<1>9. SamePlaces(s, t, x) /\ Position(t, x) = Position(s, x)
  <2>1. t.pmark = NULL <=> s.pmark = NULL
    BY <1>5, <1>8 DEF NULL
  <2>2. \A m \in Nat : (base + left) + (m - left) = base + m
    OBVIOUS
  <2>3. /\ Base(t, x) + t.smark = base + s.smark
        /\ Base(t, x) + t.emark = base + s.emark
        /\ Base(t, x) + t.next = base + s.next
        /\ s.pmark # NULL => Base(t, x) + t.pmark = base + s.pmark
    BY <1>5, <1>7, <1>8, <2>2
  <2> QED BY <1>4, <2>1, <2>3 DEF SamePlaces, Position
<1>10. LeftEdge(t) = 0
  <2>1. CASE s.pmark = NULL
    BY <1>3, <1>5, <1>8, <2>1 DEF LeftEdge
  <2>2. CASE s.pmark # NULL
    <3>1. t.pmark # NULL
      BY <1>9, <2>2 DEF SamePlaces
    <3>2. t.pmark = s.pmark - left
      BY <1>5, <2>2
    <3>3. left = IF s.pmark < s.smark THEN s.pmark ELSE s.smark
      BY <1>3, <2>2 DEF LeftEdge
    <3> QED BY <1>5, <1>8, <2>2, <3>1, <3>2, <3>3 DEF LeftEdge
  <2> QED BY <2>1, <2>2
<1>11. Shows(t, x)
  <2>1. 0 <= Base(t, x) + LeftEdge(t)
    BY <1>1, <1>3, <1>4, <1>7, <1>10 DEF Shows
  <2>2. ASSUME NEW i \in 0 .. t.end_buf - 1
        PROVE  t.buf[i] = x[Base(t, x) + i + 1]
    <3>1. i \in Index /\ i \in Nat /\ i < copied + got
      <4>1. t.end_buf = copied + got /\ t.end_buf \in 0 .. BUFSIZE
        BY <1>5, <1>6 DEF TypeOfBuffer
      <4> QED BY <2>2, <4>1, Sizes DEF Index
    <3>2. t.buf[i] = IF i < copied THEN s.buf[left + i]
                     ELSE text[Len(text) - s.unread + (i - copied) + 1]
      BY <1>3, <1>5, <3>1 DEF MovedText
    <3>3. CASE i < copied
      <4>1. left + i \in left .. s.end_buf - 1
        BY <1>8, <3>1, <3>3
      <4>2. s.buf[left + i] = x[base + (left + i) + 1]
        BY <1>1, <1>3, <1>4, <4>1 DEF Shows, Refilled
      <4>3. base + (left + i) + 1 = Base(t, x) + i + 1
        BY <1>7, <3>1
      <4> QED BY <3>2, <3>3, <4>2, <4>3
    <3>4. CASE ~(i < copied)
      <4>1. PICK k \in 1 .. Len(text) : k = Len(text) - s.unread + (i - copied) + 1
        BY <1>1, <3>1, <3>4
      <4>2. x[Len(x) - Len(text) + k] = text[k]
        BY DEF Refilled, EndsWithFile
      <4>3. Len(x) - Len(text) + k = Base(t, x) + i + 1
        <5>1. base = Len(x) - s.unread - (left + copied)
          BY <1>4, <1>8 DEF Base
        <5>2. /\ Len(x) \in Int /\ Len(text) \in Int /\ s.unread \in Int
              /\ i \in Int /\ left \in Int /\ copied \in Int
          BY <1>1, <3>1, Fields
        <5>3. (Len(x) - Len(text)) + (Len(text) - s.unread + (i - copied) + 1)
                = ((Len(x) - s.unread - (left + copied)) + left) + i + 1
          <6>1. PICK n \in Int, l \in Int, r \in Int : n = Len(x) /\ l = Len(text) /\ r = s.unread
            BY <5>2
          <6>2. (n - l) + (l - r + (i - copied) + 1) = ((n - r - (left + copied)) + left) + i + 1
            BY <5>2
          <6> QED BY <6>1, <6>2
        <5> QED BY <1>7, <4>1, <5>1, <5>3, Zenon
      <4> QED BY <3>2, <3>4, <4>1, <4>2, <4>3
    <3> QED BY <3>3, <3>4
  <2>3. ~ShortReads => (t.eof_read => t.unread = 0)
    BY <1>1, <1>5, <1>14
  <2> QED BY <1>5, <1>10, <2>1, <2>2, <2>3 DEF Shows
<1>12. Counted(t, x, l0)
  BY <1>1, <1>5, <1>9 DEF Counted, SamePlaces, Position
<1>13. Held(t, x, l0)
  BY <1>1, <1>2, <1>11, <1>12 DEF Held, Agrees, Refilled
<1> QED BY <1>5, <1>9, <1>13 DEF t

LEMMA MoveAndFillAgrees ==
  ASSUME NEW s, NEW x, NEW l0, Refilled(s, x, l0), text \in Seq(Chars),
         NEW f \in MoveAndFill(s), f.exit = "no"
  PROVE  /\ Held(f, x, l0) /\ f.termchar = NUL
         /\ SamePlaces(s, f, x) /\ Position(f, x) = Position(s, x)
<1> DEFINE need == Need(s.end_buf - LeftEdge(s))
<1>1. s \in TypeOfBuffer /\ Refillable(s) /\ s.unread \in Nat
  BY DEF Refilled, Refillable, Legal, TypeOfBuffer
<1>2. need \in Nat /\ need # 0
  <2>1. s.end_buf - LeftEdge(s) \in 0 .. BUFSIZE
    BY LeftEdgeInside DEF Refilled, Refillable, Legal
  <2>2. BUFSIZE - (s.end_buf - LeftEdge(s)) \in Nat
    BY <2>1, Sizes
  <2> QED BY <1>1, <2>2, Requests, Sizes DEF Need, Refillable
<1>3. ASSUME NEW e \in {"full", "error"}, f = [s EXCEPT !.exit = e]
      PROVE  FALSE
  BY <1>1, <1>3 DEF TypeOfBuffer
<1>4. CASE f \in {[s EXCEPT !.exit = "error"] : z \in {e \in {1} : ReadErrors /\ need > 0}}
  BY <1>3, <1>4
<1>5. ASSUME NEW got \in Counts(need, s.unread),
             f = IF need = 0 \/ got = 0 THEN [s EXCEPT !.exit = "full"] ELSE Refill(s, got)
      PROVE  /\ Held(f, x, l0) /\ f.termchar = NUL
             /\ SamePlaces(s, f, x) /\ Position(f, x) = Position(s, x)
  <2>1. got # 0
    BY <1>3, <1>5
  <2>2. /\ f = Refill(s, got) /\ got \in Nat /\ 0 < got /\ got <= need /\ got <= s.unread
        /\ ~ShortReads => (got < need => got = s.unread)
    BY <1>1, <1>2, <1>5, <2>1 DEF Counts
  <2> QED BY <1>2, <2>2, RefillAgrees
<1> QED BY <1>4, <1>5 DEF MoveAndFill

\* One character further, the lexeme as it was.
Delivered(s, t, x) ==
  /\ SamePlaces(s, t, x)
  /\ Position(t, x) = Position(s, x) + 1
  /\ Position(s, x) < Len(x)

LEMMA ConsumeAgrees ==
  ASSUME NEW s, NEW x, NEW l0, Held(s, x, l0), s.termchar = NUL, MayConsume(s)
  PROVE  /\ Held(Consume(s), x, l0) /\ Consume(s).termchar = NUL
         /\ Delivered(s, Consume(s), x)
<1> DEFINE t == Consume(s)
<1>1. s \in TypeOfBuffer /\ Ordered(s) /\ Shows(s, x) /\ Counted(s, x, l0)
      /\ Len(x) \in Nat /\ LeftEdge(s) \in Nat /\ l0 \in Int
      /\ LeftEdge(s) <= s.smark /\ Base(s, x) \in Int
  BY HeldFacts
<1>2. Callable(t)
  BY ConsumeCallable DEF Held
<1>3. t \in TypeOfBuffer /\ Ordered(t)
  BY <1>2 DEF Callable, Legal, Sound
<1>4. /\ t.smark = s.smark /\ t.emark = s.emark /\ t.mline = s.mline
      /\ t.lineno = (IF s.buf[s.next] = NL THEN s.lineno + 1 ELSE s.lineno)
      /\ t.pmark = s.pmark /\ t.next = s.next + 1
      /\ t.buf = s.buf /\ t.end_buf = s.end_buf /\ t.unread = s.unread
      /\ t.eof_read = s.eof_read /\ t.termchar = s.termchar
  BY <1>1 DEF Consume, TypeOfBuffer
<1> HIDE DEF t
<1>5. LeftEdge(s) <= LeftEdge(t)
  BY <1>1, <1>4 DEF LeftEdge
<1>6. SameText(s, t)
  BY <1>4, <1>5 DEF SameText
<1>7. Shows(t, x) /\ Base(t, x) = Base(s, x)
  BY <1>1, <1>3, <1>6, SameTextShown
<1>8. PICK base \in Int, left \in Nat, next \in Nat, end \in Nat :
        base = Base(s, x) /\ left = LeftEdge(s) /\ next = s.next /\ end = s.end_buf
  BY <1>1 DEF TypeOfBuffer
<1>9. left <= next /\ next < end /\ 0 <= base + left /\ base + end <= Len(x)
  <2>1. left <= next
    <3>1. s.smark <= s.emark /\ s.emark <= s.next
      BY <1>1, OrderedMarks
    <3>2. s.smark \in Nat /\ s.emark \in Nat
      BY <1>1, Fields
    <3> QED BY <1>1, <1>8, <3>1, <3>2
  <2>3. next < end
    BY <1>8 DEF MayConsume
  <2>2. base + end <= Len(x)
    <3>1. base = Len(x) - s.unread - end /\ Len(x) \in Nat /\ s.unread \in Nat
      BY <1>1, <1>8, Fields DEF Base
    <3> QED BY <3>1, Places
  <2> QED BY <1>1, <1>8, <2>1, <2>2, <2>3 DEF Shows
<1>10. PICK at \in Nat : at = base + next /\ at < Len(x)
  BY <1>1, <1>9
<1>11. s.buf[next] = x[at + 1]
  <2>1. next \in left .. end - 1
    BY <1>9
  <2>2. s.buf[next] = x[base + next + 1]
    BY <1>1, <1>8, <2>1 DEF Shows
  <2> QED BY <1>10, <2>2
<1>12. Counted(t, x, l0)
  <2> SUFFICES ASSUME NulFree
               PROVE  /\ t.lineno = l0 + Lines(x, base + t.next)
                      /\ t.mline = l0 + Lines(x, base + t.emark)
                      /\ \A j \in 1 .. Len(x) : x[j] # NUL
    BY <1>7, <1>8 DEF Counted
  <2>1. /\ s.lineno = l0 + Lines(x, at)
        /\ s.mline = l0 + Lines(x, base + s.emark)
        /\ \A j \in 1 .. Len(x) : x[j] # NUL
    BY <1>1, <1>8, <1>10 DEF Counted
  <2>2. Lines(x, at) \in Nat
    BY LinesType
  <2>3. Lines(x, at + 1) = IF x[at + 1] = NL THEN Lines(x, at) + 1 ELSE Lines(x, at)
    BY NextLine
  <2>4. base + t.next = at + 1
    BY <1>4, <1>8, <1>10
  <2>5. t.lineno = l0 + Lines(x, at + 1)
    BY <1>1, <1>4, <1>8, <1>11, <2>1, <2>2, <2>3
  <2> QED BY <1>4, <2>1, <2>4, <2>5
<1>13. Held(t, x, l0)
  BY <1>1, <1>2, <1>7, <1>12 DEF Held, Agrees
<1>14. Delivered(s, t, x)
  BY <1>4, <1>7, <1>8, <1>10 DEF Delivered, SamePlaces, Position
<1> QED BY <1>4, <1>13, <1>14 DEF t

LEMMA TextEnds ==
  ASSUME text \in Seq(Chars) PROVE EndsWithFile(text)
BY DEF EndsWithFile

\* A delivery after a move of the text is a delivery.
LEMMA MovedThenDelivered ==
  ASSUME NEW s, NEW g, NEW f, NEW x,
         SamePlaces(s, g, x), Position(g, x) = Position(s, x), Delivered(g, f, x)
  PROVE  Delivered(s, f, x)
BY DEF SamePlaces, Delivered

LEMMA AdvanceAgrees ==
  ASSUME NEW s, NEW l0, Held(s, text, l0), s.been_called, text \in Seq(Chars),
         s.termchar = NUL, NEW f \in ii_advance(s), f.exit = "no"
  PROVE  /\ Held(f, text, l0) /\ f.termchar = NUL
         /\ \/ f = s /\ (NO_MORE_CHARS(s) \/ Refused(s))
            \/ Delivered(s, f, text)
<1>1. FirstCall(s) = s
  BY DEF FirstCall
<1>2. s \in TypeOfBuffer /\ Legal(s) /\ s.exit = "no" /\ Sound(s) /\ Callable(s)
  BY DEF Held, Callable, Legal
<1>3. CASE NO_MORE_CHARS(s) \/ Refused(s)
  BY <1>1, <1>3 DEF ii_advance
<1>4. CASE ~(NO_MORE_CHARS(s) \/ Refused(s))
  <2>1. PICK g \in ii_flush(s, FALSE) : f = IF g.exit = "no" THEN Consume(g) ELSE g
    BY <1>1, <1>4 DEF ii_advance
  <2>2. CASE s.eof_read \/ ~InDanger(s)
    <3>1. g = s
      BY <2>1, <2>2 DEF ii_flush
    <3>2. MayConsume(s)
      BY <1>2, <1>4, <2>2, Sizes
         DEF MayConsume, NO_MORE_CHARS, InDanger, TypeOfBuffer, Sound
    <3> QED BY <1>2, <2>1, <3>1, <3>2, ConsumeAgrees
  <2>3. CASE ~(s.eof_read \/ ~InDanger(s))
    <3>1. ~NoRoom(s)
      BY <1>4, <2>3 DEF Refused, NO_MORE_CHARS
    <3>2. g \in MoveAndFill(s)
      BY <2>1, <2>3, <3>1 DEF ii_flush
    <3>3. Refillable(s)
      <4>1. LeftEdge(s) \in 0 .. BUFSIZE /\ s.end_buf \in 0 .. BUFSIZE
        BY <1>2, LeftEdgeInside DEF TypeOfBuffer, Sound
      <4>2. MAXLEX <= BUFSIZE - (s.end_buf - LeftEdge(s))
        BY <3>1, <4>1, Sizes DEF NoRoom
      <4> QED BY <1>2, <2>3, <4>2 DEF Refillable, Sound
    <3>4. g.exit = "no"
      BY <2>1
    <3>5. MayConsume(g)
      BY <3>2, <3>3, <3>4, MoveAndFillOutcome
    <3>6. Refilled(s, text, l0)
      BY <3>3, TextEnds DEF Refilled, Held
    <3>7. /\ Held(g, text, l0) /\ g.termchar = NUL
          /\ SamePlaces(s, g, text) /\ Position(g, text) = Position(s, text)
      BY <3>2, <3>4, <3>6, MoveAndFillAgrees
    <3>8. /\ Held(Consume(g), text, l0) /\ Consume(g).termchar = NUL
          /\ Delivered(g, Consume(g), text)
      BY <3>5, <3>7, ConsumeAgrees
    <3> QED BY <2>1, <3>4, <3>7, <3>8, MovedThenDelivered
  <2> QED BY <2>2, <2>3
<1> QED BY <1>3, <1>4

\* The buffer of a file just opened, at the start of its stream.
Opened(s, l0) ==
  /\ Legal(s) /\ s.exit = "no" /\ Fresh(s) /\ s.unread = Len(text)
  /\ s.termchar = NUL /\ l0 \in Int /\ Counted(s, text, l0)

\* What the first ii_advance() for a file leaves: the first character has
\* been delivered, the lexeme is empty and there is no previous one.
Started(t, x) ==
  /\ Position(t, x) = 1 /\ t.pmark = NULL
  /\ Base(t, x) + t.smark = 0 /\ Base(t, x) + t.emark = 0
  /\ 1 <= Len(x)

\* The stream after the first ii_advance() for a file.
Streamed(s)    == IF s.been_called THEN text ELSE <<NL>> \o text
FirstLine(s, l0) == IF s.been_called THEN l0 ELSE l0 - 1

LEMMA FirstCallAgrees ==
  ASSUME NEW s, NEW l0, Opened(s, l0), text \in Seq(Chars)
  PROVE  /\ Refilled(FirstCall(s), Streamed(s), FirstLine(s, l0))
         /\ Position(FirstCall(s), Streamed(s)) = 0
         /\ FirstCall(s).smark = FirstCall(s).next
         /\ FirstCall(s).emark = FirstCall(s).next
         /\ FirstCall(s).pmark = NULL /\ FirstCall(s).been_called
         /\ FirstCall(s).end_buf = BUFSIZE
         /\ FirstCall(s).next \in {BUFSIZE - 1, BUFSIZE}
<1> DEFINE t  == FirstCall(s)
           x  == Streamed(s)
           l1 == FirstLine(s, l0)
<1>1. /\ s \in TypeOfBuffer /\ s.smark = BUFSIZE /\ s.emark = BUFSIZE
      /\ s.next = BUFSIZE /\ s.end_buf = BUFSIZE /\ s.pmark = NULL /\ ~s.eof_read
      /\ s.unread = Len(text) /\ Len(text) \in Nat /\ s.exit = "no"
      /\ s.termchar = NUL /\ l0 \in Int /\ Legal(s)
  BY DEF Opened, Legal, Fresh
<1>2. NulFree => /\ s.lineno = l0 /\ s.mline = l0
                 /\ \A j \in 1 .. Len(text) : text[j] # NUL
  <2>1. Base(s, text) + s.next = 0 /\ Base(s, text) + s.emark = 0
    BY <1>1, Sizes DEF Base
  <2>2. Lines(text, 0) = 0
    BY LinesType
  <2> QED BY <1>1, <2>1, <2>2 DEF Opened, Counted
<1>3. /\ t.unread = Len(text) /\ t.exit = "no" /\ ~t.eof_read /\ t.pmark = NULL
      /\ t.end_buf = BUFSIZE /\ t.termchar = NUL /\ t.been_called
      /\ t.smark = t.next /\ t.emark = t.next
      /\ t.next = IF s.been_called THEN BUFSIZE ELSE BUFSIZE - 1
      /\ t.lineno = IF s.been_called THEN s.lineno ELSE s.lineno - 1
      /\ t.mline = IF s.been_called THEN s.mline ELSE s.mline - 1
  BY <1>1 DEF FirstCall, TypeOfBuffer
<1>4. ~s.been_called => t.buf[BUFSIZE - 1] = NL
  <2>1. BUFSIZE - 1 \in Index /\ s.buf \in [Index -> Chars]
    BY <1>1, Sizes DEF Index, TypeOfBuffer
  <2> QED BY <1>1, <2>1 DEF FirstCall, TypeOfBuffer
<1>5. t \in TypeOfBuffer
  <2>1. CASE s.been_called
    BY <1>1, <2>1 DEF FirstCall
  <2>2. CASE ~s.been_called
    <3>1. BUFSIZE - 1 \in Index
      BY Sizes DEF Index
    <3>2. [s.buf EXCEPT ![BUFSIZE - 1] = NL] \in [Index -> Chars]
      BY <1>1, <3>1, CharsAssumption DEF TypeOfBuffer
    <3>3. t = [s EXCEPT !.next = BUFSIZE - 1, !.smark = BUFSIZE - 1,
                        !.emark = BUFSIZE - 1, !.pmark = NULL,
                        !.buf = [s.buf EXCEPT ![BUFSIZE - 1] = NL],
                        !.lineno = s.lineno - 1,
                        !.mline = s.mline - 1, !.been_called = TRUE]
      BY <1>1, <2>2 DEF FirstCall, TypeOfBuffer
    <3>4. s.lineno - 1 \in Int /\ s.mline - 1 \in Int
      BY <1>1 DEF TypeOfBuffer
    <3>5. PICK last \in 0 .. BUFSIZE : last = BUFSIZE - 1
      BY <3>1, Sizes
    <3> HIDE DEF t
    <3> QED BY <1>1, <3>2, <3>3, <3>4, <3>5 DEF TypeOfBuffer
  <2> QED BY <2>1, <2>2
<1>6. /\ Len(x) = IF s.been_called THEN Len(text) ELSE Len(text) + 1
      /\ \A k \in 1 .. Len(text) : x[Len(x) - Len(text) + k] = text[k]
      /\ ~s.been_called => x[1] = NL
  BY <1>1 DEF Streamed
<1>7. l1 \in Int /\ l1 = IF s.been_called THEN l0 ELSE l0 - 1
  BY <1>1 DEF FirstLine
<1> HIDE DEF t, x, l1
<1>8. Len(x) \in Nat /\ EndsWithFile(x)
  BY <1>1, <1>6 DEF EndsWithFile
<1>9. Position(t, x) = 0 /\ Base(t, x) + t.next = 0 /\ Base(t, x) \in Int
  BY <1>1, <1>3, <1>6, Sizes DEF Position, Base
<1>10. LeftEdge(t) = t.next
  BY <1>3 DEF LeftEdge
<1>11. Ordered(t)
  BY <1>3, Sizes DEF Ordered
<1>12. Shows(t, x)
  <2>1. ASSUME NEW i \in t.next .. t.end_buf - 1
        PROVE  t.buf[i] = x[Base(t, x) + i + 1]
    <3>1. ~s.been_called /\ i = t.next /\ i = BUFSIZE - 1
      BY <1>3, <2>1, Sizes
    <3>2. Base(t, x) + i + 1 = 1
      BY <1>9, <3>1
    <3> QED BY <1>4, <1>6, <3>1, <3>2
  <2> QED BY <1>3, <1>9, <1>10, <2>1 DEF Shows
<1>13. Counted(t, x, l1)
  <2> SUFFICES ASSUME NulFree
               PROVE  /\ t.lineno = l1 + Lines(x, 0) /\ t.mline = l1 + Lines(x, 0)
                      /\ \A j \in 1 .. Len(x) : x[j] # NUL
    BY <1>3, <1>9 DEF Counted
  <2>1. t.lineno = l1 + Lines(x, 0) /\ t.mline = l1 + Lines(x, 0)
    BY <1>1, <1>2, <1>3, <1>7, LinesType
  <2>2. ASSUME NEW j \in 1 .. Len(x) PROVE x[j] # NUL
    <3>1. CASE ~s.been_called /\ j = 1
      BY <1>6, <3>1, CharsAssumption
    <3>2. CASE ~(~s.been_called /\ j = 1)
      <4>1. PICK k \in 1 .. Len(text) : j = Len(x) - Len(text) + k
        <5>1. CASE s.been_called
          BY <1>1, <1>6, <5>1
        <5>2. CASE ~s.been_called
          <6>1. j \in Nat /\ 1 < j /\ j <= Len(text) + 1 /\ Len(x) = Len(text) + 1
            BY <1>1, <1>6, <3>2, <5>2
          <6>2. j - 1 \in 1 .. Len(text) /\ j = Len(x) - Len(text) + (j - 1)
            BY <1>1, <6>1
          <6> QED BY <6>2
        <5> QED BY <5>1, <5>2
      <4> QED BY <1>2, <1>6, <4>1
    <3> QED BY <3>1, <3>2
  <2> QED BY <2>1, <2>2
<1>14. Refillable(t)
  <2>1. Legal(t)
    BY <1>1, <1>3, <1>5 DEF Legal
  <2>2. MAXLEX <= BUFSIZE - (t.end_buf - LeftEdge(t))
    BY <1>3, <1>10, Sizes
  <2> QED BY <1>3, <1>11, <2>1, <2>2 DEF Refillable
<1>15. Refilled(t, x, l1)
  BY <1>3, <1>7, <1>8, <1>12, <1>13, <1>14 DEF Refilled, Agrees
<1>16. t.next \in {BUFSIZE - 1, BUFSIZE}
  BY <1>3
<1> QED BY <1>3, <1>9, <1>15, <1>16 DEF t, x, l1

LEMMA AdvanceFreshAgrees ==
  ASSUME NEW s, NEW l0, Opened(s, l0), text \in Seq(Chars),
         NEW f \in ii_advance(s), f.exit = "no"
  PROVE  /\ Held(f, Streamed(s), FirstLine(s, l0)) /\ f.termchar = NUL
         /\ Started(f, Streamed(s))
<1>1. PICK t, x, l1 : t = FirstCall(s) /\ x = Streamed(s) /\ l1 = FirstLine(s, l0)
  OBVIOUS
<1>2. /\ Refilled(t, x, l1) /\ Position(t, x) = 0
      /\ t.smark = t.next /\ t.emark = t.next /\ t.pmark = NULL
      /\ t.end_buf = BUFSIZE /\ t.next \in {BUFSIZE - 1, BUFSIZE}
  BY <1>1, FirstCallAgrees
<1>3. Refillable(t) /\ ~t.eof_read
  BY <1>2 DEF Refilled, Refillable
<1>4. LeftEdge(t) = t.smark
  BY <1>2 DEF LeftEdge
<1>5. InDanger(t) /\ ~NoRoom(t) /\ ~NO_MORE_CHARS(t) /\ ~Refused(t)
  BY <1>2, <1>3, <1>4, Sizes DEF InDanger, NoRoom, NO_MORE_CHARS, Refused
<1>6. PICK g \in MoveAndFill(t) : f = IF g.exit = "no" THEN Consume(g) ELSE g
  BY <1>1, <1>3, <1>5 DEF ii_advance, ii_flush
<1>7. g.exit = "no"
  BY <1>6
<1>8. MayConsume(g)
  BY <1>3, <1>6, <1>7, MoveAndFillOutcome
<1>9. /\ Held(g, x, l1) /\ g.termchar = NUL
      /\ SamePlaces(t, g, x) /\ Position(g, x) = Position(t, x)
  BY <1>2, <1>6, <1>7, MoveAndFillAgrees
<1>10. /\ Held(Consume(g), x, l1) /\ Consume(g).termchar = NUL
       /\ Delivered(g, Consume(g), x)
  BY <1>8, <1>9, ConsumeAgrees
<1>11. Delivered(t, f, x)
  BY <1>6, <1>7, <1>9, <1>10, MovedThenDelivered
<1>12. Len(x) \in Nat /\ Base(t, x) + t.next = 0
  BY <1>2 DEF Refilled, EndsWithFile, Position
<1>13. Started(f, x)
  BY <1>2, <1>11, <1>12 DEF Started, Delivered, SamePlaces
<1> QED BY <1>1, <1>6, <1>7, <1>10, <1>13

\* The lexeme ends at the cursor, which may have moved by a character.
Extended(s, t, x) ==
  /\ Base(t, x) + t.smark = Base(s, x) + s.smark
  /\ t.pmark = NULL <=> s.pmark = NULL
  /\ s.pmark # NULL => Base(t, x) + t.pmark = Base(s, x) + s.pmark
  /\ Base(t, x) + t.emark = Position(t, x)
  /\ \/ Position(t, x) = Position(s, x)
     \/ Position(t, x) = Position(s, x) + 1 /\ Position(s, x) < Len(x)

LEMMA InputAgrees ==
  ASSUME NEW s, NEW l0, Held(s, text, l0), s.been_called, text \in Seq(Chars),
         NEW f \in ii_input(s), f.exit = "no"
  PROVE  /\ Held(f, text, l0) /\ (s.termchar = NUL => f.termchar = NUL)
         /\ Extended(s, f, text)
         /\ \/ NO_MORE_CHARS(ii_unterm(s)) \/ Refused(ii_unterm(s))
            \/ Position(f, text) = Position(s, text) + 1
<1>1. PICK u : u = ii_unterm(s)
  OBVIOUS
<1>2. /\ Held(u, text, l0) /\ u.termchar = NUL /\ u.been_called
      /\ SamePlaces(s, u, text) /\ Position(u, text) = Position(s, text)
  BY <1>1, UntermAgrees DEF SamePlaces, Position, Base
<1>3. PICK g \in ii_advance(u) :
        f = CASE g.exit # "no" -> g
              [] g.exit = "no" /\ s.termchar = NUL -> ii_mark_end(g)
              [] OTHER -> ii_term(ii_mark_end(g))
  BY <1>1 DEF ii_input
<1>4. g.exit = "no"
  BY <1>3
<1>5. /\ Held(g, text, l0) /\ g.termchar = NUL
      /\ \/ g = u /\ (NO_MORE_CHARS(u) \/ Refused(u))
         \/ Delivered(u, g, text)
  BY <1>2, <1>3, <1>4, AdvanceAgrees
<1>6. PICK m : m = ii_mark_end(g)
  OBVIOUS
<1>7. /\ Held(m, text, l0) /\ m.termchar = NUL
      /\ m.smark = g.smark /\ m.pmark = g.pmark /\ m.emark = m.next
      /\ m.next = g.next /\ Base(m, text) = Base(g, text)
  <2>1. g \in TypeOfBuffer
    BY <1>5, HeldFacts
  <2>2. Held(m, text, l0)
    BY <1>5, <1>6, MarkEndAgrees
  <2>3. /\ m.smark = g.smark /\ m.pmark = g.pmark /\ m.emark = g.next
        /\ m.next = g.next /\ m.termchar = g.termchar
        /\ m.unread = g.unread /\ m.end_buf = g.end_buf
    BY <1>6, <2>1 DEF ii_mark_end, TypeOfBuffer
  <2> QED BY <1>5, <2>2, <2>3 DEF Base
<1>8. /\ Extended(s, m, text)
      /\ \/ NO_MORE_CHARS(u) \/ Refused(u)
         \/ Position(m, text) = Position(s, text) + 1
  BY <1>2, <1>5, <1>7 DEF Extended, SamePlaces, Delivered, Position
<1>9. CASE s.termchar = NUL
  <2>1. f = m
    BY <1>3, <1>4, <1>6, <1>9
  <2> QED BY <1>1, <1>7, <1>8, <2>1
<1>10. CASE s.termchar # NUL
  <2>1. f = ii_term(m)
    BY <1>3, <1>4, <1>6, <1>10
  <2>2. Held(f, text, l0)
    BY <1>7, <2>1, TermAgrees
  <2>3. /\ f.smark = m.smark /\ f.pmark = m.pmark /\ f.emark = m.emark
        /\ f.next = m.next /\ Base(f, text) = Base(m, text)
    BY <1>7, <2>1, HeldFacts DEF ii_term, TypeOfBuffer, Base
  <2>4. Extended(s, f, text) /\ Position(f, text) = Position(m, text)
    BY <1>8, <2>3 DEF Extended, Position
  <2> QED BY <1>1, <1>8, <1>10, <2>2, <2>4
<1> QED BY <1>9, <1>10

\* Everything up to the cursor is gone: the lexeme and the previous one.
Emptied(s, t, x) ==
  /\ Position(t, x) = Position(s, x) /\ t.pmark # NULL
  /\ Base(t, x) + t.smark = Position(s, x)
  /\ Base(t, x) + t.emark = Position(s, x)
  /\ Base(t, x) + t.pmark = Position(s, x)

LEMMA FlushAgrees ==
  ASSUME NEW s, NEW l0, Held(s, text, l0), Refused(s), text \in Seq(Chars),
         NEW f \in ii_flushbuf(s), f.exit = "no"
  PROVE  Held(f, text, l0) /\ f.termchar = NUL /\ Emptied(s, f, text)
<1>1. PICK u : u = ii_unterm(s)
  OBVIOUS
<1>2. /\ Held(u, text, l0) /\ u.termchar = NUL
      /\ Position(u, text) = Position(s, text) /\ u.next = s.next
      /\ u.end_buf = s.end_buf /\ u.smark = s.smark /\ u.pmark = s.pmark
      /\ u.eof_read = s.eof_read
  BY <1>1, UntermAgrees DEF Position, Base
<1>3. NoRoom(u) /\ ~u.eof_read /\ InDanger(u)
  BY <1>2 DEF Refused, NoRoom, LeftEdge, InDanger
<1>4. PICK a, m : a = ii_mark_start(u) /\ m = ii_mark_prev(a)
  OBVIOUS
<1>5. f \in MoveAndFill(m)
  BY <1>1, <1>3, <1>4 DEF ii_flushbuf, ii_flush
<1>6. Held(a, text, l0) /\ Held(m, text, l0)
  BY <1>2, <1>4, MarkStartAgrees, MarkPrevAgrees
<1>7. /\ a.smark = u.next /\ a.next = u.next /\ a.termchar = NUL /\ a.emark = u.next
      /\ a.end_buf = u.end_buf /\ a.eof_read = u.eof_read /\ a.unread = u.unread
  BY <1>2, <1>4, HeldFacts DEF ii_mark_start, TypeOfBuffer
<1>8. /\ m.smark = u.next /\ m.next = u.next /\ m.pmark = u.next
      /\ m.emark = u.next /\ m.termchar = NUL
      /\ m.end_buf = u.end_buf /\ m.eof_read = u.eof_read /\ m.unread = u.unread
  BY <1>4, <1>6, <1>7, HeldFacts DEF ii_mark_prev, TypeOfBuffer
<1>9. u \in TypeOfBuffer
  BY <1>2, HeldFacts
<1>10. Refillable(m)
  <2>1. LeftEdge(m) = u.next
    BY <1>8, <1>9 DEF LeftEdge, TypeOfBuffer
  <2>2. MAXLEX <= BUFSIZE - (m.end_buf - LeftEdge(m))
    BY <1>3, <1>8, <1>9, <2>1, Sizes DEF InDanger, TypeOfBuffer
  <2> QED BY <1>3, <1>6, <1>8, <2>2 DEF Refillable, Held, Callable, Sound
<1>11. Refilled(m, text, l0)
  BY <1>6, <1>8, <1>10, TextEnds DEF Refilled, Held
<1>12. /\ Held(f, text, l0) /\ f.termchar = NUL
       /\ SamePlaces(m, f, text) /\ Position(f, text) = Position(m, text)
  BY <1>5, <1>11, MoveAndFillAgrees
<1>13. Position(m, text) = Position(u, text)
  BY <1>8 DEF Position, Base
<1>14. m.pmark # NULL
  BY <1>8, <1>9 DEF TypeOfBuffer, NULL
<1> QED BY <1>2, <1>8, <1>12, <1>13, <1>14 DEF Emptied, SamePlaces, Position

-----------------------------------------------------------------------------
(* The invariant. *)

LEMMA InitTextInv == Init => TextInv
<1> SUFFICES ASSUME Init PROVE TextInv
  OBVIOUS
<1>1. text \in Seq(Chars) /\ Len(text) \in Nat /\ text \in Files
  BY CharsAssumption DEF Init
<1>2. /\ b.next = BUFSIZE /\ b.emark = BUFSIZE /\ b.smark = BUFSIZE
      /\ b.end_buf = BUFSIZE /\ b.pmark = NULL /\ b.lineno = 1 /\ b.mline = 1
      /\ b.termchar = NUL /\ ~b.eof_read /\ b.unread = Len(text)
  BY Zenon DEF Init
<1>3. Base(b, text) = -BUFSIZE
  BY <1>1, <1>2, Sizes DEF Base
<1>4. Shows(b, text)
  BY <1>2, <1>3, Sizes DEF Shows, LeftEdge
<1>5. Counted(b, text, line0)
  <2>1. line0 = 1
    BY DEF Init
  <2>2. Base(b, text) + b.next = 0 /\ Base(b, text) + b.emark = 0
    BY <1>2, <1>3, Sizes
  <2>3. line0 + Lines(text, 0) = 1
    BY <2>1, LinesType
  <2>4. NulFree => \A j \in 1 .. Len(text) : text[j] # NUL
    BY <1>1 DEF NulFree
  <2> QED BY <1>2, <2>2, <2>3, <2>4 DEF Counted
<1> QED BY <1>2, <1>4, <1>5 DEF TextInv, Agrees

LEMMA HeldNow ==
  ASSUME IInv, TextInv, Running
  PROVE  /\ ready => Held(b, text, line0) /\ b.been_called
         /\ ~ready => Opened(b, line0)
         /\ text \in Seq(Chars) /\ b \in TypeOfBuffer /\ line0 \in Int
         /\ ~terminated => b.termchar = NUL
<1>1. /\ TypeOK /\ Legal(b) /\ text \in Seq(Chars) /\ line0 \in Int /\ Len(text) \in Nat
      /\ b \in TypeOfBuffer
  BY DEF IInv, TypeOK
<1>2. Agrees(b, text, line0) /\ (~terminated => b.termchar = NUL)
  BY DEF TextInv
<1>3. ready => Callable(b) /\ b.been_called
  BY <1>1 DEF IInv, Callable, Running
<1>4. ~ready => Fresh(b) /\ b.exit = "no" /\ b.unread = Len(text) /\ b.termchar = NUL
  BY DEF IInv, TextInv, Running
<1> QED BY <1>1, <1>2, <1>3, <1>4 DEF Held, Opened, Agrees

LEMMA NextTextInv == IInv /\ TextInv /\ [Next]_vars => TextInv'
<1> SUFFICES ASSUME IInv, TextInv, [Next]_vars, Running' PROVE TextInv'
  BY DEF TextInv
<1>1. ASSUME Agrees(b', text', line0'), b'.termchar # NUL => terminated', ready'
      PROVE  TextInv'
  BY <1>1 DEF TextInv
\* An action on the buffer of an open file.
<1>2. ASSUME Held(b', text', line0'), b'.termchar # NUL => terminated', ready'
      PROVE  TextInv'
  BY <1>1, <1>2 DEF Held
<1>3. CASE NewFile
  <2>1. PICK f \in Files : text' = f /\ b' = ii_newfile(b, f)
    BY <1>3 DEF NewFile
  <2>2. f \in Seq(Chars) /\ Len(f) \in Nat
    BY CharsAssumption
  <2>3. Running /\ b.termchar = NUL /\ b \in TypeOfBuffer
    BY <1>3, HeldNow DEF NewFile
  <2>4. /\ b'.next = BUFSIZE /\ b'.emark = BUFSIZE /\ b'.smark = BUFSIZE
        /\ b'.end_buf = BUFSIZE /\ b'.pmark = NULL /\ b'.lineno = 1 /\ b'.mline = 1
        /\ b'.termchar = NUL /\ b'.eof_read = FALSE /\ b'.unread = Len(f)
    BY <2>1, <2>3 DEF ii_newfile, TypeOfBuffer
  <2>5. line0' = 1 /\ ready' = FALSE
    BY <1>3 DEF NewFile
  <2>6. Base(b', f) = -BUFSIZE
    BY <2>2, <2>4, Sizes DEF Base
  <2>7. Shows(b', f)
    BY <2>4, <2>6, Sizes DEF Shows, LeftEdge
  <2>8. Counted(b', f, 1)
    <3>1. Base(b', f) + b'.next = 0 /\ Base(b', f) + b'.emark = 0
      BY <2>4, <2>6, Sizes
    <3>2. 1 + Lines(f, 0) = 1
      BY LinesType
    <3>3. NulFree => \A j \in 1 .. Len(f) : f[j] # NUL
      BY DEF NulFree
    <3> QED BY <2>4, <3>1, <3>2, <3>3 DEF Counted
  <2> QED BY <2>1, <2>4, <2>5, <2>7, <2>8 DEF TextInv, Agrees
<1>4. CASE Advance
  <2>1. Running /\ b.termchar = NUL /\ b' \in ii_advance(b) /\ ready' /\ b'.exit = "no"
    BY <1>4, HeldNow DEF Advance, Running
  <2>2. text \in Seq(Chars)
    BY <2>1, HeldNow
  <2>3. CASE ready
    <3>1. Held(b, text, line0) /\ b.been_called
      BY <2>1, <2>3, HeldNow
    <3>2. text' = text /\ line0' = line0
      BY <1>4, <3>1 DEF Advance
    <3>3. Agrees(b', text, line0) /\ b'.termchar = NUL
      BY <2>1, <2>2, <3>1, AdvanceAgrees DEF Held
    <3> QED BY <1>1, <2>1, <3>2, <3>3
  <2>4. CASE ~ready
    <3>1. Opened(b, line0)
      BY <2>1, <2>4, HeldNow
    <3>2. text' = Streamed(b) /\ line0' = FirstLine(b, line0)
      BY <1>4 DEF Advance, Streamed, FirstLine
    <3>3. /\ Agrees(b', Streamed(b), FirstLine(b, line0))
          /\ b'.termchar = NUL
      BY <2>1, <2>2, <3>1, AdvanceFreshAgrees DEF Held
    <3> QED BY <1>1, <2>1, <3>2, <3>3
  <2> QED BY <2>3, <2>4
\* The other actions are on the buffer of an open file, and leave the stream
\* and the line it starts on alone, but for Unput.
<1>5. ASSUME Running, ready, text' = text, line0' = line0, ready' = ready,
             Held(b', text, line0), b'.termchar # NUL => terminated'
      PROVE  TextInv'
  BY <1>1, <1>5 DEF Held
<1>6. Open => Held(b, text, line0) /\ b.termchar = NUL /\ Running /\ ready
              /\ b \in TypeOfBuffer
  BY HeldNow DEF Open
<1>7. CASE MarkStart
  <2>1. Held(b', text, line0) /\ b'.termchar = NUL
    BY <1>6, <1>7, MarkStartAgrees DEF MarkStart, ii_mark_start, TypeOfBuffer
  <2> QED BY <1>5, <1>6, <1>7, <2>1 DEF MarkStart
<1>8. CASE MarkEnd
  <2>1. Held(b', text, line0) /\ b'.termchar = NUL
    BY <1>6, <1>8, MarkEndAgrees DEF MarkEnd, ii_mark_end, TypeOfBuffer
  <2> QED BY <1>5, <1>6, <1>8, <2>1 DEF MarkEnd
<1>9. CASE MoveStart
  <2>1. Held(b', text, line0)
    BY <1>6, <1>9, MoveStartAgrees DEF MoveStart
  <2>2. b'.termchar = NUL
    BY <1>6, <1>9 DEF MoveStart, ii_move_start, TypeOfBuffer
  <2> QED BY <1>5, <1>6, <1>9, <2>1, <2>2 DEF MoveStart
<1>10. CASE MoveBack
  <2>1. Held(b', text, line0) /\ b'.termchar = NUL
    BY <1>6, <1>10, MoveBackAgrees DEF MoveBack, ii_move_back, TypeOfBuffer
  <2> QED BY <1>5, <1>6, <1>10, <2>1 DEF MoveBack
<1>11. CASE MarkPrev
  <2>1. Running /\ ready /\ Held(b, text, line0) /\ b \in TypeOfBuffer
    BY <1>11, HeldNow DEF MarkPrev
  <2>2. Held(b', text, line0) /\ b'.termchar = b.termchar
    BY <1>11, <2>1, MarkPrevAgrees DEF MarkPrev, ii_mark_prev, TypeOfBuffer
  <2>3. b.termchar # NUL => terminated'
    BY <1>11, <2>1 DEF MarkPrev, TextInv
  <2> QED BY <1>5, <1>11, <2>1, <2>2, <2>3 DEF MarkPrev
<1>12. CASE Pushback
  <2>1. PICK n \in 1 .. MaxBack : b' = ii_pushback(b, n)
    BY <1>12 DEF Pushback
  <2>2. n \in Nat
    BY BoundsAssumption
  <2>3. Open
    BY <1>12 DEF Pushback
  <2>4. Held(b', text, line0)
    BY <1>6, <2>1, <2>2, <2>3, PushbackAgrees
  <2>5. b'.termchar = NUL
    BY <1>6, <2>1, <2>3 DEF ii_pushback, TypeOfBuffer
  <2> QED BY <1>5, <1>6, <1>12, <2>4, <2>5 DEF Pushback
<1>13. CASE Term
  <2>1. Held(b', text, line0)
    BY <1>6, <1>13, TermAgrees DEF Term
  <2> QED BY <1>5, <1>6, <1>13, <2>1 DEF Term
<1>14. CASE Unterm
  <2>1. Running /\ ready
    BY <1>14 DEF Unterm, IInv
  <2>2. Held(b', text, line0) /\ b'.termchar = NUL
    BY <1>14, <2>1, HeldNow, UntermAgrees DEF Unterm
  <2> QED BY <1>5, <1>14, <2>1, <2>2 DEF Unterm
<1>15. CASE Input
  <2>1. Running /\ ready /\ b'.exit = "no" /\ b' \in ii_input(b)
    BY <1>15 DEF Input, Running
  <2>2. Held(b', text, line0) /\ (b.termchar = NUL => b'.termchar = NUL)
    BY <2>1, HeldNow, InputAgrees
  <2>3. b'.termchar # NUL => terminated'
    BY <1>15, <2>1, <2>2, HeldNow DEF Input
  <2> QED BY <1>5, <1>15, <2>1, <2>2, <2>3 DEF Input
<1>16. ASSUME NEW c \in PutBack, Unput(c) PROVE TextInv'
  <2>1. c \in Chars \ {NUL}
    BY CharsAssumption
  <2>2. Running /\ ready /\ Held(b, text, line0) /\ text \in Seq(Chars)
    BY <1>16, HeldNow DEF Unput
  <2>3. text' = PutInto(b, text, c)
    <3>1. Cur = Position(b, text)
      BY <2>2, CurIsPosition
    <3> QED BY <1>16, <3>1 DEF Unput, PutInto
  <2>4. /\ Agrees(b', PutInto(b, text, c), line0)
        /\ b.termchar = NUL => b'.termchar = NUL
    BY <1>16, <2>1, <2>2, UnputAgrees DEF Unput, Held
  <2>5. b'.termchar # NUL => terminated'
    BY <1>16, <2>2, <2>4, HeldNow DEF Unput
  <2> QED BY <1>1, <1>16, <2>2, <2>3, <2>4, <2>5 DEF Unput
<1>17. CASE FlushBuf
  <2>1. Running /\ ready /\ b'.exit = "no" /\ b' \in ii_flushbuf(b) /\ Refused(b)
    BY <1>17 DEF FlushBuf, Running
  <2>2. Held(b', text, line0) /\ b'.termchar = NUL
    BY <2>1, HeldNow, FlushAgrees
  <2> QED BY <1>5, <1>17, <2>1, <2>2 DEF FlushBuf
<1>18. CASE UNCHANGED vars
  BY <1>18 DEF TextInv, vars, Running
<1> QED
  BY <1>3, <1>4, <1>7, <1>8, <1>9, <1>10, <1>11, <1>12, <1>13, <1>14, <1>15,
     <1>16, <1>17, <1>18 DEF Next

\* The buffer and the stream agree in every state of the input system.
THEOREM TextInvHolds == Spec => [](IInv /\ TextInv)
<1>1. Init => IInv /\ TextInv
  BY InitIInv, InitTextInv
<1>2. IInv /\ TextInv /\ [Next]_vars => (IInv /\ TextInv)'
  BY NextIInv, NextTextInv
<1> QED BY <1>1, <1>2, PTL DEF Spec

\* From the previous lexeme to LOOK characters ahead a client sees the
\* stream, and a terminated lexeme is followed by its terminator, when read()
\* returns all that is asked for but at the end of file.
THEOREM BufferAlwaysShowsStream ==
  ASSUME ~ShortReads PROVE Spec => []BufferShowsStream
<1>1. IInv /\ TextInv => BufferShowsStream
  <2> SUFFICES ASSUME IInv, TextInv PROVE BufferShowsStream
    OBVIOUS
  <2>1. ASSUME Running, ready,
               NEW n \in (LeftEdge(b) - b.next + 1) .. LOOK,
               n = 1 /\ Cur = Len(text) => b.termchar = NUL
        PROVE  ii_lookahead(b, n) = StreamAt(Cur + n)
    <3>1. Held(b, text, line0)
      BY <2>1, HeldNow
    <3>2. /\ b \in TypeOfBuffer /\ Ordered(b) /\ Sound(b) /\ Shows(b, text)
          /\ Len(text) \in Nat /\ Base(b, text) \in Int /\ LeftEdge(b) \in Nat
          /\ 0 <= Base(b, text) + LeftEdge(b) /\ LeftEdge(b) <= b.smark
      BY <3>1, HeldFacts
    <3>3. PICK base \in Int, left \in Nat, next \in Nat, end \in Nat, unread \in Nat :
            /\ base = Base(b, text) /\ left = LeftEdge(b) /\ next = b.next
            /\ end = b.end_buf /\ unread = b.unread
      BY <3>2, Fields
    <3>4. /\ base = Len(text) - unread - end /\ left <= next /\ next <= end
          /\ 0 <= base + left /\ n \in Int /\ left - next + 1 <= n /\ n <= LOOK
          /\ Cur = base + next
      <4>1. base = Len(text) - unread - end /\ Cur = Len(text) - unread - (end - next)
        BY <3>3 DEF Base, Cur
      <4>2. left <= next /\ next <= end
        <5>1. b.smark <= b.emark /\ b.emark <= b.next /\ b.next <= b.end_buf
          BY <3>2, OrderedMarks
        <5>2. b.smark \in Nat /\ b.emark \in Nat
          BY <3>2, Fields
        <5> QED BY <3>2, <3>3, <5>1, <5>2
      <4>3. base + next = Len(text) - unread - (end - next)
        <5>1. PICK len \in Int : len = Len(text)
          BY <3>2
        <5>2. (len - unread - end) + next = len - unread - (end - next)
          OBVIOUS
        <5> QED BY <4>1, <5>1, <5>2
      <4>4. n \in Int /\ left - next + 1 <= n /\ n <= LOOK
        BY <2>1, <3>2, <3>3, Sizes
      <4> QED BY <3>2, <3>3, <4>1, <4>2, <4>3, <4>4
    <3>5. ~b.eof_read => next + LOOK <= end
      BY <3>2, <3>3 DEF Sound
    <3>6. b.eof_read => unread = 0
      BY <3>2, <3>3 DEF Shows
    <3>7. CASE n > end - next
      <4>1. b.eof_read
        BY <3>4, <3>5, <3>7, Sizes
      <4>2. Cur + n > Len(text)
        BY <3>2, <3>4, <3>6, <3>7, <4>1, Sizes
      <4>3. StreamAt(Cur + n) = EOF
        BY <3>2, <3>4, <4>2 DEF StreamAt
      <4>4. ii_look(b, n) = EOF
        BY <3>3, <3>4, <3>7, <4>1 DEF ii_look
      <4>5. ~(n = 1 /\ b.termchar # NUL)
        <5>1. ASSUME n = 1 PROVE Cur = Len(text)
          <6>1. next = end
            <7>1. 1 > end - next
              BY <3>7, <5>1, Zenon
            <7>2. next <= end
              BY <3>4
            <7> QED BY <7>1, <7>2
          <6>2. unread = 0 /\ base = Len(text) - unread - end /\ Cur = base + next
            BY <3>4, <3>6, <4>1, Zenon
          <6>3. PICK len \in Int : len = Len(text)
            BY <3>2
          <6>4. (len - 0 - end) + end = len
            OBVIOUS
          <6> QED BY <6>1, <6>2, <6>3, <6>4
        <5> QED BY <2>1, <5>1
      <4> QED BY <4>3, <4>4, <4>5 DEF ii_lookahead
    <3>8. CASE n <= end - next
      <4>1. PICK i \in left .. end - 1 : i = next + n - 1
        BY <3>4, <3>8
      <4>2. Cur + n = base + i + 1 /\ Cur + n <= Len(text)
        BY <3>2, <3>4, <4>1
      <4>3. StreamAt(Cur + n) = text[base + i + 1]
        BY <4>2 DEF StreamAt
      <4>4. CASE n = 1 /\ b.termchar # NUL
        <5>1. i = next /\ next < end
          BY <3>4, <3>8, <4>1, <4>4
        <5>2. b.termchar = text[base + next + 1]
          BY <3>2, <3>3, <4>4, <5>1 DEF Shows
        <5> QED BY <4>3, <4>4, <5>1, <5>2 DEF ii_lookahead
      <4>5. CASE ~(n = 1 /\ b.termchar # NUL)
        <5>1. i # next \/ b.termchar = NUL
          BY <3>4, <4>1, <4>5
        <5>2. b.buf[i] = text[base + i + 1]
          BY <3>2, <3>3, <4>1, <5>1 DEF Shows
        <5>3. ~(n > end - next) /\ ~(n - 1 < -next)
          BY <3>4, <3>8
        <5>4. ii_look(b, n) = b.buf[i]
          BY <3>3, <3>4, <4>1, <5>3 DEF ii_look
        <5> QED BY <4>3, <4>5, <5>2, <5>4 DEF ii_lookahead
      <4> QED BY <4>4, <4>5
    <3> QED BY <3>4, <3>7, <3>8
  <2>2. ASSUME Running, terminated, b.termchar # NUL PROVE b.buf[b.next] = NUL
    BY <2>2 DEF TextInv, Agrees, Shows
  <2> QED BY <2>1, <2>2 DEF BufferShowsStream
<1> QED BY <1>1, TextInvHolds, PTL

\* _lineno and _mline are the lines of the cursor and of the end of the
\* lexeme, when no file holds a NUL: ii_pushback() counts a NUL it passes as
\* a line (input.c, ii_pushback()).
THEOREM LinesAreCounted ==
  ASSUME Files \subseteq Seq(Chars \ {NUL}) PROVE Spec => []LinesCounted
<1>1. NulFree
  <2>1. ASSUME NEW f \in Files, NEW j \in 1 .. Len(f) PROVE f[j] # NUL
    <3>1. f \in Seq(Chars \ {NUL})
      OBVIOUS
    <3>2. f[j] \in Chars \ {NUL}
      BY <3>1
    <3> QED BY <3>2
  <2> QED BY <2>1 DEF NulFree
<1>2. IInv /\ TextInv => LinesCounted
  <2> SUFFICES ASSUME IInv, TextInv, Running, ready PROVE LinesCounted
    BY DEF LinesCounted
  <2>1. /\ b \in TypeOfBuffer /\ Counted(b, text, line0) /\ Len(text) \in Nat
    BY HeldNow, HeldFacts
  <2>2. /\ b.lineno = line0 + Lines(text, Base(b, text) + b.next)
        /\ b.mline = line0 + Lines(text, Base(b, text) + b.emark)
    BY <1>1, <2>1 DEF Counted
  <2>3. /\ Cur = Base(b, text) + b.next
        /\ Cur - (b.next - b.emark) = Base(b, text) + b.emark
    BY <2>1 DEF Cur, Base, TypeOfBuffer
  <2> QED BY <2>2, <2>3 DEF LinesCounted, LineOf, Lines
<1> QED BY <1>2, TextInvHolds, PTL

-----------------------------------------------------------------------------
(* The refinement. *)

\* The places CharStream knows, as the proofs speak of them.
Place == Position(b, text)
Start == Base(b, text) + b.smark
End   == Base(b, text) + b.emark
Prev  == IF b.pmark = NULL THEN -1 ELSE Base(b, text) + b.pmark
PlacesMapped ==
  /\ Cur = Place
  /\ Cur - (b.next - b.smark) = Start
  /\ Cur - (b.next - b.emark) = End
  /\ (IF b.pmark = NULL THEN -1 ELSE Cur - (b.next - b.pmark)) = Prev
  /\ Place \in Int /\ Start \in Int /\ End \in Int /\ Prev \in Int
  /\ Base(b, text) \in Int /\ Len(text) \in Nat
  /\ b.next \in Nat /\ b.smark \in Nat /\ b.emark \in Nat
  /\ b.pmark # NULL => b.pmark \in Nat

LEMMA Mapping == (TypeOK => PlacesMapped) /\ (TypeOK' => PlacesMapped')
<1>1. ASSUME TypeOK PROVE PlacesMapped
  <2>1. /\ Len(text) \in Nat /\ b.unread \in Nat /\ b.end_buf \in Nat /\ b.next \in Nat
        /\ b.smark \in Nat /\ b.emark \in Nat /\ (b.pmark # NULL => b.pmark \in Nat)
    BY <1>1 DEF TypeOK, TypeOfBuffer
  <2>2. PICK len \in Nat, unread \in Nat, endb \in Nat, next \in Nat :
          len = Len(text) /\ unread = b.unread /\ endb = b.end_buf /\ next = b.next
    BY <2>1
  <2>3. Cur = len - unread - (endb - next) /\ Base(b, text) = len - unread - endb
    BY <2>2 DEF Cur, Base
  <2>4. PICK base \in Int : base = len - unread - endb
    OBVIOUS
  <2>5. Cur = base + next /\ Base(b, text) = base
    BY <2>3, <2>4
  <2>6. \A m \in Nat : (base + next) - (next - m) = base + m
    OBVIOUS
  <2>7. /\ Cur - (b.next - b.smark) = base + b.smark
        /\ Cur - (b.next - b.emark) = base + b.emark
        /\ b.pmark # NULL => Cur - (b.next - b.pmark) = base + b.pmark
    BY <2>1, <2>2, <2>5, <2>6
  <2>8. /\ Place = base + next /\ Start = base + b.smark /\ End = base + b.emark
        /\ Prev = IF b.pmark = NULL THEN -1 ELSE base + b.pmark
    BY <2>2, <2>5 DEF Place, Position, Start, End, Prev
  <2>9. Place \in Int /\ Start \in Int /\ End \in Int /\ Prev \in Int
    BY <2>1, <2>8
  <2>10. (IF b.pmark = NULL THEN -1 ELSE Cur - (b.next - b.pmark)) = Prev
    BY <2>7, <2>8
  <2> QED BY <2>1, <2>5, <2>7, <2>8, <2>9, <2>10 DEF PlacesMapped
<1>2. TypeOK => PlacesMapped
  BY <1>1
<1> QED BY <1>2, PTL

\* What ii_unput() does to the marks.
LEMMA UnputMarks ==
  ASSUME NEW s \in TypeOfBuffer, NEW c \in Chars
  PROVE  LET t  == ii_unput(s, c)
             to == IF s.next - 1 > s.smark THEN s.next - 1 ELSE s.smark
         IN /\ t.next = to /\ t.emark = (IF to < s.emark THEN to ELSE s.emark)
            /\ t.smark = s.smark /\ t.pmark = s.pmark
            /\ t.unread = s.unread /\ t.end_buf = s.end_buf /\ t.exit = s.exit
<1> DEFINE to == IF s.next - 1 > s.smark THEN s.next - 1 ELSE s.smark
<1>1. ASSUME NEW u \in TypeOfBuffer, u.next = s.next, u.smark = s.smark,
             u.emark = s.emark, u.pmark = s.pmark, u.unread = s.unread,
             u.end_buf = s.end_buf, u.exit = s.exit,
             NEW t, t = StoreBack(u, c) \/ t = ii_term(StoreBack(u, c))
      PROVE  /\ t.next = to /\ t.emark = (IF to < s.emark THEN to ELSE s.emark)
             /\ t.smark = s.smark /\ t.pmark = s.pmark
             /\ t.unread = s.unread /\ t.end_buf = s.end_buf /\ t.exit = s.exit
  <2>1. PICK p : p = ii_pushback(u, 1)
    OBVIOUS
  <2>2. /\ p.next = to /\ p.emark = (IF to < s.emark THEN to ELSE s.emark)
        /\ p.smark = s.smark /\ p.pmark = s.pmark
        /\ p.unread = s.unread /\ p.end_buf = s.end_buf /\ p.exit = s.exit
    BY <1>1, <2>1 DEF ii_pushback, TypeOfBuffer
  <2>3. \E buf, lineno, mline :
          p = [u EXCEPT !.next = to, !.lineno = lineno, !.emark = p.emark, !.mline = mline]
    BY <1>1, <2>1, <2>2 DEF ii_pushback
  <2>4. PICK w : w = StoreBack(u, c)
    OBVIOUS
  <2>5. w = p \/ w = [p EXCEPT !.buf[p.next] = c]
    BY <2>1, <2>4, Zenon DEF StoreBack
  <2>9. {"next", "emark", "smark", "pmark", "unread", "end_buf", "exit"} \subseteq DOMAIN p
    <3>1. DOMAIN p = DOMAIN u
      BY <2>1 DEF ii_pushback
    <3> QED BY <3>1 DEF TypeOfBuffer
  <2>10. DOMAIN w = DOMAIN p
    BY <2>5
  <2>6. /\ w.next = p.next /\ w.emark = p.emark /\ w.smark = p.smark /\ w.pmark = p.pmark
        /\ w.unread = p.unread /\ w.end_buf = p.end_buf /\ w.exit = p.exit
    BY <2>5, <2>9
  <2>7. t = w \/ t = [w EXCEPT !.termchar = w.buf[w.next], !.buf[w.next] = NUL]
    BY <1>1, <2>4, Zenon DEF ii_term
  <2>8. /\ t.next = w.next /\ t.emark = w.emark /\ t.smark = w.smark /\ t.pmark = w.pmark
        /\ t.unread = w.unread /\ t.end_buf = w.end_buf /\ t.exit = w.exit
    BY <2>7, <2>9, <2>10
  <2> QED BY <2>2, <2>6, <2>8
<1>2. CASE s.termchar = NUL
  BY <1>1, <1>2 DEF ii_unput
<1>3. CASE s.termchar # NUL
  <2>1. PICK u : u = ii_unterm(s)
    OBVIOUS
  <2>2. /\ u.next = s.next /\ u.smark = s.smark
        /\ u.emark = s.emark /\ u.pmark = s.pmark /\ u.unread = s.unread
        /\ u.end_buf = s.end_buf /\ u.exit = s.exit
    BY <2>1 DEF ii_unterm, TypeOfBuffer
  <2>3. u \in TypeOfBuffer
    <3>1. [s.buf EXCEPT ![s.next] = s.termchar] \in [Index -> Chars]
      BY DEF TypeOfBuffer
    <3>2. u = [s EXCEPT !.buf = [s.buf EXCEPT ![s.next] = s.termchar], !.termchar = NUL]
      BY <1>3, <2>1 DEF ii_unterm, TypeOfBuffer
    <3> QED BY <3>1, <3>2, CharsAssumption DEF TypeOfBuffer
  <2>4. ii_unput(s, c) = ii_term(StoreBack(u, c))
    BY <1>3, <2>1 DEF ii_unput
  <2> QED BY <1>1, <2>2, <2>3, <2>4
<1> QED BY <1>2, <1>3

\* Each place lies where it should in the stream.
LEMMA PlacesInOrder ==
  ASSUME IInv, TextInv, Running, ready
  PROVE  /\ 0 <= Start /\ Start <= End /\ End <= Place /\ Place <= Len(text)
         /\ b.pmark = NULL => Prev = -1 /\ LeftEdge(b) = b.smark
         /\ b.pmark # NULL => 0 <= Prev /\ LeftEdge(b) = b.pmark
         /\ b.next - b.smark = Place - Start
         /\ b.pmark # NULL => b.next - b.pmark = Place - Prev
<1>1. Held(b, text, line0)
  BY HeldNow
<1>2. /\ b \in TypeOfBuffer /\ Ordered(b) /\ Len(text) \in Nat
      /\ Base(b, text) \in Int /\ LeftEdge(b) \in Nat
      /\ 0 <= Base(b, text) + LeftEdge(b)
  BY <1>1, HeldFacts
<1>10. PICK smark \in Nat, emark \in Nat, next \in Nat :
        smark = b.smark /\ emark = b.emark /\ next = b.next
  BY <1>2 DEF TypeOfBuffer
<1>11. PICK base \in Int, endb \in Nat, unread \in Nat :
        base = Base(b, text) /\ endb = b.end_buf /\ unread = b.unread
  BY <1>2 DEF TypeOfBuffer
<1>3. /\ base = Base(b, text) /\ smark = b.smark /\ emark = b.emark
      /\ next = b.next /\ endb = b.end_buf /\ unread = b.unread
  BY <1>10, <1>11
<1>4. smark <= emark /\ emark <= next /\ next <= endb
  <2>1. b.smark <= b.emark /\ b.emark <= b.next /\ b.next <= b.end_buf
    BY <1>2 DEF Ordered
  <2> QED BY <1>3, <2>1
<1>9. base + endb <= Len(text)
  <2>1. PICK len \in Int : len = Len(text)
    BY <1>2
  <2>2. base = len - unread - endb
    BY <1>3, <2>1 DEF Base
  <2>3. base + endb <= len
    BY <2>2
  <2> QED BY <2>1, <2>3
<1>5. Place = base + next /\ Start = base + smark /\ End = base + emark
  BY <1>3 DEF Place, Position, Start, End
<1>6. Start <= End /\ End <= Place /\ Place <= Len(text) /\ b.next - b.smark = Place - Start
  <2>1. base + smark <= base + emark /\ base + emark <= base + next
    BY <1>4
  <2>2. base + next <= base + endb /\ next - smark = (base + next) - (base + smark)
    BY <1>4
  <2>3. base + next <= Len(text)
    <3>1. PICK len \in Int : len = Len(text)
      BY <1>2
    <3> QED BY <1>4, <1>9, <3>1
  <2> QED BY <1>3, <1>5, <2>1, <2>2, <2>3
<1>7. CASE b.pmark = NULL
  <2>1. LeftEdge(b) = smark /\ Prev = -1
    BY <1>3, <1>7 DEF LeftEdge, Prev
  <2>2. 0 <= base + smark
    BY <1>2, <1>3, <2>1
  <2> QED BY <1>3, <1>5, <1>6, <1>7, <2>1, <2>2
<1>8. CASE b.pmark # NULL
  <2>1. PICK pmark \in Nat : pmark = b.pmark /\ pmark <= smark
    <3>1. b.pmark \in Nat /\ b.pmark <= b.smark
      BY <1>2, <1>8, Fields, OrderedMarks
    <3> QED BY <1>3, <3>1
  <2>2. LeftEdge(b) = pmark /\ Prev = base + pmark
    BY <1>3, <1>8, <2>1 DEF LeftEdge, Prev
  <2>3. 0 <= base + pmark
    BY <1>2, <1>3, <2>2
  <2>4. 0 <= base + smark /\ next - pmark = (base + next) - (base + pmark)
    BY <2>1, <2>3
  <2> QED BY <1>3, <1>5, <1>6, <1>8, <2>1, <2>2, <2>3, <2>4
<1> QED BY <1>7, <1>8

LEMMA NextStream ==
  IInv /\ TextInv /\ IInv' /\ [Next]_vars => [Stream!Next]_Stream!vars
<1> SUFFICES ASSUME IInv, TextInv, IInv', [Next]_vars
             PROVE  [Stream!Next]_Stream!vars
  OBVIOUS
<1>1. PlacesMapped /\ PlacesMapped'
  BY Mapping DEF IInv
<1>2. PICK p \in Int, a \in Int, e \in Int, q \in Int :
        /\ p = Place /\ a = Start /\ e = End /\ q = Prev
        /\ Cur = p /\ Cur - (b.next - b.smark) = a /\ Cur - (b.next - b.emark) = e
        /\ (IF b.pmark = NULL THEN -1 ELSE Cur - (b.next - b.pmark)) = q
  BY <1>1 DEF PlacesMapped
<1>3. PICK p1 \in Int, a1 \in Int, e1 \in Int, q1 \in Int :
        /\ p1 = Place' /\ a1 = Start' /\ e1 = End' /\ q1 = Prev'
        /\ Cur' = p1 /\ Cur' - (b'.next - b'.smark) = a1
        /\ Cur' - (b'.next - b'.emark) = e1
        /\ (IF b'.pmark = NULL THEN -1 ELSE Cur' - (b'.next - b'.pmark)) = q1
  BY <1>1 DEF PlacesMapped
<1>4. ASSUME Running, ready
      PROVE  /\ a <= e /\ e <= p /\ p <= Len(text) /\ Len(text) \in Nat
             /\ b \in TypeOfBuffer
             /\ Held(b, text, line0) /\ b.been_called /\ text \in Seq(Chars)
  BY <1>2, <1>4, PlacesInOrder, HeldNow, HeldFacts
<1> DEFINE Step == Stream!Next \/ UNCHANGED Stream!vars
\* One step of CharStream for each way the places may change.
<1>5. ASSUME p1 = p, a1 = a, e1 = e, q1 = q, text' = text, Running' = Running
      PROVE  Step
  BY <1>2, <1>3, <1>5 DEF Stream!vars
<1>6. ASSUME Running, ~Running' PROVE Step
  BY <1>6 DEF Stream!Next, Stream!Exit
<1>7. ASSUME Running, Running', p1 = p, a1 = p, e1 = p, q1 = q, text' = text
      PROVE  Step
  BY <1>2, <1>3, <1>7 DEF Stream!Next, Stream!MarkStart
<1>8. ASSUME Running, Running', p1 = p, a1 = a, e1 = p, q1 = q, text' = text
      PROVE  Step
  BY <1>2, <1>3, <1>8 DEF Stream!Next, Stream!MarkEnd
<1>9. ASSUME Running, Running', a < e, p1 = p, a1 = a + 1, e1 = e, q1 = q, text' = text
      PROVE  Step
  BY <1>2, <1>3, <1>9 DEF Stream!Next, Stream!MoveStart
<1>10. ASSUME Running, Running', p1 = e, a1 = a, e1 = e, q1 = q, text' = text
       PROVE  Step
  BY <1>2, <1>3, <1>10 DEF Stream!Next, Stream!MoveBack
<1>11. ASSUME Running, Running', p1 = p, a1 = a, e1 = e, q1 = a, text' = text
       PROVE  Step
  BY <1>2, <1>3, <1>11 DEF Stream!Next, Stream!MarkPrev
<1>12. ASSUME Running, Running', NEW n \in 1 .. MaxBack,
              p1 = (IF p - n > a THEN p - n ELSE a),
              a1 = a, e1 = (IF p1 < e THEN p1 ELSE e), q1 = q, text' = text
       PROVE  Step
  <2>1. Stream!Most(p - n, a) = p1
    BY <1>12, BoundsAssumption DEF Stream!Most
  <2>2. Stream!Least(e, p1) = e1
    BY <1>12 DEF Stream!Least
  <2>3. Stream!Return(n)
    BY <1>2, <1>3, <1>12, <2>1, <2>2 DEF Stream!Return
  <2> QED BY <1>12, <2>3 DEF Stream!Next
<1>13. ASSUME Running, Running', NEW c \in Chars, p > a, p1 = p - 1,
              a1 = a, e1 = (IF p1 < e THEN p1 ELSE e), q1 = q,
              text' = [text EXCEPT ![p] = c]
       PROVE  Step
  <2>1. Stream!Least(e, p1) = e1
    BY <1>13 DEF Stream!Least
  <2>2. Stream!Replace(c)
    BY <1>2, <1>3, <1>13, <2>1 DEF Stream!Replace
  <2> QED BY <1>13, <2>2 DEF Stream!Next
<1>14. ASSUME Running, Running', p < Len(text), p1 = p + 1, a1 = a, e1 = e, q1 = q,
              text' = text
       PROVE  Step
  BY <1>2, <1>3, <1>14 DEF Stream!Next, Stream!Deliver
<1>15. ASSUME Running, Running', p < Len(text), Len(text) \in Nat,
              p1 = p + 1, a1 = a, e1 = p1, q1 = q, text' = text
       PROVE  Step
  <2>1. Stream!Least(p + 1, Len(text)) = p + 1
    BY <1>15 DEF Stream!Least
  <2> QED BY <1>2, <1>3, <1>15, <2>1 DEF Stream!Next, Stream!DeliverIntoLexeme
<1>16. ASSUME Running, Running', p - (IF q = -1 THEN a ELSE q) > MAXLEX + LOOK,
              p1 = p, a1 = p, e1 = p, q1 = p, text' = text
       PROVE  Step
  BY <1>2, <1>3, <1>16 DEF Stream!Next, Stream!Discard
<1>17. ASSUME Running, Running', p = 0, a = 0, e = 0, p1 = 1, a1 = 0, e1 = 0, q1 = -1,
              text' = <<NL>> \o text
       PROVE  Step
  BY <1>2, <1>3, <1>17 DEF Stream!Next, Stream!PushNewline
<1>18. ASSUME Running, Running', text' \in Files, p1 = 0, a1 = 0, e1 = 0, q1 = -1
       PROVE  Step
  BY <1>2, <1>3, <1>18 DEF Stream!Next, Stream!Open
\* The actions.
<1>20. /\ p = Base(b, text) + b.next /\ a = Base(b, text) + b.smark
       /\ e = Base(b, text) + b.emark
       /\ q = IF b.pmark = NULL THEN -1 ELSE Base(b, text) + b.pmark
       /\ Base(b, text) \in Int /\ b.next \in Nat /\ b.smark \in Nat /\ b.emark \in Nat
  <2>1. /\ Place = Base(b, text) + b.next /\ Start = Base(b, text) + b.smark
        /\ End = Base(b, text) + b.emark
        /\ Prev = IF b.pmark = NULL THEN -1 ELSE Base(b, text) + b.pmark
    BY Zenon DEF Place, Position, Start, End, Prev
  <2>2. Base(b, text) \in Int /\ b.next \in Nat /\ b.smark \in Nat /\ b.emark \in Nat
    BY <1>1 DEF PlacesMapped
  <2> QED BY <1>2, <2>1, <2>2, Zenon
<1>21. /\ p1 = Base(b', text') + b'.next /\ a1 = Base(b', text') + b'.smark
       /\ e1 = Base(b', text') + b'.emark
       /\ q1 = IF b'.pmark = NULL THEN -1 ELSE Base(b', text') + b'.pmark
  BY <1>3 DEF Place, Position, Start, End, Prev
<1>22. ASSUME b'.unread = b.unread, b'.end_buf = b.end_buf, Len(text') = Len(text)
       PROVE  /\ p1 = Base(b, text) + b'.next /\ a1 = Base(b, text) + b'.smark
              /\ e1 = Base(b, text) + b'.emark
              /\ q1 = IF b'.pmark = NULL THEN -1 ELSE Base(b, text) + b'.pmark
  <2>1. Base(b', text') = Base(b, text)
    BY <1>22 DEF Base
  <2> QED BY <1>21, <2>1, Zenon
<1>23. Running' = (b'.exit = "no") /\ Running = (b.exit = "no")
  BY DEF Running
<1>19. SUFFICES Step
  OBVIOUS
<1> HIDE DEF Step
<1>24. CASE NewFile
  <2>1. PICK f \in Files : text' = f /\ b' = ii_newfile(b, f)
    BY <1>24 DEF NewFile
  <2>2. f \in Seq(Chars) /\ Len(f) \in Nat
    BY CharsAssumption
  <2>3. Running /\ b \in TypeOfBuffer
    BY <1>24, HeldNow DEF NewFile
  <2>4. /\ b'.next = BUFSIZE /\ b'.emark = BUFSIZE /\ b'.smark = BUFSIZE
        /\ b'.end_buf = BUFSIZE /\ b'.pmark = NULL /\ b'.unread = Len(f)
        /\ b'.exit = b.exit
    BY <2>1, <2>3 DEF ii_newfile, TypeOfBuffer
  <2>5. Base(b', text') = -BUFSIZE
    BY <2>1, <2>2, <2>4, Sizes DEF Base
  <2>6. p1 = 0 /\ a1 = 0 /\ e1 = 0 /\ q1 = -1
    BY <1>21, <2>4, <2>5, Sizes
  <2>7. Running'
    BY <2>3, <2>4 DEF Running
  <2> QED BY <1>18, <2>1, <2>3, <2>6, <2>7
<1>25. CASE Advance
  <2>1. Running /\ b.termchar = NUL /\ b' \in ii_advance(b)
    BY <1>25, HeldNow DEF Advance
  <2>2. text \in Seq(Chars)
    BY <2>1, HeldNow
  <2>3. SUFFICES ASSUME Running' PROVE Step
    BY <1>6, <2>1
  <2>4. b'.exit = "no"
    BY <2>3 DEF Running
  <2>5. CASE ready
    <3>1. text' = text
      BY <1>4, <1>25, <2>1, <2>5 DEF Advance
    <3>2. b' = b \/ Delivered(b, b', text)
      BY <1>4, <2>1, <2>2, <2>4, <2>5, AdvanceAgrees
    <3>3. CASE b' = b
      <4>1. p1 = p /\ a1 = a /\ e1 = e /\ q1 = q
        BY <1>20, <1>22, <3>1, <3>3
      <4> QED BY <1>5, <2>1, <2>3, <3>1, <4>1
    <3>4. CASE Delivered(b, b', text)
      <4>1. p1 = p + 1 /\ a1 = a /\ e1 = e /\ q1 = q /\ p < Len(text)
        BY <1>20, <1>21, <3>1, <3>4 DEF Delivered, SamePlaces, Position
      <4> QED BY <1>14, <2>1, <2>3, <3>1, <4>1
    <3> QED BY <3>2, <3>3, <3>4
  <2>6. CASE ~ready
    <3>1. Opened(b, line0) /\ Len(text) \in Nat
      BY <2>1, <2>2, <2>6, HeldNow
    <3>2. p = 0 /\ a = 0 /\ e = 0 /\ q = -1
      <4>1. /\ b.next = BUFSIZE /\ b.smark = BUFSIZE /\ b.emark = BUFSIZE
            /\ b.end_buf = BUFSIZE /\ b.pmark = NULL /\ b.unread = Len(text)
        BY <3>1 DEF Opened, Fresh
      <4>2. Base(b, text) = -BUFSIZE
        BY <3>1, <4>1, Sizes DEF Base
      <4> QED BY <1>20, <4>1, <4>2, Sizes
    <3>3. text' = Streamed(b)
      BY <1>25 DEF Advance, Streamed
    <3>4. Started(b', Streamed(b))
      BY <2>1, <2>2, <2>4, <3>1, AdvanceFreshAgrees
    <3>5. p1 = 1 /\ a1 = 0 /\ e1 = 0 /\ q1 = -1 /\ 1 <= Len(text')
      BY <1>21, <3>3, <3>4 DEF Started, Position
    <3>6. CASE b.been_called
      <4>1. text' = text
        BY <3>3, <3>6 DEF Streamed
      <4>2. p < Len(text) /\ p1 = p + 1 /\ a1 = a /\ e1 = e /\ q1 = q
        BY <3>1, <3>2, <3>5, <4>1
      <4> QED BY <1>14, <2>1, <2>3, <4>1, <4>2
    <3>7. CASE ~b.been_called
      <4>1. text' = <<NL>> \o text
        BY <3>3, <3>7 DEF Streamed
      <4> QED BY <1>17, <2>1, <2>3, <3>2, <3>5, <4>1
    <3> QED BY <3>6, <3>7
  <2> QED BY <2>5, <2>6
\* The actions that move marks in the buffer of an open file.
<1>26. ASSUME Open
       PROVE  Running /\ ready /\ b \in TypeOfBuffer /\ b.exit = "no"
  BY <1>4, <1>26 DEF Open, Running
<1>27. CASE MarkStart
  <2>1. Running /\ b \in TypeOfBuffer /\ b' = ii_mark_start(b) /\ text' = text
    BY <1>26, <1>27 DEF MarkStart
  <2>2. /\ b'.next = b.next /\ b'.smark = b.next /\ b'.emark = b.next
        /\ b'.pmark = b.pmark /\ b'.unread = b.unread /\ b'.end_buf = b.end_buf
        /\ b'.exit = b.exit
    BY <2>1 DEF ii_mark_start, TypeOfBuffer
  <2>3. p1 = p /\ a1 = p /\ e1 = p /\ q1 = q
    BY <1>20, <1>22, <2>1, <2>2
  <2> QED BY <1>7, <2>1, <2>2, <2>3 DEF Running
<1>28. CASE MarkEnd
  <2>1. Running /\ b \in TypeOfBuffer /\ b' = ii_mark_end(b) /\ text' = text
    BY <1>26, <1>28 DEF MarkEnd
  <2>2. /\ b'.next = b.next /\ b'.smark = b.smark /\ b'.emark = b.next
        /\ b'.pmark = b.pmark /\ b'.unread = b.unread /\ b'.end_buf = b.end_buf
        /\ b'.exit = b.exit
    BY <2>1 DEF ii_mark_end, TypeOfBuffer
  <2>3. p1 = p /\ a1 = a /\ e1 = p /\ q1 = q
    BY <1>20, <1>22, <2>1, <2>2
  <2> QED BY <1>8, <2>1, <2>2, <2>3 DEF Running
<1>29. CASE MoveStart
  <2>1. Running /\ b \in TypeOfBuffer /\ b' = ii_move_start(b) /\ text' = text
    BY <1>26, <1>29 DEF MoveStart
  <2>2. CASE b.smark >= b.emark
    <3>1. b' = b
      BY <2>1, <2>2 DEF ii_move_start
    <3>2. p1 = p /\ a1 = a /\ e1 = e /\ q1 = q
      BY <1>20, <1>22, <2>1, <3>1
    <3> QED BY <1>5, <2>1, <3>1, <3>2 DEF Running
  <2>3. CASE ~(b.smark >= b.emark)
    <3>1. /\ b'.next = b.next /\ b'.smark = b.smark + 1 /\ b'.emark = b.emark
          /\ b'.pmark = b.pmark /\ b'.unread = b.unread /\ b'.end_buf = b.end_buf
          /\ b'.exit = b.exit
      BY <2>1, <2>3 DEF ii_move_start, TypeOfBuffer
    <3>2. p1 = p /\ a1 = a + 1 /\ e1 = e /\ q1 = q
      BY <1>20, <1>22, <2>1, <3>1
    <3>3. a < e
      BY <1>20, <2>3
    <3> QED BY <1>9, <2>1, <3>1, <3>2, <3>3 DEF Running
  <2> QED BY <2>2, <2>3
<1>30. CASE MoveBack
  <2>1. Running /\ b \in TypeOfBuffer /\ b' = ii_move_back(b) /\ text' = text
    BY <1>26, <1>30 DEF MoveBack
  <2>2. /\ b'.next = b.emark /\ b'.smark = b.smark /\ b'.emark = b.emark
        /\ b'.pmark = b.pmark /\ b'.unread = b.unread /\ b'.end_buf = b.end_buf
        /\ b'.exit = b.exit
    BY <2>1 DEF ii_move_back, TypeOfBuffer
  <2>3. p1 = e /\ a1 = a /\ e1 = e /\ q1 = q
    BY <1>20, <1>22, <2>1, <2>2
  <2> QED BY <1>10, <2>1, <2>2, <2>3 DEF Running
<1>31. CASE MarkPrev
  <2>1. Running /\ b \in TypeOfBuffer /\ b' = ii_mark_prev(b) /\ text' = text
    BY <1>4, <1>31 DEF MarkPrev
  <2>2. /\ b'.next = b.next /\ b'.smark = b.smark /\ b'.emark = b.emark
        /\ b'.pmark = b.smark /\ b'.unread = b.unread /\ b'.end_buf = b.end_buf
        /\ b'.exit = b.exit
    BY <2>1 DEF ii_mark_prev, TypeOfBuffer
  <2>3. p1 = p /\ a1 = a /\ e1 = e /\ q1 = a
    <3>1. b'.pmark # NULL
      BY <1>20, <2>2 DEF NULL
    <3> QED BY <1>20, <1>22, <2>1, <2>2, <3>1
  <2> QED BY <1>11, <2>1, <2>2, <2>3 DEF Running
<1>32. CASE Pushback
  <2>1. Running /\ b \in TypeOfBuffer /\ text' = text
    BY <1>26, <1>32 DEF Pushback
  <2>2. PICK n \in 1 .. MaxBack : b' = ii_pushback(b, n)
    BY <1>32 DEF Pushback
  <2>3. PICK to \in Nat : to = IF b.next - n > b.smark THEN b.next - n ELSE b.smark
    BY <1>20, BoundsAssumption
  <2>4. /\ b'.next = to /\ b'.smark = b.smark
        /\ b'.emark = (IF to < b.emark THEN to ELSE b.emark)
        /\ b'.pmark = b.pmark /\ b'.unread = b.unread /\ b'.end_buf = b.end_buf
        /\ b'.exit = b.exit
    BY <2>1, <2>2, <2>3 DEF ii_pushback, TypeOfBuffer
  <2>5. /\ p1 = (IF p - n > a THEN p - n ELSE a)
        /\ a1 = a /\ e1 = (IF p1 < e THEN p1 ELSE e) /\ q1 = q
    BY <1>20, <1>22, <2>1, <2>3, <2>4, BoundsAssumption
  <2> QED BY <1>12, <2>1, <2>4, <2>5 DEF Running
<1>33. CASE Term
  <2>1. Running /\ b \in TypeOfBuffer /\ b' = ii_term(b) /\ text' = text
    BY <1>26, <1>33 DEF Term
  <2>2. /\ b'.next = b.next /\ b'.smark = b.smark /\ b'.emark = b.emark
        /\ b'.pmark = b.pmark /\ b'.unread = b.unread /\ b'.end_buf = b.end_buf
        /\ b'.exit = b.exit
    BY <2>1 DEF ii_term, TypeOfBuffer
  <2>3. p1 = p /\ a1 = a /\ e1 = e /\ q1 = q
    BY <1>20, <1>22, <2>1, <2>2
  <2> QED BY <1>5, <2>1, <2>2, <2>3 DEF Running
<1>34. CASE Unterm
  <2>1. Running /\ b \in TypeOfBuffer /\ b' = ii_unterm(b) /\ text' = text
    BY <1>34, HeldNow DEF Unterm
  <2>2. /\ b'.next = b.next /\ b'.smark = b.smark /\ b'.emark = b.emark
        /\ b'.pmark = b.pmark /\ b'.unread = b.unread /\ b'.end_buf = b.end_buf
        /\ b'.exit = b.exit
    BY <2>1 DEF ii_unterm, TypeOfBuffer
  <2>3. p1 = p /\ a1 = a /\ e1 = e /\ q1 = q
    BY <1>20, <1>22, <2>1, <2>2
  <2> QED BY <1>5, <2>1, <2>2, <2>3 DEF Running
<1>35. CASE Input
  <2>1. Running /\ ready /\ b' \in ii_input(b) /\ text' = text
    BY <1>35 DEF Input
  <2>2. SUFFICES ASSUME Running' PROVE Step
    BY <1>6, <2>1
  <2>3. b'.exit = "no"
    BY <2>2 DEF Running
  <2>4. Extended(b, b', text)
    BY <1>4, <2>1, <2>3, InputAgrees
  <2>5. a1 = a /\ q1 = q /\ e1 = p1
    BY <1>20, <1>21, <2>1, <2>4 DEF Extended, Position
  <2>6. p1 = p \/ (p1 = p + 1 /\ p < Len(text))
    BY <1>20, <1>21, <2>1, <2>4 DEF Extended, Position
  <2>7. CASE p1 = p
    BY <1>8, <2>1, <2>2, <2>5, <2>7
  <2>8. CASE p1 = p + 1 /\ p < Len(text)
    BY <1>4, <1>15, <2>1, <2>2, <2>5, <2>8
  <2> QED BY <2>6, <2>7, <2>8
<1>36. ASSUME NEW c \in PutBack, Unput(c) PROVE Step
  <2>1. /\ Running /\ ready /\ b' = ii_unput(b, c) /\ c \in Chars /\ b \in TypeOfBuffer
        /\ text' = IF b.next - 1 > b.smark THEN [text EXCEPT ![Cur] = c] ELSE text
    BY <1>4, <1>36, CharsAssumption DEF Unput
  <2>2. PICK to \in Nat : to = IF b.next - 1 > b.smark THEN b.next - 1 ELSE b.smark
    BY <1>20
  <2>3. /\ b'.next = to /\ b'.emark = (IF to < b.emark THEN to ELSE b.emark)
        /\ b'.smark = b.smark /\ b'.pmark = b.pmark
        /\ b'.unread = b.unread /\ b'.end_buf = b.end_buf /\ b'.exit = b.exit
    BY <2>1, <2>2, UnputMarks
  <2>4. Len(text') = Len(text)
    BY <1>4, <2>1, ReplacedCharacter
  <2>5. /\ p1 = (IF p - 1 > a THEN p - 1 ELSE a)
        /\ a1 = a /\ e1 = (IF p1 < e THEN p1 ELSE e) /\ q1 = q
    <3>1. PICK base \in Int : base = Base(b, text)
      BY <1>20
    <3>2. /\ p1 = base + b'.next /\ a1 = base + b'.smark /\ e1 = base + b'.emark
          /\ q1 = IF b'.pmark = NULL THEN -1 ELSE base + b'.pmark
      BY <1>22, <2>3, <2>4, <3>1, Zenon
    <3>3. /\ p1 = base + to /\ a1 = base + b.smark
          /\ e1 = base + (IF to < b.emark THEN to ELSE b.emark)
          /\ q1 = IF b.pmark = NULL THEN -1 ELSE base + b.pmark
      BY <2>3, <3>2, Zenon
    <3>4. /\ p = base + b.next /\ a = base + b.smark /\ e = base + b.emark
          /\ q = IF b.pmark = NULL THEN -1 ELSE base + b.pmark
      BY <1>20, <3>1, Zenon
    <3>5. p1 = IF p - 1 > a THEN p - 1 ELSE a
      BY <1>20, <2>2, <3>1, <3>3, <3>4
    <3>6. e1 = IF p1 < e THEN p1 ELSE e
      BY <1>20, <3>1, <3>3, <3>4
    <3>7. a1 = a /\ q1 = q
      BY <3>3, <3>4, Zenon
    <3> QED BY <3>5, <3>6, <3>7, Zenon
  <2>6. Running'
    BY <2>1, <2>3 DEF Running
  <2>7. b.next - 1 > b.smark <=> p - 1 > a
    BY <1>20
  <2>8. CASE p - 1 > a
    <3>1. text' = [text EXCEPT ![p] = c]
      BY <1>2, <2>1, <2>7, <2>8
    <3>2. p > a /\ p1 = p - 1
      BY <2>5, <2>8
    <3> QED BY <1>13, <2>1, <2>5, <2>6, <3>1, <3>2
  <2>9. CASE ~(p - 1 > a)
    <3>1. text' = text /\ 1 \in 1 .. MaxBack
      BY <2>1, <2>7, <2>9, BoundsAssumption
    <3> QED BY <1>12, <2>1, <2>5, <2>6, <3>1
  <2> QED BY <2>8, <2>9
<1>37. CASE FlushBuf
  <2>1. Running /\ ready /\ Refused(b) /\ b' \in ii_flushbuf(b) /\ text' = text
    BY <1>37 DEF FlushBuf
  <2>2. SUFFICES ASSUME Running' PROVE Step
    BY <1>6, <2>1
  <2>3. b'.exit = "no"
    BY <2>2 DEF Running
  <2>4. Emptied(b, b', text)
    BY <1>4, <2>1, <2>3, FlushAgrees
  <2>5. p1 = p /\ a1 = p /\ e1 = p /\ q1 = p
    BY <1>20, <1>21, <2>1, <2>4 DEF Emptied, Position
  <2>6. b.next - LeftEdge(b) > MAXLEX + LOOK
    BY <2>1, RefusedLong DEF RefusedOnlyWhenLong
  <2>7. b.next - LeftEdge(b) = p - (IF q = -1 THEN a ELSE q)
    <3>1. CASE b.pmark = NULL
      BY <1>2, <2>1, <3>1, PlacesInOrder
    <3>2. CASE b.pmark # NULL
      <4>1. q # -1 /\ LeftEdge(b) = b.pmark /\ b.next - b.pmark = p - q
        BY <1>2, <2>1, <3>2, PlacesInOrder
      <4> QED BY <4>1
    <3> QED BY <3>1, <3>2
  <2> QED BY <1>16, <2>1, <2>2, <2>5, <2>6, <2>7
<1>38. CASE UNCHANGED vars
  <2>1. b' = b /\ text' = text
    BY <1>38 DEF vars
  <2>2. p1 = p /\ a1 = a /\ e1 = e /\ q1 = q
    BY <1>20, <1>22, <2>1
  <2> QED BY <1>5, <2>1, <2>2 DEF Running
<1> QED
  BY <1>24, <1>25, <1>27, <1>28, <1>29, <1>30, <1>31, <1>32, <1>33, <1>34, <1>35,
     <1>36, <1>37, <1>38 DEF Next

LEMMA InitStream == Init => Stream!Init
<1> SUFFICES ASSUME Init PROVE Stream!Init
  OBVIOUS
<1>1. /\ text \in Files /\ Len(text) \in Nat
      /\ b.next = BUFSIZE /\ b.emark = BUFSIZE /\ b.smark = BUFSIZE
      /\ b.end_buf = BUFSIZE /\ b.pmark = NULL /\ b.unread = Len(text) /\ b.exit = "no"
  BY CharsAssumption DEF Init
<1>2. Cur = 0
  BY <1>1, Sizes DEF Cur
<1>3. Cur - (b.next - b.smark) = 0 /\ Cur - (b.next - b.emark) = 0
  BY <1>1, <1>2, Sizes
<1> QED BY <1>1, <1>2, <1>3 DEF Stream!Init, Running

\* Without its buffer the input system is a stream with a cursor and a
\* lexeme: no flush, refill, pushback or end of file shows through, for every
\* file and every size of buffer.
THEOREM BufferImplementsStream == Spec => ImplementsCharStream
<1>1. Init => Stream!Init
  BY InitStream
<1>2. IInv /\ TextInv /\ IInv' /\ [Next]_vars => [Stream!Next]_Stream!vars
  BY NextStream
<1> QED BY <1>1, <1>2, TextInvHolds, PTL DEF Spec, ImplementsCharStream, Stream!Spec
==============================================================================
