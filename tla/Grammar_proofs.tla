--------------------------- MODULE Grammar_proofs ----------------------------
(***************************************************************************)
(* What acts.c builds of a grammar file, for every file: productions made  *)
(* of symbols there are, the first of them one of the goal, and a stack of *)
(* open right-hand sides as deep as the brackets of the file.  Then that   *)
(* first.c ends with the least FIRST sets, in whatever order the symbol    *)
(* table is gone through.                                                  *)
(***************************************************************************)
EXTENDS Grammar, NaturalsInduction, WellFoundedInduction, FiniteSetTheorems, TLAPS

-----------------------------------------------------------------------------
(* Induction over the natural numbers, of a set of numbers.                *)

\* A set of natural numbers that has an element has a least one: what every
\* argument about how far a loop of the code has come rests on.
LEMMA LeastNat ==
  ASSUME NEW T, T \subseteq Nat, T # {}
  PROVE  \E m \in T : \A k \in T : m <= k
<1>1. IsWellFoundedOn(OpToRel(<, Nat), Nat)
  BY NatLessThanWellFounded
<1>2. \E m \in T : \A k \in T : ~ (<<k, m>> \in OpToRel(<, Nat))
  BY <1>1, WFMin
<1>3. PICK m \in T : \A k \in T : ~ (<<k, m>> \in OpToRel(<, Nat))
  BY <1>2
<1>4. \A k \in T : m <= k
  <2>1. TAKE k \in T
  <2>2. ~(k < m) BY <1>3 DEF OpToRel
  <2> QED BY <2>2
<1> QED BY <1>4

\* A set that has 0, and with a number the next one, has all of them: the
\* rounds of a loop, the places of a sequence, the symbols along a chain.
LEMMA EveryNat ==
  ASSUME NEW S, 0 \in S, \A n \in Nat : n \in S => n + 1 \in S
  PROVE  Nat \subseteq S
<1>1. SUFFICES ASSUME {n \in Nat : n \notin S} # {} PROVE FALSE
  OBVIOUS
<1>2. PICK m \in {n \in Nat : n \notin S} : \A k \in {n \in Nat : n \notin S} : m <= k
  BY <1>1, LeastNat
<1>3. m # 0
  OBVIOUS
<1>4. m - 1 \in Nat /\ m - 1 \in S
  BY <1>2, <1>3
<1> QED BY <1>4

-----------------------------------------------------------------------------
(* Sequences. *)

IsSeq(s) == \E S : s \in Seq(S)

\* What is known of a sequence of whatever.
LEMMA SeqIs ==
  ASSUME NEW s, IsSeq(s)
  PROVE  /\ Len(s) \in Nat /\ DOMAIN s = 1 .. Len(s)
         /\ s # <<>> <=> Len(s) > 0
<1>1. PICK S : s \in Seq(S)
  BY DEF IsSeq
<1> QED BY <1>1

\* The empty sequence.
LEMMA SeqOfNone == IsSeq(<<>>) /\ Len(<<>>) = 0 /\ DOMAIN <<>> = {}
<1>1. <<>> \in Seq({}) /\ Len(<<>>) = 0 /\ 1 .. 0 = {}
  OBVIOUS
<1>2. IsSeq(<<>>)
  BY <1>1 DEF IsSeq
<1>3. DOMAIN <<>> = 1 .. Len(<<>>)
  BY <1>2, SeqIs
<1>4. DOMAIN <<>> = {}
  BY <1>1, <1>3, Zenon
<1> QED BY <1>1, <1>2, <1>4, Zenon

\* A sequence of one element.
LEMMA SeqOfOne == \A x : IsSeq(<<x>>) /\ Len(<<x>>) = 1 /\ <<x>>[1] = x
<1> TAKE x
<1>1. <<x>> \in Seq({x})
  OBVIOUS
<1> QED BY <1>1 DEF IsSeq

\* A sequence with an element at the end.
LEMMA SeqAppend ==
  ASSUME NEW s, IsSeq(s), NEW x
  PROVE  /\ IsSeq(Append(s, x)) /\ Len(Append(s, x)) = Len(s) + 1
         /\ \A i \in 1 .. Len(s) : Append(s, x)[i] = s[i]
         /\ Append(s, x)[Len(s) + 1] = x
<1>1. PICK S : s \in Seq(S)
  BY DEF IsSeq
<1>2. s \in Seq(S \cup {x})
  BY <1>1
<1> QED BY <1>2 DEF IsSeq

\* A sequence with an element in front.
LEMMA SeqPush ==
  ASSUME NEW s, IsSeq(s), NEW x
  PROVE  /\ IsSeq(<<x>> \o s) /\ Len(<<x>> \o s) = Len(s) + 1
         /\ (<<x>> \o s)[1] = x
         /\ \A i \in 1 .. Len(s) : (<<x>> \o s)[i + 1] = s[i]
<1>1. PICK S : s \in Seq(S)
  BY DEF IsSeq
<1>2. s \in Seq(S \cup {x}) /\ <<x>> \in Seq(S \cup {x})
  BY <1>1
<1> QED BY <1>2 DEF IsSeq

IsPushed(t, s, x) ==
  /\ IsSeq(t) /\ Len(t) = Len(s) + 1 /\ t[1] = x
  /\ \A i \in 1 .. Len(s) : t[i + 1] = s[i]
LEMMA SeqPushed ==
  ASSUME NEW s, IsSeq(s), NEW x, NEW t, t = <<x>> \o s
  PROVE  IsPushed(t, s, x)
<1>1. IsSeq(<<x>> \o s) /\ Len(<<x>> \o s) = Len(s) + 1
  BY SeqPush
<1>2. (<<x>> \o s)[1] = x
  BY SeqPush
<1>3. \A i \in 1 .. Len(s) : (<<x>> \o s)[i + 1] = s[i]
  BY SeqPush
<1> QED BY <1>1, <1>2, <1>3 DEF IsPushed

\* A sequence without its first element.
LEMMA SeqTail ==
  ASSUME NEW s, IsSeq(s), Len(s) > 0
  PROVE  /\ IsSeq(Tail(s)) /\ Len(Tail(s)) = Len(s) - 1 /\ Head(s) = s[1]
         /\ \A i \in 1 .. Len(s) - 1 : Tail(s)[i] = s[i + 1]
<1>1. PICK S : s \in Seq(S)
  BY DEF IsSeq
<1>2. s # <<>> /\ Len(s) \in Nat
  BY <1>1
<1> QED BY <1>1, <1>2 DEF IsSeq

\* Another top.
LEMMA SeqTop ==
  ASSUME NEW s, IsSeq(s), Len(s) > 0, NEW x
  PROVE  /\ IsSeq(<<x>> \o Tail(s)) /\ Len(<<x>> \o Tail(s)) = Len(s)
         /\ (<<x>> \o Tail(s))[1] = x
         /\ \A i \in 2 .. Len(s) : (<<x>> \o Tail(s))[i] = s[i]
<1>1. /\ IsSeq(Tail(s)) /\ Len(Tail(s)) = Len(s) - 1
      /\ \A i \in 1 .. Len(s) - 1 : Tail(s)[i] = s[i + 1]
  BY SeqTail
<1>2. /\ IsSeq(<<x>> \o Tail(s)) /\ Len(<<x>> \o Tail(s)) = Len(s)
      /\ (<<x>> \o Tail(s))[1] = x
      /\ \A i \in 1 .. Len(s) - 1 : (<<x>> \o Tail(s))[i + 1] = Tail(s)[i]
  BY <1>1, SeqPush, SeqIs
<1>3. ASSUME NEW i \in 2 .. Len(s) PROVE (<<x>> \o Tail(s))[i] = s[i]
  <2>1. i - 1 \in 1 .. Len(s) - 1 /\ (i - 1) + 1 = i
    BY SeqIs
  <2> QED BY <1>1, <1>2, <2>1
<1> QED BY <1>2, <1>3

\* A function on 1 .. n is a sequence.
LEMMA SeqFunction ==
  ASSUME NEW n \in Nat, NEW s, s = [i \in 1 .. n |-> s[i]]
  PROVE  IsSeq(s) /\ Len(s) = n
<1> DEFINE T == {s[i] : i \in 1 .. n}
<1>1. [i \in 1 .. n |-> s[i]] \in [1 .. n -> T]
  OBVIOUS
<1>2. s \in [1 .. n -> T]
  BY <1>1, Zenon
<1> HIDE DEF T
<1>3. s \in Seq(T) /\ Len(s) = n
  BY <1>2
<1> QED BY <1>3 DEF IsSeq

\* A sequence is the function of its elements.
LEMMA SeqMade ==
  ASSUME NEW s, IsSeq(s)
  PROVE  s = [i \in 1 .. Len(s) |-> s[i]]
<1>1. PICK S : s \in Seq(S)
  BY DEF IsSeq
<1>2. s \in [1 .. Len(s) -> S]
  BY <1>1
<1> QED BY <1>2

\* The same with another element.
LEMMA SeqExcept ==
  ASSUME NEW s, IsSeq(s), NEW n, NEW x
  PROVE  /\ IsSeq([s EXCEPT ![n] = x]) /\ Len([s EXCEPT ![n] = x]) = Len(s)
         /\ n \in 1 .. Len(s) => [s EXCEPT ![n] = x][n] = x
         /\ \A i \in 1 .. Len(s) : i # n => [s EXCEPT ![n] = x][i] = s[i]
<1>1. Len(s) \in Nat /\ DOMAIN s = 1 .. Len(s)
  BY SeqIs
<1>2. [s EXCEPT ![n] = x] = [i \in 1 .. Len(s) |-> [s EXCEPT ![n] = x][i]]
  BY <1>1
<1>3. IsSeq([s EXCEPT ![n] = x]) /\ Len([s EXCEPT ![n] = x]) = Len(s)
  BY <1>1, <1>2, SeqFunction
<1> QED BY <1>1, <1>3

\* The entries of the recursive function of Those.
IsKept(f, seq, S, n) ==
  f = [k \in 0 .. n |->
         IF k = 0 THEN <<>>
         ELSE IF seq[k] \in S THEN Append(f[k - 1], seq[k]) ELSE f[k - 1]]

\* The recursive function of Those, entry by entry.
LEMMA KeptIs ==
  ASSUME NEW f, NEW seq, NEW S, NEW n \in Nat
  PROVE  IsKept(f, seq, S, n) <=>
           /\ f = [k \in 0 .. n |-> f[k]] /\ f[0] = <<>>
           /\ \A k \in 1 .. n :
                f[k] = IF seq[k] \in S THEN Append(f[k - 1], seq[k]) ELSE f[k - 1]
<1> DEFINE E(k) == IF k = 0 THEN <<>>
                   ELSE IF seq[k] \in S THEN Append(f[k - 1], seq[k]) ELSE f[k - 1]
<1>1. IsKept(f, seq, S, n) <=> f = [k \in 0 .. n |-> E(k)]
  BY Zenon DEF IsKept
<1>2. E(0) = <<>> /\ 0 \in 0 .. n /\ \A k \in 1 .. n : k \in 0 .. n
  OBVIOUS
<1>3. \A k \in 1 .. n :
        E(k) = IF seq[k] \in S THEN Append(f[k - 1], seq[k]) ELSE f[k - 1]
  <2>1. \A k \in 1 .. n : k # 0
    OBVIOUS
  <2> QED BY <2>1, Zenon
<1>4. \A k \in 0 .. n : k = 0 \/ k \in 1 .. n
  OBVIOUS
<1> HIDE DEF E
<1>5. f = [k \in 0 .. n |-> E(k)] <=> f = [k \in 0 .. n |-> f[k]] /\ \A k \in 0 .. n : f[k] = E(k)
  OBVIOUS
<1> QED BY <1>1, <1>2, <1>3, <1>4, <1>5, Zenon

\* There is such a function, by induction on the length.
LEMMA KeptExist ==
  ASSUME NEW seq, NEW S
  PROVE  \A n \in Nat : \E f : IsKept(f, seq, S, n)
<1> DEFINE N == {n \in Nat : \E f : IsKept(f, seq, S, n)}
<1>1. 0 \in N
  <2>1. PICK f : f = [k \in 0 .. 0 |-> <<>>]
    OBVIOUS
  <2>2. f = [k \in 0 .. 0 |-> f[k]] /\ f[0] = <<>>
    BY <2>1
  <2>4. 0 \in Nat /\ \A k \in 1 .. 0 : FALSE
    OBVIOUS
  <2>5. \A k \in 1 .. 0 : f[k] = IF seq[k] \in S THEN Append(f[k - 1], seq[k]) ELSE f[k - 1]
    BY <2>4, Zenon
  <2>3. IsKept(f, seq, S, 0)
    BY <2>2, <2>4, <2>5, KeptIs, Zenon
  <2> QED BY <2>3
<1>2. ASSUME NEW n \in Nat, n \in N PROVE n + 1 \in N
  <2>1. PICK f : IsKept(f, seq, S, n)
    BY <1>2
  <2>2. /\ f = [k \in 0 .. n |-> f[k]] /\ f[0] = <<>>
        /\ \A k \in 1 .. n :
             f[k] = IF seq[k] \in S THEN Append(f[k - 1], seq[k]) ELSE f[k - 1]
    BY <2>1, KeptIs
  <2>3. PICK x : x = IF seq[n + 1] \in S THEN Append(f[n], seq[n + 1]) ELSE f[n]
    OBVIOUS
  <2>4. PICK h : h = [k \in 0 .. n + 1 |-> IF k = n + 1 THEN x ELSE f[k]]
    OBVIOUS
  <2>5. /\ h[n + 1] = x /\ \A k \in 0 .. n : h[k] = f[k]
        /\ h = [k \in 0 .. n + 1 |-> h[k]]
    BY <2>4
  <2>6. ASSUME NEW k \in 1 .. n + 1
        PROVE  h[k] = IF seq[k] \in S THEN Append(h[k - 1], seq[k]) ELSE h[k - 1]
    <3>1. CASE k = n + 1
      <4>1. h[k - 1] = f[n]
        BY <2>5, <3>1
      <4> QED BY <2>3, <2>5, <3>1, <4>1
    <3>2. CASE k # n + 1
      <4>1. k \in 1 .. n /\ k - 1 \in 0 .. n /\ k \in 0 .. n
        BY <3>2
      <4>2. h[k] = f[k] /\ h[k - 1] = f[k - 1]
        BY <2>5, <4>1
      <4> QED BY <2>2, <4>1, <4>2
    <3> QED BY <3>1, <3>2
  <2>7. h[0] = <<>>
    BY <2>2, <2>5
  <2>8. IsKept(h, seq, S, n + 1)
    <3>1. PICK m \in Nat : m = n + 1
      OBVIOUS
    <3>2. /\ h = [k \in 0 .. m |-> h[k]] /\ h[0] = <<>>
          /\ \A k \in 1 .. m :
               h[k] = IF seq[k] \in S THEN Append(h[k - 1], seq[k]) ELSE h[k - 1]
      BY <2>5, <2>6, <2>7, <3>1
    <3>3. IsKept(h, seq, S, m)
      BY <3>2, KeptIs
    <3> QED BY <3>1, <3>3
  <2> QED BY <2>8
<1> HIDE DEF N
<1>3. Nat \subseteq N
  BY <1>1, <1>2, EveryNat
<1> QED BY <1>3 DEF N

\* Those is its last entry.
LEMMA ThoseKept ==
  ASSUME NEW seq, NEW S, Len(seq) \in Nat
  PROVE  \E f : IsKept(f, seq, S, Len(seq)) /\ Those(seq, S) = f[Len(seq)]
<1> DEFINE kept == CHOOSE f : f = [k \in 0 .. Len(seq) |->
                     IF k = 0 THEN <<>>
                     ELSE IF seq[k] \in S THEN Append(f[k - 1], seq[k]) ELSE f[k - 1]]
<1>1. \E f : f = [k \in 0 .. Len(seq) |->
                     IF k = 0 THEN <<>>
                     ELSE IF seq[k] \in S THEN Append(f[k - 1], seq[k]) ELSE f[k - 1]]
  <2>1. PICK f : IsKept(f, seq, S, Len(seq))
    BY KeptExist
  <2> QED BY <2>1, Zenon DEF IsKept
<1>2. kept = [k \in 0 .. Len(seq) |->
                     IF k = 0 THEN <<>>
                     ELSE IF seq[k] \in S THEN Append(kept[k - 1], seq[k]) ELSE kept[k - 1]]
  BY <1>1, Zenon
<1>3. Those(seq, S) = kept[Len(seq)]
  BY Zenon DEF Those
<1> QED BY <1>2, <1>3, Zenon DEF IsKept

\* Where in seq the elements of r are: those of the first n that are in S, in their order.
PlacesOf(p, r, seq, S, n) ==
  /\ IsSeq(r) /\ p \in [1 .. Len(r) -> 1 .. n]
  /\ \A j \in 1 .. Len(r) : r[j] = seq[p[j]] /\ r[j] \in S
  /\ \A i, j \in 1 .. Len(r) : i < j => p[i] < p[j]
  /\ \A i \in 1 .. n : seq[i] \in S => \E j \in 1 .. Len(r) : p[j] = i

LEMMA PlacesGrow ==
  ASSUME NEW n \in Nat, NEW p, NEW r, NEW seq, NEW S, PlacesOf(p, r, seq, S, n),
         NEW h, h = IF seq[n + 1] \in S THEN Append(r, seq[n + 1]) ELSE r
  PROVE  \E q : PlacesOf(q, h, seq, S, n + 1)
<1>1. /\ IsSeq(r) /\ Len(r) \in Nat /\ p \in [1 .. Len(r) -> 1 .. n]
      /\ \A j \in 1 .. Len(r) : r[j] = seq[p[j]] /\ r[j] \in S
      /\ \A i, j \in 1 .. Len(r) : i < j => p[i] < p[j]
      /\ \A i \in 1 .. n : seq[i] \in S => \E j \in 1 .. Len(r) : p[j] = i
  BY SeqIs DEF PlacesOf
<1>2. CASE seq[n + 1] \notin S
  <2>1. h = r
    BY <1>2
  <2>2. p \in [1 .. Len(r) -> 1 .. n + 1]
    BY <1>1
  <2>3. \A i \in 1 .. n + 1 : seq[i] \in S => \E j \in 1 .. Len(r) : p[j] = i
    BY <1>1, <1>2
  <2>4. PlacesOf(p, h, seq, S, n + 1)
    BY <1>1, <2>1, <2>2, <2>3 DEF PlacesOf
  <2> QED BY <2>4
<1>3. CASE seq[n + 1] \in S
  <2>1. PICK x : x = seq[n + 1]
    OBVIOUS
  <2>2. PICK l \in Nat : l = Len(r)
    BY <1>1
  <2>3. /\ IsSeq(h) /\ Len(h) = l + 1 /\ h[l + 1] = x
        /\ \A i \in 1 .. l : h[i] = r[i]
    BY <1>1, <1>3, <2>1, <2>2, SeqAppend
  <2>4. PICK q : q = [j \in 1 .. l + 1 |-> IF j = l + 1 THEN n + 1 ELSE p[j]]
    OBVIOUS
  <2>5. q[l + 1] = n + 1 /\ \A j \in 1 .. l : q[j] = p[j] /\ p[j] \in 1 .. n
    BY <1>1, <2>2, <2>4
  <2>6. q \in [1 .. l + 1 -> 1 .. n + 1]
    BY <1>1, <2>2, <2>4
  <2>7. ASSUME NEW j \in 1 .. l + 1 PROVE h[j] = seq[q[j]] /\ h[j] \in S
    <3>1. CASE j = l + 1
      BY <1>3, <2>1, <2>3, <2>5, <3>1
    <3>2. CASE j \in 1 .. l
      <4>1. r[j] = seq[p[j]] /\ r[j] \in S
        BY <1>1, <2>2, <3>2
      <4>2. h[j] = r[j] /\ q[j] = p[j]
        BY <2>3, <2>5, <3>2
      <4> QED BY <4>1, <4>2
    <3>3. j = l + 1 \/ j \in 1 .. l
      BY <2>2
    <3> QED BY <3>1, <3>2, <3>3, Zenon
  <2>8. ASSUME NEW i \in 1 .. l + 1, NEW j \in 1 .. l + 1, i < j PROVE q[i] < q[j]
    <3>1. i \in 1 .. l /\ q[i] = p[i] /\ p[i] \in 1 .. n
      BY <2>2, <2>5, <2>8
    <3>2. CASE j = l + 1
      BY <2>5, <3>1, <3>2
    <3>3. CASE j \in 1 .. l
      <4>1. p[i] < p[j] /\ q[j] = p[j]
        BY <1>1, <2>2, <2>5, <2>8, <3>1, <3>3
      <4> QED BY <3>1, <4>1
    <3>4. j = l + 1 \/ j \in 1 .. l
      BY <2>2
    <3> QED BY <3>2, <3>3, <3>4, Zenon
  <2>9. ASSUME NEW i \in 1 .. n + 1, seq[i] \in S PROVE \E j \in 1 .. l + 1 : q[j] = i
    <3>1. CASE i = n + 1
      BY <2>5, <3>1
    <3>2. CASE i \in 1 .. n
      <4>1. PICK j \in 1 .. l : p[j] = i
        BY <1>1, <2>2, <2>9, <3>2
      <4>2. q[j] = i /\ j \in 1 .. l + 1
        BY <2>5, <4>1
      <4> QED BY <4>2
    <3> QED BY <3>1, <3>2
  <2>10. PlacesOf(q, h, seq, S, n + 1)
    BY <2>3, <2>6, <2>7, <2>8, <2>9 DEF PlacesOf
  <2> QED BY <2>10
<1> QED BY <1>2, <1>3

\* Those are the elements that are in the set, in their order.
LEMMA ThosePlaced ==
  ASSUME NEW seq, IsSeq(seq), NEW S, NEW r, r = Those(seq, S)
  PROVE  \E p : PlacesOf(p, r, seq, S, Len(seq))
<1>1. Len(seq) \in Nat
  BY SeqIs
<1>2. PICK kept : IsKept(kept, seq, S, Len(seq)) /\ r = kept[Len(seq)]
  BY <1>1, ThoseKept
<1>3. /\ kept[0] = <<>>
      /\ \A k \in 1 .. Len(seq) :
           kept[k] = IF seq[k] \in S THEN Append(kept[k - 1], seq[k]) ELSE kept[k - 1]
  BY <1>1, <1>2, KeptIs
<1> DEFINE M == {k \in Nat : k <= Len(seq) => \E p : PlacesOf(p, kept[k], seq, S, k)}
<1>4. 0 \in M
  <2>1. PICK none : none = kept[0]
    OBVIOUS
  <2>2. IsSeq(none) /\ Len(none) = 0
    BY <1>3, <2>1, SeqOfNone
  <2>3. PICK p : p = [j \in 1 .. 0 |-> 0]
    OBVIOUS
  <2>4. 1 .. 0 = {}
    OBVIOUS
  <2>5. p \in [1 .. 0 -> 1 .. 0]
    BY <2>3, <2>4
  <2>6. PlacesOf(p, none, seq, S, 0)
    BY <2>2, <2>4, <2>5, Zenon DEF PlacesOf
  <2> QED BY <2>1, <2>6
<1>5. ASSUME NEW n \in Nat, n \in M PROVE n + 1 \in M
  <2> SUFFICES ASSUME n + 1 <= Len(seq) PROVE \E p : PlacesOf(p, kept[n + 1], seq, S, n + 1)
    OBVIOUS
  <2>1. n <= Len(seq) /\ n + 1 \in 1 .. Len(seq) /\ (n + 1) - 1 = n
    BY <1>1
  <2>2. PICK p : PlacesOf(p, kept[n], seq, S, n)
    BY <1>5, <2>1
  <2>3. kept[n + 1] = IF seq[n + 1] \in S THEN Append(kept[n], seq[n + 1]) ELSE kept[n]
    BY <1>3, <2>1
  <2> QED BY <2>2, <2>3, PlacesGrow
<1> HIDE DEF M
<1>6. Nat \subseteq M
  BY <1>4, <1>5, EveryNat
<1>7. Len(seq) \in M
  BY <1>1, <1>6
<1>8. \E p : PlacesOf(p, kept[Len(seq)], seq, S, Len(seq))
  BY <1>1, <1>7 DEF M
<1> QED BY <1>2, <1>8

\* Those are the elements that are in the set.
AreThose(r, seq, S) ==
  /\ IsSeq(r)
  /\ \A j \in 1 .. Len(r) : r[j] \in S /\ \E i \in 1 .. Len(seq) : r[j] = seq[i]
  /\ \A i \in 1 .. Len(seq) : seq[i] \in S => \E j \in 1 .. Len(r) : r[j] = seq[i]
LEMMA ThoseAre ==
  ASSUME NEW seq, IsSeq(seq), NEW S, NEW r, r = Those(seq, S)
  PROVE  AreThose(r, seq, S)
<1>1. PICK p : PlacesOf(p, r, seq, S, Len(seq))
  BY ThosePlaced
<1>2. /\ IsSeq(r) /\ p \in [1 .. Len(r) -> 1 .. Len(seq)]
      /\ \A j \in 1 .. Len(r) : r[j] = seq[p[j]] /\ r[j] \in S
      /\ \A i \in 1 .. Len(seq) : seq[i] \in S => \E j \in 1 .. Len(r) : p[j] = i
  BY <1>1 DEF PlacesOf
<1>3. \A j \in 1 .. Len(r) : p[j] \in 1 .. Len(seq)
  BY <1>2
<1>4. ASSUME NEW j \in 1 .. Len(r)
      PROVE  r[j] \in S /\ \E i \in 1 .. Len(seq) : r[j] = seq[i]
  BY <1>2, <1>3
<1>5. ASSUME NEW i \in 1 .. Len(seq), seq[i] \in S
      PROVE  \E j \in 1 .. Len(r) : r[j] = seq[i]
  <2>1. PICK j \in 1 .. Len(r) : p[j] = i
    BY <1>2, <1>5
  <2> QED BY <1>2, <2>1
<1> QED BY <1>2, <1>4, <1>5 DEF AreThose

\* Those keeps the elements of seq that are in S, and only these.
LEMMA ThoseIs ==
  ASSUME NEW seq, IsSeq(seq), NEW S, NEW r, r = Those(seq, S)
  PROVE  /\ IsSeq(r)
         /\ \A j \in 1 .. Len(r) : r[j] \in S /\ \E i \in 1 .. Len(seq) : r[j] = seq[i]
         /\ \A i \in 1 .. Len(seq) : seq[i] \in S => \E j \in 1 .. Len(r) : r[j] = seq[i]
BY ThoseAre DEF AreThose

-----------------------------------------------------------------------------
(* The grammar file, acts.c. *)

NT(k) == MINNONTERM .. MINNONTERM + k - 1
Vocabulary(k) == (1 .. Len(terms)) \cup NT(k) \cup {x \in Nat : x >= MINACT}

IsProduction(p, k) ==
  /\ DOMAIN p = {"lhs", "rhs", "prec"}
  /\ p.lhs \in NT(k) /\ IsSeq(p.rhs) /\ Len(p.rhs) <= MAXRHS
  /\ \A i \in 1 .. Len(p.rhs) : p.rhs[i] \in Vocabulary(k)
IsOpen(o, k, n) ==
  /\ DOMAIN o = {"lhs", "rhs"}
  /\ o.lhs \in NT(k) \cup {NONE} /\ o.rhs \in (1 .. n) \cup {NONE}

\* Actions are numbered from MINACT, and every right-hand side on the stack is one of the
\* left-hand side it stands by.
ActsBelow(p, a) == \A i \in 1 .. Len(p.rhs) : ISACT(p.rhs[i]) => p.rhs[i] < MINACT + a
WithinLimits(g) ==
  /\ Len(g.prods) <= MAXPROD /\ g.nerrors \in Nat
  /\ \A n \in 1 .. Len(g.prods) : ActsBelow(g.prods[n], g.acts)
  /\ \A i \in 1 .. Len(g.sp) :
       g.sp[i].rhs # NONE => g.prods[g.sp[i].rhs].lhs = g.sp[i].lhs

\* The productions are made of symbols there are, the first is one of the goal, and the
\* stack leads to productions.
WellBuilt(g) ==
  /\ DOMAIN g = {"nonterms", "acts", "prods", "sp", "goal", "nerrors", "fatal"}
  /\ IsSeq(g.nonterms) /\ Len(g.nonterms) <= MINACT - MINNONTERM /\ g.acts \in Nat
  /\ IsSeq(g.prods)
  /\ \A n \in 1 .. Len(g.prods) : IsProduction(g.prods[n], Len(g.nonterms))
  /\ IsSeq(g.sp) /\ Len(g.sp) > 0
  /\ \A i \in 1 .. Len(g.sp) : IsOpen(g.sp[i], Len(g.nonterms), Len(g.prods))
  /\ g.goal \in NT(Len(g.nonterms)) \cup {NONE}
  /\ Len(g.prods) = 0 => Len(g.sp) = 1 /\ g.sp[1].lhs = g.goal
  /\ Len(g.prods) > 0 => g.prods[1].lhs = g.goal
  /\ WithinLimits(g)

\* Every right-hand side on the stack is there.
InRhs(g) == \A i \in 1 .. Len(g.sp) : g.sp[i].rhs # NONE

\* The tokens of a file have numbers below those of the nonterminals.
LEMMA TermsCount == file \in Files => Len(terms) \in 0 .. MINNONTERM - 2
BY NumbersAssumption DEF terms

\* A nonempty set of natural numbers has a least one, Min.
LEMMA MinIs ==
  ASSUME NEW S, S \subseteq Nat, S # {}
  PROVE  Min(S) \in S /\ \A x \in S : Min(S) <= x
<1>1. PICK m \in S : \A x \in S : m <= x
  BY LeastNat
<1> QED BY <1>1, Zenon DEF Min

\* A name that is found is that of a symbol.
LEMMA FoundSymbol ==
  ASSUME file \in Files, NEW g, IsSeq(g.nonterms), NEW name, Lookup(g, name) # {}
  PROVE  Min(Lookup(g, name)) \in (1 .. Len(terms)) \cup NT(Len(g.nonterms))
<1>1. Len(terms) \in 0 .. MINNONTERM - 2 /\ Len(g.nonterms) \in Nat
  BY TermsCount, SeqIs
<1>2. Lookup(g, name) \subseteq (1 .. Len(terms)) \cup NT(Len(g.nonterms))
  <2> SUFFICES ASSUME NEW v \in Lookup(g, name)
               PROVE  v \in (1 .. Len(terms)) \cup NT(Len(g.nonterms))
    OBVIOUS
  <2>1. CASE v \in {i \in 1 .. Len(terms) : terms[i] = name}
    BY <2>1
  <2>2. CASE v \in {Val(i) : i \in {j \in 1 .. Len(g.nonterms) : g.nonterms[j].name = name}}
    <3>1. PICK i \in 1 .. Len(g.nonterms) : v = Val(i)
      BY <2>2
    <3>2. v = MINNONTERM - 1 + i
      BY <3>1 DEF Val
    <3> QED BY <1>1, <3>2, NumbersAssumption DEF NT
  <2> QED BY <2>1, <2>2 DEF Lookup
<1>3. Lookup(g, name) \subseteq Nat
  BY <1>1, <1>2, NumbersAssumption DEF NT
<1> QED BY <1>2, <1>3, MinIs

\* More nonterminals, and more productions, are not in the way.
LEMMA StillWell ==
  ASSUME NEW k \in Nat, NEW k1 \in Nat, k <= k1, NEW n \in Nat, NEW n1 \in Nat, n <= n1
  PROVE  /\ NT(k) \subseteq NT(k1) /\ Vocabulary(k) \subseteq Vocabulary(k1)
         /\ \A p : IsProduction(p, k) => IsProduction(p, k1)
         /\ \A o : IsOpen(o, k, n) => IsOpen(o, k1, n1)
<1>1. NT(k) \subseteq NT(k1)
  BY NumbersAssumption DEF NT
<1>2. Vocabulary(k) \subseteq Vocabulary(k1)
  BY <1>1 DEF Vocabulary
<1>3. 1 .. n \subseteq 1 .. n1
  OBVIOUS
<1> QED BY <1>1, <1>2, <1>3, Zenon DEF IsProduction, IsOpen

\* What makes h well built when it has grown out of g by nonterminals alone.
LEMMA WellGrown ==
  ASSUME NEW g, WellBuilt(g), NEW h, DOMAIN h = DOMAIN g,
         IsSeq(h.nonterms), Len(h.nonterms) >= Len(g.nonterms),
         Len(h.nonterms) <= MINACT - MINNONTERM,
         h.prods = g.prods, h.acts = g.acts, h.sp = g.sp, h.goal = g.goal,
         h.nerrors \in Nat
  PROVE  WellBuilt(h)
<1>1. /\ Len(g.nonterms) \in Nat /\ Len(h.nonterms) \in Nat
      /\ Len(g.prods) \in Nat
  BY SeqIs DEF WellBuilt
<1>2. PICK k \in Nat : k = Len(g.nonterms)
  BY <1>1
<1>3. PICK k1 \in Nat : k1 = Len(h.nonterms)
  BY <1>1
<1>4. PICK n \in Nat : n = Len(g.prods)
  BY <1>1
<1>5. k <= k1
  BY <1>2, <1>3
<1>6. /\ NT(k) \subseteq NT(k1)
      /\ \A p : IsProduction(p, k) => IsProduction(p, k1)
      /\ \A o : IsOpen(o, k, n) => IsOpen(o, k1, n)
  BY <1>5, StillWell
<1>7. \A m \in 1 .. n : IsProduction(g.prods[m], k1)
  BY <1>2, <1>4, <1>6 DEF WellBuilt
<1>8. \A i \in 1 .. Len(g.sp) : IsOpen(g.sp[i], k1, n)
  BY <1>2, <1>4, <1>6 DEF WellBuilt
<1>9. g.goal \in NT(k1) \cup {NONE}
  BY <1>2, <1>6 DEF WellBuilt
<1>10. WithinLimits(h)
  BY DEF WellBuilt, WithinLimits
<1> QED BY <1>3, <1>4, <1>7, <1>8, <1>9, <1>10 DEF WellBuilt

\* A left-hand side on top of the stack, the goal if there was none.
LEMMA WellTopped ==
  ASSUME NEW g, WellBuilt(g), NEW h, DOMAIN h = DOMAIN g, NEW v \in NT(Len(g.nonterms)),
         IsSeq(h.nonterms), Len(h.nonterms) = Len(g.nonterms),
         h.prods = g.prods, h.acts = g.acts, h.nerrors \in Nat,
         h.sp = <<[lhs |-> v, rhs |-> NONE]>> \o Tail(g.sp),
         h.goal = IF g.goal = NONE THEN v ELSE g.goal,
         Len(g.prods) = 0 => g.goal = NONE
  PROVE  /\ WellBuilt(h) /\ Len(h.sp) = Len(g.sp) /\ h.sp[1].lhs = v
         /\ \A i \in 2 .. Len(g.sp) : h.sp[i] = g.sp[i]
<1>1. /\ Len(g.nonterms) \in Nat /\ Len(g.prods) \in Nat /\ Len(g.sp) \in Nat
      /\ Len(g.sp) > 0 /\ IsSeq(g.sp)
  BY SeqIs DEF WellBuilt
<1>2. /\ IsSeq(h.sp) /\ Len(h.sp) = Len(g.sp) /\ h.sp[1] = [lhs |-> v, rhs |-> NONE]
      /\ \A i \in 2 .. Len(g.sp) : h.sp[i] = g.sp[i]
  BY <1>1, SeqTop
<1>3. v # NONE
  BY <1>1, NumbersAssumption DEF NT, NONE
<1>4. h.goal \in NT(Len(h.nonterms)) \cup {NONE}
  BY DEF WellBuilt
<1>5. \A i \in 1 .. Len(h.sp) : IsOpen(h.sp[i], Len(h.nonterms), Len(h.prods))
  <2> TAKE i \in 1 .. Len(h.sp)
  <2>1. CASE i = 1
    BY <1>2, <2>1 DEF IsOpen
  <2>2. CASE i # 1
    <3>1. i \in 2 .. Len(g.sp)
      BY <1>1, <1>2, <2>2
    <3>2. IsOpen(g.sp[i], Len(g.nonterms), Len(g.prods))
      BY <1>1, <3>1 DEF WellBuilt
    <3> QED BY <1>2, <3>1, <3>2
  <2> QED BY <2>1, <2>2
<1>6. Len(h.prods) > 0 => h.prods[1].lhs = h.goal
  <2> SUFFICES ASSUME Len(g.prods) > 0 PROVE g.prods[1].lhs = h.goal
    OBVIOUS
  <2>1. g.prods[1].lhs = g.goal /\ IsProduction(g.prods[1], Len(g.nonterms))
    BY <1>1 DEF WellBuilt
  <2>2. g.goal \in NT(Len(g.nonterms))
    BY <2>1 DEF IsProduction
  <2>3. g.goal # NONE
    BY <1>1, <2>2, NumbersAssumption DEF NT, NONE
  <2> QED BY <2>1, <2>3
<1>7. Len(h.prods) = 0 => Len(h.sp) = 1 /\ h.sp[1].lhs = h.goal
  BY <1>2 DEF WellBuilt
<1>8. /\ IsSeq(h.prods) /\ \A m \in 1 .. Len(h.prods) : IsProduction(h.prods[m], Len(h.nonterms))
      /\ Len(h.nonterms) <= MINACT - MINNONTERM /\ h.acts \in Nat
      /\ DOMAIN h = {"nonterms", "acts", "prods", "sp", "goal", "nerrors", "fatal"}
  BY DEF WellBuilt
<1>9. WithinLimits(h)
  <2>1. WithinLimits(g)
    BY DEF WellBuilt
  <2>2. ASSUME NEW i \in 1 .. Len(h.sp), h.sp[i].rhs # NONE
        PROVE  h.prods[h.sp[i].rhs].lhs = h.sp[i].lhs
    <3>1. i \in 2 .. Len(g.sp)
      BY <1>1, <1>2, <2>2
    <3> QED BY <1>2, <2>1, <2>2, <3>1 DEF WithinLimits
  <2> QED BY <2>1, <2>2 DEF WithinLimits
<1> QED BY <1>1, <1>2, <1>4, <1>5, <1>6, <1>7, <1>8, <1>9 DEF WellBuilt

\* An error that ends the program leaves what has been built.
LEMMA FatalAlone ==
  ASSUME NEW g, WellBuilt(g)
  PROVE  WellBuilt([g EXCEPT !.fatal = TRUE])
<1>1. PICK h : h = [g EXCEPT !.fatal = TRUE]
  OBVIOUS
<1>2. /\ DOMAIN g = {"nonterms", "acts", "prods", "sp", "goal", "nerrors", "fatal"}
      /\ g.nerrors \in Nat /\ IsSeq(g.nonterms) /\ Len(g.nonterms) \in Nat
      /\ Len(g.nonterms) <= MINACT - MINNONTERM
  BY SeqIs DEF WellBuilt, WithinLimits
<1>3. /\ DOMAIN h = DOMAIN g /\ h.nonterms = g.nonterms /\ h.prods = g.prods
      /\ h.acts = g.acts /\ h.sp = g.sp /\ h.goal = g.goal /\ h.nerrors = g.nerrors
  BY <1>1, <1>2
<1>4. WellBuilt(h)
  BY <1>2, <1>3, WellGrown
<1> QED BY <1>1, <1>4

TopKept(g, h) ==
  /\ WellBuilt(h) /\ h.prods = g.prods /\ Len(h.sp) = Len(g.sp)
  /\ \A i \in 2 .. Len(g.sp) : h.sp[i] = g.sp[i]
TopSame(g, h, name) ==
  h.sp = g.sp /\ h.goal = g.goal /\ (Lookup(g, name) = {} => Lookup(h, name) # {})

\* new_nonterm() finds the nonterminal or makes it, and puts it on top if asked to.
LEMMA NonterminalMade ==
  ASSUME file \in Files, NEW g, WellBuilt(g), ~g.fatal, NEW name, NEW is_lhs \in BOOLEAN,
         Len(g.prods) # 0 \/ g.goal = NONE \/ ~is_lhs,
         NEW h, h = new_nonterm(g, name, is_lhs), ~h.fatal
  PROVE  TopKept(g, h) /\ (~is_lhs => TopSame(g, h, name))
<1> DEFINE found == Lookup(g, name)
           new == Append(g.nonterms, [name |-> name, set |-> FALSE])
           m == IF found = {} THEN [g EXCEPT !.nonterms = new] ELSE g
           val == IF found = {} THEN Val(Len(new)) ELSE Min(found)
<1>1. /\ Len(g.nonterms) \in Nat /\ Len(terms) \in 0 .. MINNONTERM - 2
      /\ IsSeq(new) /\ Len(new) = Len(g.nonterms) + 1
      /\ new[Len(g.nonterms) + 1] = [name |-> name, set |-> FALSE]
      /\ IsSeq(g.nonterms) /\ Len(g.nonterms) <= MINACT - MINNONTERM
      /\ DOMAIN g = {"nonterms", "acts", "prods", "sp", "goal", "nerrors", "fatal"}
      /\ g.nerrors \in Nat
  BY SeqIs, SeqAppend, TermsCount DEF WellBuilt, WithinLimits
<1>2. h = IF ISTERM(val) THEN [g EXCEPT !.nerrors = @ + 1]
          ELSE IF val = MINACT THEN [g EXCEPT !.fatal = TRUE]
          ELSE IF ~is_lhs THEN m
          ELSE [m EXCEPT !.nonterms[val - MINNONTERM + 1].set = TRUE,
                         !.goal = IF @ = NONE THEN val ELSE @,
                         !.sp = <<[lhs |-> val, rhs |-> NONE]>> \o Tail(@)]
  BY DEF new_nonterm
<1>3. found # {} => val \in (1 .. Len(terms)) \cup NT(Len(g.nonterms))
  BY <1>1, FoundSymbol
<1>4. found = {} => val = MINNONTERM + Len(g.nonterms) /\ ~ISTERM(val)
  BY <1>1, NumbersAssumption DEF Val, ISTERM
<1> HIDE DEF found, new, m, val
<1>5. CASE ISTERM(val)
  <2>1. h = [g EXCEPT !.nerrors = @ + 1] /\ found # {}
    BY <1>2, <1>4, <1>5
  <2>2. /\ DOMAIN h = DOMAIN g /\ h.nonterms = g.nonterms /\ h.prods = g.prods
        /\ h.acts = g.acts /\ h.sp = g.sp /\ h.goal = g.goal /\ h.nerrors \in Nat
    BY <1>1, <2>1
  <2>3. WellBuilt(h)
    BY <1>1, <2>2, WellGrown
  <2> QED BY <2>1, <2>2, <2>3 DEF found, TopKept, TopSame
<1>6. CASE ~ISTERM(val) /\ val = MINACT
  BY <1>1, <1>2, <1>6
<1>7. CASE ~ISTERM(val) /\ val # MINACT
  <2>1. h = IF ~is_lhs THEN m
          ELSE [m EXCEPT !.nonterms[val - MINNONTERM + 1].set = TRUE,
                         !.goal = IF @ = NONE THEN val ELSE @,
                         !.sp = <<[lhs |-> val, rhs |-> NONE]>> \o Tail(@)]
    BY <1>2, <1>7
  <2>2. /\ DOMAIN m = DOMAIN g /\ m.prods = g.prods /\ m.acts = g.acts /\ m.sp = g.sp
        /\ m.goal = g.goal /\ IsSeq(m.nonterms) /\ Len(m.nonterms) >= Len(g.nonterms)
        /\ Len(m.nonterms) <= MINACT - MINNONTERM /\ val \in NT(Len(m.nonterms))
        /\ m.nerrors \in Nat
    <3>1. CASE found = {}
      <4>1. m = [g EXCEPT !.nonterms = new]
        BY <3>1 DEF m
      <4>2. val = MINNONTERM + Len(g.nonterms)
        BY <1>4, <3>1
      <4>3. Len(g.nonterms) + 1 <= MINACT - MINNONTERM
        BY <1>1, <1>7, <4>2, NumbersAssumption
      <4>4. m.nonterms = new
        BY <1>1, <4>1
      <4>5. val \in NT(Len(new))
        BY <1>1, <4>2, NumbersAssumption DEF NT
      <4> QED BY <1>1, <4>1, <4>3, <4>4, <4>5
    <3>2. CASE found # {}
      <4>1. m = g
        BY <3>2 DEF m
      <4>2. val \in NT(Len(g.nonterms))
        BY <1>3, <1>7, <3>2 DEF ISTERM
      <4> QED BY <1>1, <4>1, <4>2
    <3> QED BY <3>1, <3>2
  <2>3. WellBuilt(m)
    BY <2>2, WellGrown
  <2>4. CASE ~is_lhs
    <3>1. h = m
      BY <2>1, <2>4
    <3>2. ASSUME found = {} PROVE Lookup(h, name) # {}
      <4>1. h.nonterms = new
        BY <1>1, <3>1, <3>2 DEF m
      <4>2. Len(new) \in 1 .. Len(h.nonterms) /\ h.nonterms[Len(new)].name = name
        BY <1>1, <4>1
      <4>3. Val(Len(new)) \in Lookup(h, name)
        BY <4>2 DEF Lookup
      <4> QED BY <4>3
    <3> QED BY <2>2, <2>3, <2>4, <3>1, <3>2 DEF found, TopKept, TopSame
  <2>5. CASE is_lhs
    <3>1. h = [m EXCEPT !.nonterms[val - MINNONTERM + 1].set = TRUE,
                        !.goal = IF @ = NONE THEN val ELSE @,
                        !.sp = <<[lhs |-> val, rhs |-> NONE]>> \o Tail(@)]
      BY <2>1, <2>5
    <3>2. h.nonterms = [i \in DOMAIN m.nonterms |-> h.nonterms[i]]
      BY <1>1, <2>2, <3>1
    <3>3. IsSeq(h.nonterms) /\ Len(h.nonterms) = Len(m.nonterms)
      <4>1. Len(m.nonterms) \in Nat /\ DOMAIN m.nonterms = 1 .. Len(m.nonterms)
        BY <2>2, SeqIs
      <4> QED BY <3>2, <4>1, SeqFunction
    <3>4. /\ DOMAIN h = DOMAIN m /\ h.prods = m.prods /\ h.acts = m.acts /\ h.nerrors \in Nat
          /\ h.goal = (IF m.goal = NONE THEN val ELSE m.goal)
          /\ h.sp = <<[lhs |-> val, rhs |-> NONE]>> \o Tail(m.sp)
      BY <1>1, <2>2, <3>1
    <3>5. Len(m.prods) = 0 => m.goal = NONE
      BY <2>2, <2>5
    <3>6. /\ WellBuilt(h) /\ Len(h.sp) = Len(m.sp)
          /\ \A i \in 2 .. Len(m.sp) : h.sp[i] = m.sp[i]
      BY <2>2, <2>3, <3>3, <3>4, <3>5, WellTopped
    <3> QED BY <2>2, <2>5, <3>4, <3>6 DEF TopKept
  <2> QED BY <2>4, <2>5
<1> QED BY <1>5, <1>6, <1>7

\* The top of Statck gets the right-hand side that is made for it (new_rhs()).
LEMMA TopMade ==
  ASSUME file \in Files, NEW g, WellBuilt(g), ~g.fatal, NEW name,
         Len(g.prods) # 0 \/ g.goal = NONE,
         NEW h, h = new_nonterm(g, name, TRUE), ~h.fatal
  PROVE  TopKept(g, h)
<1>1. ASSUME NEW v \in BOOLEAN, v = TRUE PROVE TopKept(g, h)
  <2>1. h = new_nonterm(g, name, v)
    BY <1>1, Zenon
  <2>2. Len(g.prods) # 0 \/ g.goal = NONE \/ ~v
    OBVIOUS
  <2> QED BY <2>1, <2>2, NonterminalMade
<1> QED BY <1>1, Zenon

\* A right-hand side begins, of the left-hand side on top of the stack.
LEMMA RhsMade ==
  ASSUME NEW g, WellBuilt(g), ~g.fatal, NEW h, h = new_rhs(g), ~h.fatal
  PROVE  /\ WellBuilt(h) /\ h.nonterms = g.nonterms /\ Len(h.sp) = Len(g.sp)
         /\ Len(h.prods) = Len(g.prods) + 1 /\ h.sp[1].rhs = Len(h.prods)
         /\ h.sp[1].lhs # NONE
         /\ \A i \in 2 .. Len(g.sp) : h.sp[i] = g.sp[i]
<1> DEFINE p == [lhs |-> Head(g.sp).lhs, rhs |-> <<>>, prec |-> 0]
           t == [Head(g.sp) EXCEPT !.rhs = Len(g.prods) + 1]
<1>1. /\ Len(g.nonterms) \in Nat /\ Len(g.prods) \in Nat /\ Len(g.sp) \in Nat
      /\ IsSeq(g.prods) /\ IsSeq(g.sp) /\ Len(g.sp) > 0 /\ Head(g.sp) = g.sp[1]
      /\ DOMAIN g = {"nonterms", "acts", "prods", "sp", "goal", "nerrors", "fatal"}
  BY SeqIs, SeqTail DEF WellBuilt
<1>2. /\ h = [g EXCEPT !.prods = Append(g.prods, p), !.sp = <<t>> \o Tail(g.sp)]
      /\ Head(g.sp).lhs # NONE
  <2>1. CASE Len(g.prods) >= MAXPROD \/ Head(g.sp).lhs = NONE
    BY <1>1, <2>1 DEF new_rhs
  <2>2. CASE ~(Len(g.prods) >= MAXPROD \/ Head(g.sp).lhs = NONE)
    BY <2>2 DEF new_rhs
  <2> QED BY <2>1, <2>2
<1>15. ~(Len(g.prods) >= MAXPROD)
  BY <1>1 DEF new_rhs
<1>3. IsOpen(g.sp[1], Len(g.nonterms), Len(g.prods))
  BY <1>1 DEF WellBuilt
<1>4. /\ DOMAIN t = {"lhs", "rhs"} /\ t.lhs = g.sp[1].lhs /\ t.rhs = Len(g.prods) + 1
      /\ t.lhs \in NT(Len(g.nonterms))
  BY <1>1, <1>2, <1>3 DEF IsOpen
<1>5. IsProduction(p, Len(g.nonterms)) /\ p.lhs = t.lhs
  <2>1. IsSeq(<<>>) /\ Len(<<>>) = 0
    <3>1. <<>> \in Seq({})
      OBVIOUS
    <3> QED BY <3>1 DEF IsSeq
  <2> QED BY <1>1, <1>4, <2>1, NumbersAssumption DEF IsProduction
<1> HIDE DEF p, t
<1>6. /\ DOMAIN h = DOMAIN g /\ h.nonterms = g.nonterms /\ h.acts = g.acts
      /\ h.goal = g.goal /\ h.prods = Append(g.prods, p) /\ h.sp = <<t>> \o Tail(g.sp)
  BY <1>1, <1>2
<1>7. /\ IsSeq(h.prods) /\ Len(h.prods) = Len(g.prods) + 1
      /\ \A i \in 1 .. Len(g.prods) : h.prods[i] = g.prods[i]
      /\ h.prods[Len(g.prods) + 1] = p
  BY <1>1, <1>6, SeqAppend
<1>8. /\ IsSeq(h.sp) /\ Len(h.sp) = Len(g.sp) /\ h.sp[1] = t
      /\ \A i \in 2 .. Len(g.sp) : h.sp[i] = g.sp[i]
  BY <1>1, <1>6, SeqTop
<1>9. \A i \in 1 .. Len(h.prods) : IsProduction(h.prods[i], Len(h.nonterms))
  <2> TAKE i \in 1 .. Len(h.prods)
  <2>1. CASE i = Len(g.prods) + 1
    BY <1>5, <1>6, <1>7, <2>1
  <2>2. CASE i # Len(g.prods) + 1
    <3>1. i \in 1 .. Len(g.prods)
      BY <1>1, <1>7, <2>2
    <3>2. IsProduction(g.prods[i], Len(g.nonterms))
      BY <3>1 DEF WellBuilt
    <3> QED BY <1>6, <1>7, <3>1, <3>2
  <2> QED BY <2>1, <2>2
<1>10. \A i \in 1 .. Len(h.sp) : IsOpen(h.sp[i], Len(h.nonterms), Len(h.prods))
  <2> TAKE i \in 1 .. Len(h.sp)
  <2>1. CASE i = 1
    BY <1>1, <1>4, <1>6, <1>7, <1>8, <2>1 DEF IsOpen
  <2>2. CASE i # 1
    <3>1. i \in 2 .. Len(g.sp)
      BY <1>1, <1>8, <2>2
    <3>2. IsOpen(g.sp[i], Len(g.nonterms), Len(g.prods))
      BY <1>1, <3>1 DEF WellBuilt
    <3>3. IsOpen(g.sp[i], Len(g.nonterms), Len(g.prods) + 1)
      BY <1>1, <3>2, StillWell
    <3> QED BY <1>6, <1>7, <1>8, <3>1, <3>3
  <2> QED BY <2>1, <2>2
<1>11. h.prods[1].lhs = h.goal
  <2>1. CASE Len(g.prods) = 0
    <3>1. h.prods[1] = p /\ g.sp[1].lhs = g.goal
      BY <1>7, <2>1 DEF WellBuilt
    <3> QED BY <1>4, <1>5, <1>6, <3>1
  <2>2. CASE Len(g.prods) # 0
    <3>1. h.prods[1] = g.prods[1] /\ g.prods[1].lhs = g.goal
      BY <1>1, <1>7, <2>2 DEF WellBuilt
    <3> QED BY <1>6, <3>1
  <2> QED BY <2>1, <2>2
<1>14. WithinLimits(h)
  <2>1. WithinLimits(g)
    BY DEF WellBuilt
  <2>2. Len(h.prods) <= MAXPROD /\ h.nerrors \in Nat
    BY <1>1, <1>2, <1>7, <1>15, <2>1, NumbersAssumption DEF WithinLimits
  <2>3. ASSUME NEW i \in 1 .. Len(h.prods) PROVE ActsBelow(h.prods[i], h.acts)
    <3>1. CASE i = Len(g.prods) + 1
      <4>1. h.prods[i] = p
        BY <1>7, <3>1
      <4>2. Len(p.rhs) = 0
        BY DEF p
      <4>3. \A j \in 1 .. Len(p.rhs) : FALSE
        BY <4>2
      <4> QED BY <4>1, <4>3, Zenon DEF ActsBelow
    <3>2. CASE i # Len(g.prods) + 1
      <4>1. i \in 1 .. Len(g.prods)
        BY <1>1, <1>7, <3>2
      <4> QED BY <1>6, <1>7, <2>1, <4>1 DEF WithinLimits
    <3> QED BY <3>1, <3>2
  <2>4. ASSUME NEW i \in 1 .. Len(h.sp), h.sp[i].rhs # NONE
        PROVE  h.prods[h.sp[i].rhs].lhs = h.sp[i].lhs
    <3>1. CASE i = 1
      BY <1>4, <1>5, <1>7, <1>8, <3>1
    <3>2. CASE i # 1
      <4>1. i \in 2 .. Len(g.sp) /\ i \in 1 .. Len(g.sp)
        BY <1>1, <1>8, <3>2
      <4>2. h.sp[i] = g.sp[i] /\ IsOpen(g.sp[i], Len(g.nonterms), Len(g.prods))
        BY <1>8, <4>1 DEF WellBuilt
      <4>3. g.sp[i].rhs \in 1 .. Len(g.prods)
        BY <2>4, <4>2 DEF IsOpen
      <4> QED BY <1>7, <2>1, <2>4, <4>1, <4>2, <4>3 DEF WithinLimits
    <3> QED BY <3>1, <3>2
  <2> QED BY <2>2, <2>3, <2>4 DEF WithinLimits
<1>12. WellBuilt(h)
  <2>1. /\ Len(g.nonterms) <= MINACT - MINNONTERM /\ g.acts \in Nat
        /\ IsSeq(g.nonterms) /\ g.goal \in NT(Len(g.nonterms)) \cup {NONE}
    BY DEF WellBuilt
  <2>2. Len(h.prods) > 0 /\ Len(h.prods) # 0
    BY <1>1, <1>7
  <2> QED BY <1>1, <1>6, <1>7, <1>8, <1>9, <1>10, <1>11, <1>14, <2>1, <2>2 DEF WellBuilt
<1>13. t.lhs # NONE
  BY <1>2, <1>4, <1>1
<1> QED BY <1>4, <1>6, <1>7, <1>8, <1>12, <1>13

\* What is fatal changes nothing else: a nonterminal too many, ...
LEMMA FatalNonterminal ==
  ASSUME file \in Files, NEW g, WellBuilt(g), ~g.fatal, NEW name, NEW is_lhs,
         NEW h, h = new_nonterm(g, name, is_lhs), h.fatal
  PROVE  WellBuilt(h)
<1> DEFINE found == Lookup(g, name)
           new == Append(g.nonterms, [name |-> name, set |-> FALSE])
           m == IF found = {} THEN [g EXCEPT !.nonterms = new] ELSE g
           val == IF found = {} THEN Val(Len(new)) ELSE Min(found)
<1>1. DOMAIN g = {"nonterms", "acts", "prods", "sp", "goal", "nerrors", "fatal"}
  BY DEF WellBuilt
<1>2. h = IF ISTERM(val) THEN [g EXCEPT !.nerrors = @ + 1]
          ELSE IF val = MINACT THEN [g EXCEPT !.fatal = TRUE]
          ELSE IF ~is_lhs THEN m
          ELSE [m EXCEPT !.nonterms[val - MINNONTERM + 1].set = TRUE,
                         !.goal = IF @ = NONE THEN val ELSE @,
                         !.sp = <<[lhs |-> val, rhs |-> NONE]>> \o Tail(@)]
  BY DEF new_nonterm
<1>3. DOMAIN m = DOMAIN g /\ m.fatal = g.fatal
  BY <1>1
<1> HIDE DEF found, new, m, val
<1>4. ISTERM(val) => ~h.fatal
  BY <1>1, <1>2
<1>5. ~ISTERM(val) /\ val # MINACT => ~h.fatal
  <2>1. CASE is_lhs
    <3>1. ASSUME ~ISTERM(val), val # MINACT PROVE ~h.fatal
      <4>1. h = [m EXCEPT !.nonterms[val - MINNONTERM + 1].set = TRUE,
                         !.goal = IF @ = NONE THEN val ELSE @,
                         !.sp = <<[lhs |-> val, rhs |-> NONE]>> \o Tail(@)]
        BY <1>2, <2>1, <3>1
      <4> QED BY <1>1, <1>3, <4>1
    <3> QED BY <3>1
  <2>2. CASE ~is_lhs
    BY <1>2, <1>3, <2>2
  <2> QED BY <2>1, <2>2
<1>6. h = [g EXCEPT !.fatal = TRUE]
  BY <1>2, <1>4, <1>5
<1> QED BY <1>1, <1>6, FatalAlone

\* ... or a production too many.
LEMMA FatalRhs ==
  ASSUME NEW g, WellBuilt(g), ~g.fatal, NEW h, h = new_rhs(g), h.fatal
  PROVE  WellBuilt(h)
<1>1. DOMAIN g = {"nonterms", "acts", "prods", "sp", "goal", "nerrors", "fatal"}
  BY DEF WellBuilt
<1>2. h = [g EXCEPT !.fatal = TRUE]
  BY <1>1 DEF new_rhs
<1> QED BY <1>2, FatalAlone

\* A production with another right-hand side.
LEMMA WellChanged ==
  ASSUME NEW g, WellBuilt(g), NEW h, DOMAIN h = DOMAIN g, NEW n \in 1 .. Len(g.prods),
         h.nonterms = g.nonterms, h.sp = g.sp, h.goal = g.goal, h.acts \in Nat,
         IsSeq(h.prods), Len(h.prods) = Len(g.prods),
         \A i \in 1 .. Len(g.prods) : i # n => h.prods[i] = g.prods[i],
         IsProduction(h.prods[n], Len(g.nonterms)), h.prods[n].lhs = g.prods[n].lhs,
         h.acts >= g.acts, ActsBelow(h.prods[n], h.acts), h.nerrors \in Nat
  PROVE  WellBuilt(h)
<1>1. Len(g.prods) \in Nat /\ DOMAIN g.prods = 1 .. Len(g.prods)
  BY SeqIs DEF WellBuilt
<1>2. IsSeq(h.prods) /\ Len(h.prods) = Len(g.prods)
  OBVIOUS
<1>3. ASSUME NEW i \in 1 .. Len(h.prods)
      PROVE  IsProduction(h.prods[i], Len(h.nonterms)) /\ h.prods[i].lhs = g.prods[i].lhs
  <2>1. CASE i = n
    BY <2>1
  <2>2. CASE i # n
    <3>1. h.prods[i] = g.prods[i] /\ IsProduction(g.prods[i], Len(g.nonterms))
      BY <1>2, <1>3, <2>2 DEF WellBuilt
    <3> QED BY <3>1
  <2> QED BY <2>1, <2>2
<1>4. Len(h.prods) > 0 => h.prods[1].lhs = h.goal
  <2> SUFFICES ASSUME Len(h.prods) > 0 PROVE h.prods[1].lhs = h.goal
    OBVIOUS
  <2>1. 1 \in 1 .. Len(h.prods) /\ g.prods[1].lhs = g.goal
    BY <1>1, <1>2 DEF WellBuilt
  <2> QED BY <1>3, <2>1
<1>5. WithinLimits(h)
  <2>1. WithinLimits(g) /\ g.acts \in Nat
    BY DEF WellBuilt
  <2>2. ASSUME NEW i \in 1 .. Len(h.prods) PROVE ActsBelow(h.prods[i], h.acts)
    <3>1. CASE i = n
      BY <3>1
    <3>2. CASE i # n
      <4>1. h.prods[i] = g.prods[i] /\ ActsBelow(g.prods[i], g.acts)
        BY <1>2, <2>1, <2>2, <3>2 DEF WithinLimits
      <4>2. IsProduction(g.prods[i], Len(g.nonterms))
        BY <1>2, <2>2 DEF WellBuilt
      <4>3. \A v \in Vocabulary(Len(g.nonterms)) : ISACT(v) => v \in Nat
        BY NumbersAssumption, SeqIs DEF Vocabulary, NT, ISACT, WellBuilt
      <4>4. \A v \in Nat : v < MINACT + g.acts => v < MINACT + h.acts
        BY <2>1, NumbersAssumption
      <4> QED BY <4>1, <4>2, <4>3, <4>4 DEF ActsBelow, IsProduction
    <3> QED BY <3>1, <3>2
  <2>3. ASSUME NEW i \in 1 .. Len(h.sp), h.sp[i].rhs # NONE
        PROVE  h.prods[h.sp[i].rhs].lhs = h.sp[i].lhs
    <3>1. IsOpen(g.sp[i], Len(g.nonterms), Len(g.prods))
      BY <2>3 DEF WellBuilt
    <3>2. g.sp[i].rhs \in 1 .. Len(h.prods)
      BY <1>2, <2>3, <3>1 DEF IsOpen
    <3> QED BY <1>3, <2>1, <2>3, <3>2 DEF WithinLimits
  <2> QED BY <1>2, <2>1, <2>2, <2>3 DEF WithinLimits
<1> QED BY <1>2, <1>3, <1>4, <1>5 DEF WellBuilt

\* A symbol or an action at the end of the right-hand side on top.
LEMMA Appended ==
  ASSUME NEW g, WellBuilt(g), ~g.fatal, g.sp[1].rhs # NONE,
         NEW val \in Vocabulary(Len(g.nonterms)), ISACT(val) => val < MINACT + g.acts,
         NEW h, h = append(g, val)
  PROVE  /\ WellBuilt(h)
         /\ ~h.fatal => /\ h.sp = g.sp /\ Len(h.prods[g.sp[1].rhs].rhs) > 0
                        /\ g.sp[1].rhs \in 1 .. Len(h.prods)
<1>18. CASE Len(g.prods[Head(g.sp).rhs].rhs) >= MAXRHS
  <2>1. h = [g EXCEPT !.fatal = TRUE]
    BY <1>18 DEF append
  <2>2. DOMAIN g = {"nonterms", "acts", "prods", "sp", "goal", "nerrors", "fatal"}
    BY DEF WellBuilt
  <2>3. h.fatal
    BY <2>1, <2>2
  <2> QED BY <2>1, <2>3, FatalAlone
<1>19. SUFFICES ASSUME ~(Len(g.prods[Head(g.sp).rhs].rhs) >= MAXRHS)
                PROVE  /\ WellBuilt(h) /\ h.sp = g.sp /\ Len(h.prods[g.sp[1].rhs].rhs) > 0
                       /\ g.sp[1].rhs \in 1 .. Len(h.prods)
  BY <1>18
<1>1. /\ Len(g.prods) \in Nat /\ DOMAIN g.prods = 1 .. Len(g.prods)
      /\ Head(g.sp) = g.sp[1]
      /\ IsOpen(g.sp[1], Len(g.nonterms), Len(g.prods)) /\ g.acts \in Nat
      /\ DOMAIN g = {"nonterms", "acts", "prods", "sp", "goal", "nerrors", "fatal"}
  <2>1. IsSeq(g.sp) /\ Len(g.sp) > 0 /\ Len(g.sp) \in Nat /\ Head(g.sp) = g.sp[1]
    BY SeqIs, SeqTail DEF WellBuilt
  <2> QED BY <2>1, SeqIs DEF WellBuilt
<1>2. PICK n \in 1 .. Len(g.prods) : n = g.sp[1].rhs
  BY <1>1 DEF IsOpen
<1>3. PICK p : p = g.prods[n]
  OBVIOUS
<1>4. IsProduction(p, Len(g.nonterms))
  BY <1>3 DEF WellBuilt
<1>5. h = [g EXCEPT !.prods[n].rhs = Append(@, val),
                    !.prods[n].prec = IF ~LLAMA /\ ISTERM(val) THEN level(val) ELSE @,
                    !.nerrors = IF LLAMA /\ g.prods[n].rhs = <<>> /\ val = Head(g.sp).lhs
                                THEN @ + 1 ELSE @]
  BY <1>1, <1>2, <1>19 DEF append
<1>6. /\ DOMAIN h = DOMAIN g /\ h.nonterms = g.nonterms /\ h.sp = g.sp
      /\ h.goal = g.goal /\ h.acts = g.acts
  BY <1>1, <1>5
<1>17. h.nerrors \in Nat
  <2>1. g.nerrors \in Nat
    BY DEF WellBuilt, WithinLimits
  <2>2. h.nerrors = g.nerrors \/ h.nerrors = g.nerrors + 1
    BY <1>1, <1>5
  <2> QED BY <2>1, <2>2
<1>12. ~(Len(p.rhs) >= MAXRHS)
  BY <1>1, <1>2, <1>3, <1>19
<1>13. PICK v : h.prods = [[g.prods EXCEPT ![n].rhs = Append(@, val)] EXCEPT ![n].prec = v]
  <2>1. PICK v : v = IF ~LLAMA /\ ISTERM(val) THEN level(val)
                     ELSE [g.prods EXCEPT ![n].rhs = Append(@, val)][n].prec
    OBVIOUS
  <2>2. h.prods = [[g.prods EXCEPT ![n].rhs = Append(@, val)] EXCEPT ![n].prec = v]
    BY <1>1, <1>5, <2>1
  <2> QED BY <2>2
<1>7. /\ IsSeq(h.prods) /\ Len(h.prods) = Len(g.prods)
      /\ \A i \in 1 .. Len(g.prods) : i # n => h.prods[i] = g.prods[i]
  <2>1. /\ h.prods = [i \in 1 .. Len(g.prods) |-> h.prods[i]]
        /\ \A i \in 1 .. Len(g.prods) : i # n => h.prods[i] = g.prods[i]
    BY <1>1, <1>13
  <2> QED BY <1>1, <2>1, SeqFunction
<1>8. /\ DOMAIN h.prods[n] = DOMAIN p /\ h.prods[n].lhs = p.lhs
      /\ h.prods[n].rhs = Append(p.rhs, val)
  <2>1. DOMAIN p = {"lhs", "rhs", "prec"}
    BY <1>4 DEF IsProduction
  <2>2. h.prods[n] = [[p EXCEPT !.rhs = Append(p.rhs, val)] EXCEPT !.prec = v]
    BY <1>1, <1>3, <1>13
  <2> QED BY <2>1, <2>2
<1>9. /\ IsSeq(h.prods[n].rhs) /\ Len(h.prods[n].rhs) = Len(p.rhs) + 1
      /\ \A i \in 1 .. Len(p.rhs) : h.prods[n].rhs[i] = p.rhs[i]
      /\ h.prods[n].rhs[Len(p.rhs) + 1] = val /\ Len(p.rhs) \in Nat
  BY <1>4, <1>8, SeqAppend, SeqIs DEF IsProduction
<1>10. IsProduction(h.prods[n], Len(g.nonterms))
  <2>1. ASSUME NEW i \in 1 .. Len(h.prods[n].rhs)
        PROVE  h.prods[n].rhs[i] \in Vocabulary(Len(g.nonterms))
    <3>1. i \in 1 .. Len(p.rhs) \/ i = Len(p.rhs) + 1
      BY <1>9
    <3> QED BY <1>4, <1>9, <3>1 DEF IsProduction
  <2>2. Len(h.prods[n].rhs) <= MAXRHS
    BY <1>9, <1>12, NumbersAssumption
  <2> QED BY <1>4, <1>8, <1>9, <2>1, <2>2 DEF IsProduction
<1>16. ActsBelow(h.prods[n], h.acts)
  <2>1. ActsBelow(p, g.acts)
    BY <1>3 DEF WellBuilt, WithinLimits
  <2>2. ASSUME NEW i \in 1 .. Len(h.prods[n].rhs), ISACT(h.prods[n].rhs[i])
        PROVE  h.prods[n].rhs[i] < MINACT + h.acts
    <3>1. i \in 1 .. Len(p.rhs) \/ i = Len(p.rhs) + 1
      BY <1>9
    <3> QED BY <1>6, <1>9, <2>1, <2>2, <3>1 DEF ActsBelow
  <2> QED BY <2>2 DEF ActsBelow
<1>11. WellBuilt(h) /\ Len(h.prods) = Len(g.prods)
  <2>4. h.acts >= g.acts
    BY <1>1, <1>6
  <2>1. h.acts \in Nat
    BY <1>1, <1>6 DEF WellBuilt
  <2>2. h.prods[n].lhs = g.prods[n].lhs
    BY <1>3, <1>8
  <2>3. /\ h.nonterms = g.nonterms /\ h.sp = g.sp /\ h.goal = g.goal
        /\ n \in 1 .. Len(g.prods) /\ DOMAIN h = DOMAIN g
    BY <1>1, <1>3, <1>6
  <2> QED BY <1>7, <1>10, <1>16, <1>17, <2>1, <2>2, <2>3, <2>4, WellChanged, Zenon
<1>14. Len(h.prods[n].rhs) > 0
  BY <1>9
<1>15. n \in 1 .. Len(h.prods)
  BY <1>11
<1> QED BY <1>2, <1>6, <1>11, <1>14, <1>15

\* add_to_rhs() keeps what is well built, unless it is fatal.
LEMMA SymbolAdded ==
  ASSUME file \in Files, NEW g, WellBuilt(g), ~g.fatal, g.sp[1].rhs # NONE, NEW name,
         NEW h, h = add_to_rhs(g, name)
  PROVE  /\ WellBuilt(h)
         /\ ~h.fatal => /\ h.sp = g.sp /\ Len(h.prods[g.sp[1].rhs].rhs) > 0
                        /\ g.sp[1].rhs \in 1 .. Len(h.prods)
<1>1. PICK m : m = IF Lookup(g, name) = {} THEN new_nonterm(g, name, FALSE) ELSE g
  OBVIOUS
<1>7. h = IF m.fatal THEN m ELSE append(m, Min(Lookup(m, name)))
  BY <1>1 DEF add_to_rhs
<1>8. CASE m.fatal
  <2>1. m = new_nonterm(g, name, FALSE)
    BY <1>1, <1>8
  <2>2. WellBuilt(m)
    BY <1>8, <2>1, FatalNonterminal
  <2> QED BY <1>7, <1>8, <2>2
<1>9. SUFFICES ASSUME ~m.fatal
               PROVE  /\ WellBuilt(h)
                      /\ ~h.fatal => /\ h.sp = g.sp /\ Len(h.prods[g.sp[1].rhs].rhs) > 0
                                     /\ g.sp[1].rhs \in 1 .. Len(h.prods)
  BY <1>8
<1>2. ~m.fatal /\ h = append(m, Min(Lookup(m, name)))
  BY <1>7, <1>9
<1>3. WellBuilt(m) /\ m.sp = g.sp /\ Lookup(m, name) # {}
  <2>1. CASE Lookup(g, name) = {}
    <3>1. TopKept(g, m) /\ TopSame(g, m, name)
      BY <1>1, <1>2, <2>1, NonterminalMade
    <3> QED BY <2>1, <3>1 DEF TopKept, TopSame
  <2>2. CASE Lookup(g, name) # {}
    BY <1>1, <2>2
  <2> QED BY <2>1, <2>2
<1>4. IsSeq(m.nonterms)
  BY <1>3 DEF WellBuilt
<1>5. Min(Lookup(m, name)) \in Vocabulary(Len(m.nonterms))
  BY <1>3, <1>4, FoundSymbol DEF Vocabulary
<1>6. ~ISACT(Min(Lookup(m, name)))
  <2>1. Len(m.nonterms) <= MINACT - MINNONTERM /\ Len(m.nonterms) \in Nat
    BY <1>3, <1>4, SeqIs DEF WellBuilt
  <2>2. Min(Lookup(m, name)) \in (1 .. Len(terms)) \cup NT(Len(m.nonterms))
    BY <1>3, <1>4, FoundSymbol
  <2> QED BY <2>1, <2>2, TermsCount, NumbersAssumption DEF NT, ISACT
<1> QED BY <1>2, <1>3, <1>5, <1>6, Appended

\* So does add_action().
LEMMA ActionAdded ==
  ASSUME NEW g, WellBuilt(g), ~g.fatal, g.sp[1].rhs # NONE,
         NEW h, h = add_action(g)
  PROVE  WellBuilt(h) /\ (~h.fatal => h.sp = g.sp)
<1>1. PICK m : m = [g EXCEPT !.acts = @ + 1]
  OBVIOUS
<1>2. DOMAIN g = {"nonterms", "acts", "prods", "sp", "goal", "nerrors", "fatal"} /\ g.acts \in Nat
  BY DEF WellBuilt
<1>3. /\ DOMAIN m = DOMAIN g /\ m.acts = g.acts + 1 /\ m.nonterms = g.nonterms
      /\ m.prods = g.prods /\ m.sp = g.sp /\ m.goal = g.goal /\ m.fatal = g.fatal
      /\ m.nerrors = g.nerrors
  BY <1>1, <1>2
<1>7. WithinLimits(m)
  <2>1. WithinLimits(g)
    BY DEF WellBuilt
  <2>2. ASSUME NEW n \in 1 .. Len(g.prods) PROVE ActsBelow(g.prods[n], g.acts + 1)
    <3>1. ActsBelow(g.prods[n], g.acts) /\ IsProduction(g.prods[n], Len(g.nonterms))
      BY <2>1 DEF WithinLimits, WellBuilt
    <3>3. \A v \in Vocabulary(Len(g.nonterms)) : ISACT(v) => v \in Nat
      BY NumbersAssumption, SeqIs DEF Vocabulary, NT, ISACT, WellBuilt
    <3>4. \A v \in Nat : v < MINACT + g.acts => v < MINACT + (g.acts + 1)
      BY <1>2, NumbersAssumption
    <3> QED BY <3>1, <3>3, <3>4 DEF ActsBelow, IsProduction
  <2> QED BY <1>3, <2>1, <2>2 DEF WithinLimits
<1>4. WellBuilt(m)
  BY <1>2, <1>3, <1>7 DEF WellBuilt
<1>8. MINACT + g.acts < MINACT + m.acts
  BY <1>2, <1>3, NumbersAssumption
<1>5. MINACT + g.acts \in Vocabulary(Len(m.nonterms))
  BY <1>2, NumbersAssumption DEF Vocabulary
<1>6. h = append(m, MINACT + g.acts)
  BY <1>1 DEF add_action
<1> QED BY <1>3, <1>4, <1>5, <1>6, <1>8, Appended

\* An empty entry on the stack.
LEMMA OptPushed ==
  ASSUME NEW g, WellBuilt(g), Len(g.prods) > 0,
         NEW m, m = [g EXCEPT !.sp = <<[lhs |-> NONE, rhs |-> NONE]>> \o @]
  PROVE  /\ WellBuilt(m) /\ m.prods = g.prods /\ m.fatal = g.fatal
         /\ Len(m.sp) = Len(g.sp) + 1 /\ \A i \in 1 .. Len(g.sp) : m.sp[i + 1] = g.sp[i]
<1>1. PICK empty : empty = [lhs |-> NONE, rhs |-> NONE]
  OBVIOUS
<1>7. /\ Len(g.nonterms) \in Nat /\ Len(g.prods) \in Nat /\ Len(g.sp) \in Nat
      /\ DOMAIN g = {"nonterms", "acts", "prods", "sp", "goal", "nerrors", "fatal"}
      /\ IsSeq(g.sp)
  BY SeqIs DEF WellBuilt
<1>8. /\ DOMAIN m = DOMAIN g /\ m.acts = g.acts /\ m.nonterms = g.nonterms
      /\ m.prods = g.prods /\ m.sp = <<empty>> \o g.sp /\ m.goal = g.goal
      /\ m.fatal = g.fatal /\ m.nerrors = g.nerrors
  BY <1>1, <1>7
<1>9. /\ IsSeq(m.sp) /\ Len(m.sp) = Len(g.sp) + 1 /\ m.sp[1] = empty
      /\ \A i \in 1 .. Len(g.sp) : m.sp[i + 1] = g.sp[i]
  <2>1. IsPushed(m.sp, g.sp, empty)
    BY <1>7, <1>8, SeqPushed, Zenon
  <2> QED BY <2>1, Zenon DEF IsPushed
<1>10. \A i \in 2 .. Len(m.sp) : i - 1 \in 1 .. Len(g.sp) /\ m.sp[i] = g.sp[i - 1]
  <2> TAKE i \in 2 .. Len(m.sp)
  <2>1. i - 1 \in 1 .. Len(g.sp) /\ m.sp[(i - 1) + 1] = g.sp[i - 1] /\ (i - 1) + 1 = i
    BY <1>7, <1>9
  <2> QED BY <2>1
<1>11. IsOpen(m.sp[1], Len(g.nonterms), Len(g.prods))
  BY <1>1, <1>9 DEF IsOpen
<1>12. WellBuilt(m)
  <2>1. \A i \in 1 .. Len(m.sp) : IsOpen(m.sp[i], Len(m.nonterms), Len(m.prods))
    <3> TAKE i \in 1 .. Len(m.sp)
    <3>1. i = 1 \/ i \in 2 .. Len(m.sp)
      BY <1>7, <1>9
    <3> QED BY <1>8, <1>10, <1>11, <3>1 DEF WellBuilt
  <2>2. Len(m.sp) > 0 /\ Len(m.prods) # 0
    BY <1>7, <1>8, <1>9
  <2>3. /\ Len(g.nonterms) <= MINACT - MINNONTERM /\ g.acts \in Nat
        /\ IsSeq(g.nonterms) /\ g.goal \in NT(Len(g.nonterms)) \cup {NONE}
        /\ IsSeq(g.prods) /\ g.prods[1].lhs = g.goal
        /\ \A i \in 1 .. Len(g.prods) : IsProduction(g.prods[i], Len(g.nonterms))
    BY DEF WellBuilt
  <2>4. WithinLimits(m)
    <3>1. WithinLimits(g)
      BY DEF WellBuilt
    <3>2. ASSUME NEW i \in 1 .. Len(m.sp), m.sp[i].rhs # NONE
          PROVE  m.prods[m.sp[i].rhs].lhs = m.sp[i].lhs
      <4>1. CASE i = 1
        BY <1>1, <1>9, <3>2, <4>1
      <4>2. CASE i # 1
        <5>1. i \in 2 .. Len(m.sp)
          BY <1>7, <1>9, <4>2
        <5> QED BY <1>8, <1>10, <3>1, <3>2, <5>1 DEF WithinLimits
      <4> QED BY <4>1, <4>2
    <3> QED BY <1>8, <3>1, <3>2 DEF WithinLimits
  <2> QED BY <1>7, <1>8, <1>9, <2>1, <2>2, <2>3, <2>4 DEF WellBuilt
<1> QED BY <1>8, <1>9, <1>12

\* [ opens two right-hand sides of a new nonterminal.
LEMMA OptStarted ==
  ASSUME file \in Files, NEW g, WellBuilt(g), ~g.fatal, InRhs(g), Len(g.prods) > 0,
         NEW h, h = start_opt(g)
  PROVE  WellBuilt(h) /\ (~h.fatal => InRhs(h) /\ Len(h.sp) = Len(g.sp) + 1)
<1>1. PICK m : m = [g EXCEPT !.sp = <<[lhs |-> NONE, rhs |-> NONE]>> \o @]
  OBVIOUS
<1>2. PICK name : name = OPT_NAMES[Cardinality({i \in 1 .. Len(g.nonterms) :
                                      g.nonterms[i].name \in Range(OPT_NAMES)}) + 1]
  OBVIOUS
<1>3. PICK b : b = new_nonterm(m, name, TRUE)
  OBVIOUS
<1>4. PICK e : e = IF b.fatal THEN b ELSE new_rhs(b)
  OBVIOUS
<1>5. h = IF e.fatal THEN e ELSE new_rhs(e)
  BY <1>1, <1>2, <1>3, <1>4 DEF start_opt
<1>7. Len(g.prods) \in Nat /\ Len(g.sp) \in Nat
  BY SeqIs DEF WellBuilt
<1>9. /\ WellBuilt(m) /\ m.prods = g.prods /\ m.fatal = g.fatal
      /\ Len(m.sp) = Len(g.sp) + 1 /\ \A i \in 1 .. Len(g.sp) : m.sp[i + 1] = g.sp[i]
  BY <1>1, OptPushed
<1>10. \A i \in 2 .. Len(m.sp) : m.sp[i].rhs # NONE
  <2> TAKE i \in 2 .. Len(m.sp)
  <2>1. i - 1 \in 1 .. Len(g.sp) /\ m.sp[(i - 1) + 1] = g.sp[i - 1] /\ (i - 1) + 1 = i
    BY <1>7, <1>9
  <2>2. g.sp[i - 1].rhs # NONE
    BY <2>1 DEF InRhs
  <2> QED BY <2>1, <2>2
<1>6. Len(m.prods) # 0 /\ ~m.fatal
  BY <1>7, <1>9
<1>11. CASE b.fatal
  <2>1. WellBuilt(b)
    BY <1>3, <1>6, <1>9, <1>11, FatalNonterminal
  <2>2. h = b
    BY <1>4, <1>5, <1>11
  <2> QED BY <1>11, <2>1, <2>2
<1>12. CASE ~b.fatal
  <2>1. /\ WellBuilt(b) /\ b.prods = m.prods /\ Len(b.sp) = Len(m.sp)
        /\ \A i \in 2 .. Len(m.sp) : b.sp[i] = m.sp[i]
    <3>1. TopKept(m, b)
      BY <1>3, <1>6, <1>9, <1>12, TopMade, Zenon
    <3> QED BY <3>1 DEF TopKept
  <2>2. e = new_rhs(b)
    BY <1>4, <1>12
  <2>3. CASE e.fatal
    <3>1. WellBuilt(e)
      BY <1>12, <2>1, <2>2, <2>3, FatalRhs
    <3> QED BY <1>5, <2>3, <3>1
  <2>4. CASE ~e.fatal
    <3>1. /\ WellBuilt(e) /\ Len(e.sp) = Len(b.sp)
          /\ \A i \in 2 .. Len(b.sp) : e.sp[i] = b.sp[i]
      BY <1>12, <2>1, <2>2, <2>4, RhsMade
    <3>2. h = new_rhs(e)
      BY <1>5, <2>4
    <3>3. CASE h.fatal
      BY <2>4, <3>1, <3>2, <3>3, FatalRhs
    <3>4. CASE ~h.fatal
      <4>1. /\ WellBuilt(h) /\ Len(h.sp) = Len(e.sp) /\ h.sp[1].rhs = Len(h.prods)
            /\ \A i \in 2 .. Len(e.sp) : h.sp[i] = e.sp[i]
        BY <2>4, <3>1, <3>2, <3>4, RhsMade
      <4>2. ASSUME NEW i \in 1 .. Len(h.sp) PROVE h.sp[i].rhs # NONE
        <5>1. CASE i = 1
          <6>1. Len(h.prods) \in Nat
            BY <4>1, SeqIs DEF WellBuilt
          <6> QED BY <4>1, <5>1, <6>1 DEF NONE
        <5>2. CASE i # 1
          <6>1. i \in 2 .. Len(m.sp)
            BY <1>7, <1>9, <2>1, <3>1, <4>1, <5>2
          <6> QED BY <1>10, <2>1, <3>1, <4>1, <6>1
        <5> QED BY <5>1, <5>2
      <4> QED BY <1>9, <2>1, <3>1, <4>1, <4>2 DEF InRhs
    <3> QED BY <3>3, <3>4
  <2> QED BY <2>3, <2>4
<1> QED BY <1>11, <1>12

\* ]* puts the nonterminal inside at the beginning of its own right-hand side.
LEMMA RepeatedMade ==
  ASSUME file \in Files, NEW g, WellBuilt(g), ~g.fatal, g.sp[1].rhs # NONE, NEW name,
         NEW h, h = Repeated(g, name)
  PROVE  WellBuilt(h) /\ (~h.fatal => h.sp = g.sp)
<1>1. PICK m : m = add_to_rhs(g, name)
  OBVIOUS
<1>2. PICK n : n = Head(g.sp).rhs
  OBVIOUS
<1>3. h = IF LLAMA \/ m.fatal THEN m
          ELSE [m EXCEPT !.prods[n].rhs = <<Last(@)>> \o Front(@)]
  BY <1>1, <1>2 DEF Repeated
<1>17. CASE LLAMA \/ m.fatal
  <2>1. h = m
    BY <1>3, <1>17
  <2> QED BY <1>1, <2>1, SymbolAdded
<1>18. SUFFICES ASSUME ~LLAMA, ~m.fatal PROVE WellBuilt(h) /\ h.sp = g.sp
  BY <1>17
<1>4. ~m.fatal
  BY <1>18
<1>5. h = [m EXCEPT !.prods[n].rhs = <<Last(@)>> \o Front(@)]
  BY <1>3, <1>18
<1>6. n = g.sp[1].rhs
  <2>1. IsSeq(g.sp) /\ Len(g.sp) > 0
    BY DEF WellBuilt
  <2> QED BY <1>2, <2>1, SeqTail
<1>7. /\ WellBuilt(m) /\ m.sp = g.sp /\ Len(m.prods[n].rhs) > 0 /\ n \in 1 .. Len(m.prods)
  BY <1>1, <1>4, <1>6, SymbolAdded
<1>8. PICK p : p = m.prods[n]
  OBVIOUS
<1>9. /\ DOMAIN m.prods = 1 .. Len(m.prods) /\ IsProduction(p, Len(m.nonterms)) /\ m.acts \in Nat
      /\ DOMAIN m = {"nonterms", "acts", "prods", "sp", "goal", "nerrors", "fatal"}
  BY <1>7, <1>8, SeqIs DEF WellBuilt
<1>10. PICK r : r = <<Last(p.rhs)>> \o Front(p.rhs)
  OBVIOUS
<1>11. /\ IsSeq(r) /\ \A i \in 1 .. Len(r) : r[i] \in Vocabulary(Len(m.nonterms))
       /\ Len(r) = Len(p.rhs)
       /\ \A i \in 1 .. Len(r) : ISACT(r[i]) => r[i] < MINACT + m.acts
  <2> DEFINE V == {x \in Vocabulary(Len(m.nonterms)) : ISACT(x) => x < MINACT + m.acts}
  <2>7. ActsBelow(p, m.acts)
    BY <1>7, <1>8 DEF WellBuilt, WithinLimits
  <2>1. /\ IsSeq(p.rhs) /\ Len(p.rhs) \in Nat /\ Len(p.rhs) > 0 /\ DOMAIN p.rhs = 1 .. Len(p.rhs)
        /\ \A i \in 1 .. Len(p.rhs) : p.rhs[i] \in V
    BY <1>7, <1>8, <1>9, <2>7, SeqIs DEF IsProduction, ActsBelow
  <2> HIDE DEF V
  <2>2. PICK S : p.rhs \in Seq(S)
    BY <2>1 DEF IsSeq
  <2>3. p.rhs \in Seq(V)
    BY <2>1, <2>2
  <2>4. Front(p.rhs) \in Seq(V)
    BY <2>1, <2>3 DEF Front
  <2>5. <<Last(p.rhs)>> \in Seq(V)
    <3>1. Last(p.rhs) \in V
      BY <2>1 DEF Last
    <3> QED BY <3>1
  <2>6. r \in Seq(V) /\ Len(r) = Len(p.rhs)
    <3>1. Len(Front(p.rhs)) = Len(p.rhs) - 1 /\ Len(<<Last(p.rhs)>>) = 1
      BY <2>1, <2>3 DEF Front
    <3> QED BY <1>10, <2>1, <2>4, <2>5, <3>1
  <2> QED BY <2>6 DEF IsSeq, V
<1>12. /\ DOMAIN h = DOMAIN m /\ h.nonterms = m.nonterms /\ h.sp = m.sp
       /\ h.goal = m.goal /\ h.acts = m.acts /\ h.nerrors = m.nerrors
  BY <1>5, <1>9
<1>13. /\ IsSeq(h.prods) /\ Len(h.prods) = Len(m.prods)
       /\ \A i \in 1 .. Len(m.prods) : i # n => h.prods[i] = m.prods[i]
  <2>1. /\ h.prods = [i \in 1 .. Len(m.prods) |-> h.prods[i]]
        /\ \A i \in 1 .. Len(m.prods) : i # n => h.prods[i] = m.prods[i]
    BY <1>5, <1>9
  <2>2. Len(m.prods) \in Nat
    BY <1>7, SeqIs DEF WellBuilt
  <2> QED BY <2>1, <2>2, SeqFunction
<1>14. h.prods[n] = [p EXCEPT !.rhs = r]
  BY <1>5, <1>7, <1>8, <1>9, <1>10
<1>15. DOMAIN h.prods[n] = DOMAIN p /\ h.prods[n].lhs = p.lhs /\ h.prods[n].rhs = r
  BY <1>9, <1>14 DEF IsProduction
<1>16. IsProduction(h.prods[n], Len(m.nonterms))
  BY <1>9, <1>11, <1>15 DEF IsProduction
<1>19. /\ h.acts \in Nat /\ h.prods[n].lhs = m.prods[n].lhs /\ n \in 1 .. Len(m.prods)
       /\ h.acts >= m.acts /\ h.nerrors \in Nat
  BY <1>7, <1>8, <1>9, <1>12, <1>15 DEF WellBuilt, WithinLimits
<1>21. ActsBelow(h.prods[n], h.acts)
  BY <1>11, <1>12, <1>15 DEF ActsBelow
<1>20. WellBuilt(h)
  BY <1>7, <1>12, <1>13, <1>16, <1>19, <1>21, WellChanged, Zenon
<1> QED BY <1>7, <1>12, <1>20

\* The stack without its top.
LEMMA OptPopped ==
  ASSUME NEW m, WellBuilt(m), Len(m.sp) > 1, NEW e, e = [m EXCEPT !.sp = Tail(@)]
  PROVE  /\ WellBuilt(e) /\ e.fatal = m.fatal /\ Len(e.sp) = Len(m.sp) - 1
         /\ \A i \in 1 .. Len(m.sp) - 1 : e.sp[i] = m.sp[i + 1]
<1>8. /\ IsSeq(m.sp) /\ Len(m.sp) \in Nat
      /\ DOMAIN m = {"nonterms", "acts", "prods", "sp", "goal", "nerrors", "fatal"}
  BY SeqIs DEF WellBuilt
<1>9. /\ DOMAIN e = DOMAIN m /\ e.acts = m.acts /\ e.nonterms = m.nonterms
      /\ e.prods = m.prods /\ e.goal = m.goal /\ e.fatal = m.fatal /\ e.sp = Tail(m.sp)
      /\ e.nerrors = m.nerrors
  BY <1>8
<1>10. /\ IsSeq(e.sp) /\ Len(e.sp) = Len(m.sp) - 1
       /\ \A i \in 1 .. Len(m.sp) - 1 : e.sp[i] = m.sp[i + 1]
  BY <1>8, <1>9, SeqTail
<1>11. \A i \in 1 .. Len(e.sp) : IsOpen(e.sp[i], Len(m.nonterms), Len(m.prods))
  <2> TAKE i \in 1 .. Len(e.sp)
  <2>1. i + 1 \in 1 .. Len(m.sp) /\ e.sp[i] = m.sp[i + 1]
    BY <1>8, <1>10
  <2> QED BY <2>1 DEF WellBuilt
<1>12. WellBuilt(e)
  <2>1. Len(m.prods) # 0
    <3>1. Len(m.sp) # 1
      <4>1. \A k : k > 1 => k # 1
        OBVIOUS
      <4> QED BY <4>1, Zenon
    <3> QED BY <3>1 DEF WellBuilt
  <2>2. Len(e.sp) > 0
    BY <1>8, <1>10
  <2>3. /\ Len(m.nonterms) <= MINACT - MINNONTERM /\ m.acts \in Nat
        /\ IsSeq(m.nonterms) /\ m.goal \in NT(Len(m.nonterms)) \cup {NONE}
        /\ IsSeq(m.prods) /\ (Len(m.prods) > 0 => m.prods[1].lhs = m.goal)
        /\ \A i \in 1 .. Len(m.prods) : IsProduction(m.prods[i], Len(m.nonterms))
    BY DEF WellBuilt
  <2>4. WithinLimits(e)
    <3>1. WithinLimits(m)
      BY DEF WellBuilt
    <3>2. ASSUME NEW i \in 1 .. Len(e.sp), e.sp[i].rhs # NONE
          PROVE  e.prods[e.sp[i].rhs].lhs = e.sp[i].lhs
      <4>1. i + 1 \in 1 .. Len(m.sp) /\ e.sp[i] = m.sp[i + 1]
        BY <1>8, <1>10
      <4> QED BY <1>9, <3>1, <3>2, <4>1 DEF WithinLimits
    <3> QED BY <1>9, <3>1, <3>2 DEF WithinLimits
  <2> QED BY <1>8, <1>9, <1>10, <1>11, <2>1, <2>2, <2>3, <2>4 DEF WellBuilt
<1> QED BY <1>9, <1>10, <1>12

\* ] and ]* close what [ opened.
LEMMA OptEnded ==
  ASSUME file \in Files, NEW g, WellBuilt(g), ~g.fatal, InRhs(g), Len(g.sp) > 1,
         NEW star \in BOOLEAN, NEW h, h = end_opt(g, star)
  PROVE  WellBuilt(h) /\ (~h.fatal => InRhs(h) /\ Len(h.sp) = Len(g.sp) - 1)
<1>1. PICK name : name = g.nonterms[Head(g.sp).lhs - MINNONTERM + 1].name
  OBVIOUS
<1>2. PICK m : m = IF star THEN Repeated(g, name) ELSE g
  OBVIOUS
<1>3. PICK e : e = [m EXCEPT !.sp = Tail(@)]
  OBVIOUS
<1>4. h = IF m.fatal THEN m ELSE add_to_rhs(e, name)
  BY <1>1, <1>2, <1>3 DEF end_opt
<1>6. Len(g.sp) \in Nat /\ g.sp[1].rhs # NONE
  BY SeqIs DEF WellBuilt, InRhs
<1>5. WellBuilt(m) /\ (~m.fatal => m.sp = g.sp)
  <2>1. CASE star
    BY <1>2, <1>6, <2>1, RepeatedMade
  <2>2. CASE ~star
    BY <1>2, <2>2
  <2> QED BY <2>1, <2>2
<1>7. CASE m.fatal
  BY <1>4, <1>5, <1>7
<1>8. CASE ~m.fatal
  <2>1. m.sp = g.sp /\ h = add_to_rhs(e, name)
    BY <1>4, <1>5, <1>8
  <2>2. /\ WellBuilt(e) /\ ~e.fatal /\ Len(e.sp) = Len(g.sp) - 1
        /\ \A i \in 1 .. Len(g.sp) - 1 : e.sp[i] = g.sp[i + 1]
    BY <1>3, <1>5, <1>8, <2>1, OptPopped
  <2>3. \A i \in 1 .. Len(e.sp) : e.sp[i].rhs # NONE
    <3> TAKE i \in 1 .. Len(e.sp)
    <3>1. i + 1 \in 1 .. Len(g.sp) /\ e.sp[i] = g.sp[i + 1]
      BY <1>6, <2>2
    <3> QED BY <3>1 DEF InRhs
  <2>4. 1 \in 1 .. Len(e.sp)
    BY <1>6, <2>2
  <2>5. WellBuilt(h) /\ (~h.fatal => h.sp = e.sp)
    BY <2>1, <2>2, <2>3, <2>4, SymbolAdded
  <2> QED BY <2>2, <2>3, <2>5 DEF InRhs
<1> QED BY <1>7, <1>8

\* %prec.
LEMMA PrecSet ==
  ASSUME NEW g, WellBuilt(g), g.sp[1].rhs # NONE, NEW name, NEW h, h = prec(g, name)
  PROVE  WellBuilt(h) /\ h.sp = g.sp
<1>1. PICK n : n = Head(g.sp).rhs
  OBVIOUS
<1>2. PICK v : v = level(Min(Lookup(g, name)))
  OBVIOUS
<1>3. h = [g EXCEPT !.prods[n].prec = v]
  BY <1>1, <1>2 DEF prec
<1>4. n \in 1 .. Len(g.prods)
  <2>1. IsSeq(g.sp) /\ Len(g.sp) > 0 /\ Len(g.sp) \in Nat
    BY SeqIs DEF WellBuilt
  <2>2. n = g.sp[1].rhs /\ IsOpen(g.sp[1], Len(g.nonterms), Len(g.prods))
    BY <1>1, <2>1, SeqTail DEF WellBuilt
  <2> QED BY <2>2 DEF IsOpen
<1>5. PICK p : p = g.prods[n]
  OBVIOUS
<1>6. /\ DOMAIN g.prods = 1 .. Len(g.prods) /\ IsProduction(p, Len(g.nonterms)) /\ g.acts \in Nat
      /\ DOMAIN g = {"nonterms", "acts", "prods", "sp", "goal", "nerrors", "fatal"}
  BY <1>4, <1>5, SeqIs DEF WellBuilt
<1>7. /\ DOMAIN h = DOMAIN g /\ h.nonterms = g.nonterms /\ h.sp = g.sp
      /\ h.goal = g.goal /\ h.acts = g.acts /\ h.nerrors = g.nerrors
  BY <1>3, <1>6
<1>8. /\ IsSeq(h.prods) /\ Len(h.prods) = Len(g.prods)
      /\ \A i \in 1 .. Len(g.prods) : i # n => h.prods[i] = g.prods[i]
  <2>1. /\ h.prods = [i \in 1 .. Len(g.prods) |-> h.prods[i]]
        /\ \A i \in 1 .. Len(g.prods) : i # n => h.prods[i] = g.prods[i]
    BY <1>3, <1>6
  <2>2. Len(g.prods) \in Nat
    BY SeqIs DEF WellBuilt
  <2> QED BY <2>1, <2>2, SeqFunction
<1>9. h.prods[n] = [p EXCEPT !.prec = v]
  BY <1>3, <1>4, <1>5, <1>6
<1>10. DOMAIN h.prods[n] = DOMAIN p /\ h.prods[n].lhs = p.lhs /\ h.prods[n].rhs = p.rhs
  BY <1>6, <1>9 DEF IsProduction
<1>11. IsProduction(h.prods[n], Len(g.nonterms))
  BY <1>6, <1>10 DEF IsProduction
<1>12. /\ h.acts \in Nat /\ h.prods[n].lhs = g.prods[n].lhs /\ h.acts >= g.acts
       /\ h.nerrors \in Nat
  BY <1>5, <1>6, <1>7, <1>10 DEF WellBuilt, WithinLimits
<1>14. ActsBelow(h.prods[n], h.acts)
  <2>1. ActsBelow(p, g.acts)
    BY <1>4, <1>5 DEF WellBuilt, WithinLimits
  <2> QED BY <1>7, <1>10, <2>1 DEF ActsBelow
<1>13. WellBuilt(h)
  BY <1>4, <1>7, <1>8, <1>11, <1>12, <1>14, WellChanged, Zenon
<1> QED BY <1>7, <1>13

-----------------------------------------------------------------------------
(* The file is read, call after call. *)

\* As far as it has been read.
Reading ==
  /\ file \in Files /\ made \in 0 .. Len(Calls)
  /\ WellBuilt(Built)
  /\ Len(sp) = 1 + Opened(Calls, made)
  /\ made > 0 /\ Calls[made].c \notin {"type", "lhs"} => InRhs(Built)
  /\ Len(prods) = 0 => goal = NONE \/ (made > 0 /\ Calls[made].c = "lhs")

\* And when it has been read.
Ready ==
  /\ file \in Files /\ WellBuilt(Built)
  /\ Len(prods) = 0 => goal = NONE
  /\ IsSeq(order) /\ \A A \in Nonterms : \E k \in DOMAIN order : order[k] = A

\* Nothing is open before the first call.
LEMMA OpenedFirst == \A calls : Opened(calls, 0) = 0
<1>1. \A calls : /\ {j \in 1 .. 0 : calls[j].c = "["} = {}
                 /\ {j \in 1 .. 0 : calls[j].c \in {"]", "]*"}} = {}
  OBVIOUS
<1> QED BY <1>1, FS_EmptySet DEF Opened

\* One more call.
LEMMA OpenedNext ==
  ASSUME NEW calls, NEW i \in Nat
  PROVE  /\ Opened(calls, i) \in Int
         /\ calls[i + 1].c = "[" => Opened(calls, i + 1) = Opened(calls, i) + 1
         /\ calls[i + 1].c \in {"]", "]*"} => Opened(calls, i + 1) = Opened(calls, i) - 1
         /\ calls[i + 1].c \notin {"[", "]", "]*"} => Opened(calls, i + 1) = Opened(calls, i)
<1> DEFINE O(n) == {j \in 1 .. n : calls[j].c = "["}
           C(n) == {j \in 1 .. n : calls[j].c \in {"]", "]*"}}
<1>1. ASSUME NEW n \in Nat
      PROVE  /\ IsFiniteSet(O(n)) /\ Cardinality(O(n)) \in Nat
             /\ IsFiniteSet(C(n)) /\ Cardinality(C(n)) \in Nat
  <2>1. IsFiniteSet(1 .. n)
    BY FS_Interval
  <2>2. IsFiniteSet(O(n)) /\ IsFiniteSet(C(n))
    BY <2>1, FS_Subset
  <2> QED BY <2>2, FS_CardinalityType
<1>2. i + 1 \notin O(i) /\ i + 1 \notin C(i) /\ i + 1 \in Nat
  OBVIOUS
<1>3. /\ calls[i + 1].c = "[" => O(i + 1) = O(i) \cup {i + 1}
      /\ calls[i + 1].c # "[" => O(i + 1) = O(i)
      /\ calls[i + 1].c \in {"]", "]*"} => C(i + 1) = C(i) \cup {i + 1}
      /\ calls[i + 1].c \notin {"]", "]*"} => C(i + 1) = C(i)
  <2>1. 1 .. i + 1 = (1 .. i) \cup {i + 1}
    OBVIOUS
  <2> QED BY <2>1
<1>4. \A n \in Nat : Opened(calls, n) = Cardinality(O(n)) - Cardinality(C(n))
  BY DEF Opened
<1> HIDE DEF O, C
<1>5. /\ Cardinality(O(i) \cup {i + 1}) = Cardinality(O(i)) + 1
      /\ Cardinality(C(i) \cup {i + 1}) = Cardinality(C(i)) + 1
  BY <1>1, <1>2, FS_AddElement
<1>6. /\ calls[i + 1].c = "[" => calls[i + 1].c \notin {"]", "]*"}
      /\ calls[i + 1].c \in {"]", "]*"} => calls[i + 1].c # "["
  OBVIOUS
<1>7. PICK a \in Nat, b \in Nat : a = Cardinality(O(i)) /\ b = Cardinality(C(i))
  BY <1>1
<1>8. Opened(calls, i) = a - b
  BY <1>4, <1>7
<1>9. CASE calls[i + 1].c = "["
  <2>1. Opened(calls, i + 1) = a + 1 - b
    <3>1. Opened(calls, i + 1) = Cardinality(O(i + 1)) - Cardinality(C(i + 1))
      BY <1>2, <1>4
    <3>2. Opened(calls, i + 1) = Cardinality(O(i) \cup {i + 1}) - Cardinality(C(i))
      BY <1>3, <1>6, <1>9, <3>1
    <3> QED BY <1>5, <1>7, <3>2
  <2> QED BY <1>6, <1>8, <1>9, <2>1
<1>10. CASE calls[i + 1].c \in {"]", "]*"}
  <2>1. Opened(calls, i + 1) = a - (b + 1)
    <3>1. Opened(calls, i + 1) = Cardinality(O(i + 1)) - Cardinality(C(i + 1))
      BY <1>2, <1>4
    <3>2. Opened(calls, i + 1) = Cardinality(O(i)) - Cardinality(C(i) \cup {i + 1})
      BY <1>3, <1>6, <1>10, <3>1
    <3> QED BY <1>5, <1>7, <3>2
  <2> QED BY <1>6, <1>8, <1>10, <2>1
<1>11. CASE calls[i + 1].c \notin {"[", "]", "]*"}
  <2>1. Opened(calls, i + 1) = a - b
    <3>1. Opened(calls, i + 1) = Cardinality(O(i + 1)) - Cardinality(C(i + 1))
      BY <1>2, <1>4
    <3>2. Opened(calls, i + 1) = Cardinality(O(i)) - Cardinality(C(i))
      BY <1>3, <1>6, <1>11, <3>1
    <3> QED BY <1>5, <1>7, <3>2
  <2> QED BY <1>8, <1>11, <2>1
<1> QED BY <1>9, <1>10, <1>11

\* What is open leads to a production.
LEMMA OpenProds ==
  ASSUME NEW g, WellBuilt(g), InRhs(g)
  PROVE  Len(g.prods) \in Nat /\ Len(g.prods) > 0 /\ g.sp[1].rhs # NONE
<1>1. Len(g.prods) \in Nat /\ Len(g.sp) \in Nat /\ Len(g.sp) > 0
  BY SeqIs DEF WellBuilt
<1>2. g.sp[1].rhs # NONE /\ IsOpen(g.sp[1], Len(g.nonterms), Len(g.prods))
  BY <1>1 DEF WellBuilt, InRhs
<1>3. g.sp[1].rhs \in 1 .. Len(g.prods)
  BY <1>2 DEF IsOpen
<1> QED BY <1>1, <1>2, <1>3

\* While the file is the same, so are its words.
LEMMA SameWellBuilt ==
  ASSUME file' = file, NEW w
  PROVE  WellBuilt(w)' <=> WellBuilt(w)
<1>1. \A k : Vocabulary(k)' = Vocabulary(k)
  BY DEF Vocabulary, terms, NT
<1>2. \A p, k : IsProduction(p, k)' <=> IsProduction(p, k)
  BY <1>1 DEF IsProduction, NT
<1>3. WithinLimits(w)' <=> WithinLimits(w)
  BY DEF WithinLimits, ActsBelow, ISACT
<1> QED BY <1>2, <1>3 DEF WellBuilt, IsOpen, NT

\* The functions of acts.c leave what is well built in the variables.
LEMMA BecomesWell ==
  ASSUME NEW h, WellBuilt(h), Becomes(h), file' = file
  PROVE  /\ WellBuilt(Built)' /\ (InRhs(h) => InRhs(Built)')
         /\ sp' = h.sp /\ prods' = h.prods /\ goal' = h.goal /\ (~h.fatal => at' = at)
<1>1. /\ nonterms' = h.nonterms /\ acts' = h.acts /\ prods' = h.prods /\ sp' = h.sp
      /\ goal' = h.goal /\ nerrors' = h.nerrors /\ (~h.fatal => at' = at)
  BY DEF Becomes
<1>2. PICK w : w = Built'
  OBVIOUS
<1>3. /\ DOMAIN w = {"nonterms", "acts", "prods", "sp", "goal", "nerrors", "fatal"}
      /\ w.nonterms = h.nonterms /\ w.acts = h.acts /\ w.prods = h.prods /\ w.sp = h.sp
      /\ w.goal = h.goal /\ w.nerrors = h.nerrors
  BY <1>1, <1>2 DEF Built
<1>7. WithinLimits(w)
  <2>1. WithinLimits(h)
    BY DEF WellBuilt
  <2> QED BY <1>3, <2>1 DEF WithinLimits
<1>4. WellBuilt(w)
  BY <1>3, <1>7 DEF WellBuilt
<1>5. WellBuilt(w)'
  BY <1>4, SameWellBuilt
<1>6. InRhs(h) => InRhs(w)
  BY <1>3 DEF InRhs
<1> QED BY <1>1, <1>2, <1>5, <1>6 DEF InRhs

\* The order of the calls in a file.
LEMMA CallOrder ==
  ASSUME file \in Files
  PROVE  /\ Len(Calls) \in Nat
         /\ \A i \in 1 .. Len(Calls) :
              /\ Calls[i].c = "type" => i = 1 \/ Calls[i - 1].c = "type"
              /\ Calls[i].c = "lhs" => /\ Opened(Calls, i) = 0
                                       /\ i < Len(Calls) /\ Calls[i + 1].c = "rhs"
              /\ Calls[i].c = "rhs" => Opened(Calls, i) = 0
              /\ Calls[i].c \in {"symbol", "action", "prec", "[", "]", "]*"} =>
                   Opened(Calls, i) >= 0 /\ i > 1 /\ Calls[i - 1].c \notin {"type", "lhs"}
<1>1. Calls \in Seq(Range(Calls))
  BY CallsAssumption DEF Calls
<1>2. Len(Calls) \in Nat
  BY <1>1
<1>3. ASSUME NEW i \in 1 .. Len(Calls)
      PROVE  /\ Calls[i].c = "type" => i = 1 \/ Calls[i - 1].c = "type"
             /\ Calls[i].c = "lhs" => /\ Opened(Calls, i) = 0
                                      /\ i < Len(Calls) /\ Calls[i + 1].c = "rhs"
             /\ Calls[i].c = "rhs" => Opened(Calls, i) = 0
             /\ Calls[i].c \in {"symbol", "action", "prec", "[", "]", "]*"} =>
                  Opened(Calls, i) >= 0 /\ i > 1 /\ Calls[i - 1].c \notin {"type", "lhs"}
  BY <1>3, CallsAssumption DEF Calls
<1> QED BY <1>2, <1>3

\* A call has been made.
LEMMA ReadOn ==
  ASSUME Reading, at = "read", made < Len(Calls), made' = made + 1, file' = file,
         NEW h, Becomes(h), ~h.fatal, WellBuilt(h),
         Len(h.sp) = 1 + Opened(Calls, made + 1),
         Call.c \notin {"type", "lhs"} => InRhs(h),
         Len(h.prods) = 0 => h.goal = NONE \/ Call.c = "lhs"
  PROVE  at' = "read" /\ Reading'
<1>1. /\ WellBuilt(Built)' /\ (InRhs(h) => InRhs(Built)')
      /\ sp' = h.sp /\ prods' = h.prods /\ goal' = h.goal /\ at' = at
  BY BecomesWell
<1>2. Calls' = Calls /\ Len(Calls) \in Nat /\ file' \in Files
  BY CallOrder DEF Reading, Calls
<1>3. made' \in 0 .. Len(Calls') /\ made' > 0 /\ Calls'[made'] = Call
  BY <1>2 DEF Reading, Call
<1>4. Opened(Calls, made)' = Opened(Calls, made + 1)
  BY <1>2 DEF Opened
<1>5. Len(sp') = 1 + Opened(Calls, made)'
  BY <1>1, <1>4
<1> QED BY <1>1, <1>2, <1>3, <1>5 DEF Reading

\* One to one between finite sets of the same size is onto.
LEMMA OneToOneOnto ==
  ASSUME NEW S, NEW T, IsFiniteSet(S), IsFiniteSet(T), Cardinality(S) = Cardinality(T),
         NEW f \in [S -> T], \A x, y \in S : x # y => f[x] # f[y]
  PROVE  \A t \in T : \E x \in S : f[x] = t
<1>1. f \in Injection(S, T)
  BY DEF Injection, IsInjective
<1>2. f \in Surjection(S, T)
  BY <1>1, FS_Injection
<1> QED BY <1>2 DEF Surjection

\* Every nonterminal has its place in the symbol table.
LEMMA OrderOnto ==
  ASSUME file \in Files, WellBuilt(Built), NEW o \in SetToSeqs(Nonterms)
  PROVE  IsSeq(o) /\ \A A \in Nonterms : \E k \in DOMAIN o : o[k] = A
<1>1. Len(nonterms) \in Nat
  BY SeqIs DEF WellBuilt, Built
<1>2. IsFiniteSet(Nonterms)
  <2>1. IsFiniteSet(MINNONTERM .. MINNONTERM + Len(nonterms))
    BY <1>1, FS_Interval, NumbersAssumption
  <2>2. Nonterms \subseteq MINNONTERM .. MINNONTERM + Len(nonterms)
    BY <1>1, NumbersAssumption DEF Nonterms, Val
  <2> QED BY <2>1, <2>2, FS_Subset
<1>3. PICK c \in Nat : c = Cardinality(Nonterms)
  BY <1>2, FS_CardinalityType
<1>4. o \in [1 .. c -> Nonterms] /\ \A i, j \in 1 .. c : i # j => o[i] # o[j]
  BY <1>3 DEF SetToSeqs
<1>5. IsFiniteSet(1 .. c) /\ Cardinality(1 .. c) = c
  BY FS_Interval
<1>6. \A A \in Nonterms : \E k \in 1 .. c : o[k] = A
  <2>1. PICK D : D = 1 .. c
    OBVIOUS
  <2>2. PICK N : N = Nonterms
    OBVIOUS
  <2>3. IsFiniteSet(D) /\ IsFiniteSet(N) /\ Cardinality(D) = Cardinality(N)
    BY <1>2, <1>3, <1>5, <2>1, <2>2, Zenon
  <2>4. o \in [D -> N]
    BY <1>4, <2>1, <2>2, Zenon
  <2>5. \A i, j \in D : i # j => o[i] # o[j]
    BY <1>4, <2>1
  <2>6. \A A \in N : \E k \in D : o[k] = A
    BY <2>3, <2>4, <2>5, OneToOneOnto
  <2> QED BY <2>1, <2>2, <2>6, Zenon
<1>7. o \in Seq(Nonterms)
  BY <1>4
<1> QED BY <1>4, <1>6, <1>7 DEF IsSeq

\* find_problems() counts errors.
LEMMA ProblemsCounted ==
  ASSUME IsSeq(nonterms)
  PROVE  Cardinality(Problems) \in Nat
<1>1. IsFiniteSet(1 .. Len(nonterms))
  BY SeqIs, FS_Interval
<1>2. Problems \subseteq 1 .. Len(nonterms)
  BY DEF Problems
<1> QED BY <1>1, <1>2, FS_Subset, FS_CardinalityType

\* What is known when a call is made.
CallMade ==
  /\ Call.c = "type" => made = 0 \/ Calls[made].c = "type"
  /\ Call.c = "lhs" => Opened(Calls, made + 1) = 0
  /\ Call.c = "rhs" => Opened(Calls, made + 1) = 0
  /\ Call.c \in {"symbol", "action", "prec", "[", "]", "]*"} =>
       Opened(Calls, made + 1) >= 0 /\ InRhs(Built)
  /\ made > 0 /\ Calls[made].c = "lhs" => Call.c = "rhs"
LEMMA CallFacts ==
  ASSUME Reading
  PROVE  /\ file \in Files /\ made \in 0 .. Len(Calls) /\ made \in Nat
         /\ WellBuilt(Built) /\ ~Built.fatal /\ Built.sp = sp /\ Built.prods = prods
         /\ Built.goal = goal /\ Built.nonterms = nonterms
         /\ Len(sp) = 1 + Opened(Calls, made)
         /\ Len(Calls) \in Nat
         /\ Opened(Calls, made) \in Int
         /\ Call.c = "[" => Opened(Calls, made + 1) = Opened(Calls, made) + 1
         /\ Call.c \in {"]", "]*"} => Opened(Calls, made + 1) = Opened(Calls, made) - 1
         /\ Call.c \notin {"[", "]", "]*"} => Opened(Calls, made + 1) = Opened(Calls, made)
         /\ made < Len(Calls) => CallMade
<1>1. /\ file \in Files /\ made \in 0 .. Len(Calls) /\ made \in Nat
      /\ WellBuilt(Built) /\ ~Built.fatal /\ Built.sp = sp /\ Built.prods = prods
      /\ Built.goal = goal /\ Built.nonterms = nonterms
      /\ Len(sp) = 1 + Opened(Calls, made)
  BY DEF Reading, Built
<1>2. Len(Calls) \in Nat
  BY <1>1, CallOrder
<1>3. /\ Opened(Calls, made) \in Int
      /\ Call.c = "[" => Opened(Calls, made + 1) = Opened(Calls, made) + 1
      /\ Call.c \in {"]", "]*"} => Opened(Calls, made + 1) = Opened(Calls, made) - 1
      /\ Call.c \notin {"[", "]", "]*"} => Opened(Calls, made + 1) = Opened(Calls, made)
  BY <1>1, OpenedNext DEF Call
<1>4. ASSUME made < Len(Calls)
      PROVE  /\ Call.c = "type" => made = 0 \/ Calls[made].c = "type"
             /\ Call.c = "lhs" => Opened(Calls, made + 1) = 0
             /\ Call.c = "rhs" => Opened(Calls, made + 1) = 0
             /\ Call.c \in {"symbol", "action", "prec", "[", "]", "]*"} =>
                  Opened(Calls, made + 1) >= 0 /\ InRhs(Built)
             /\ made > 0 /\ Calls[made].c = "lhs" => Call.c = "rhs"
  <2>1. made + 1 \in 1 .. Len(Calls) /\ (made + 1) - 1 = made
    BY <1>1, <1>2, <1>4
  <2>2. /\ Call.c = "type" => made + 1 = 1 \/ Calls[made].c = "type"
        /\ Call.c = "lhs" => Opened(Calls, made + 1) = 0
        /\ Call.c = "rhs" => Opened(Calls, made + 1) = 0
        /\ Call.c \in {"symbol", "action", "prec", "[", "]", "]*"} =>
             /\ Opened(Calls, made + 1) >= 0 /\ made + 1 > 1
             /\ Calls[made].c \notin {"type", "lhs"}
    BY <1>1, <2>1, CallOrder DEF Call
  <2>3. made > 0 => made \in 1 .. Len(Calls)
    BY <1>1
  <2>4. made > 0 /\ Calls[made].c = "lhs" => Call.c = "rhs"
    BY <1>1, <2>3, CallOrder DEF Call
  <2>5. made + 1 > 1 => made > 0
    BY <1>1
  <2>6. made + 1 = 1 => made = 0
    BY <1>1
  <2> QED BY <2>2, <2>4, <2>5, <2>6 DEF Reading
<1> QED BY <1>1, <1>2, <1>3, <1>4 DEF CallMade

\* A call of a function of acts.c, or the end of the file.
LEMMA ReadStep ==
  ASSUME Reading, at = "read", ReadNext
  PROVE  \/ at' = "read" /\ Reading'
         \/ at' = "first" /\ Ready' /\ UNCHANGED <<prods, nonterms, goal>>
         \/ at' \in {"fatal", "undefined", "errors"}
<1>1. /\ file \in Files /\ made \in 0 .. Len(Calls) /\ made \in Nat
      /\ WellBuilt(Built) /\ ~Built.fatal /\ Built.sp = sp /\ Built.prods = prods
      /\ Built.goal = goal /\ Built.nonterms = nonterms
      /\ Len(sp) = 1 + Opened(Calls, made)
  BY CallFacts
<1>2. Len(Calls) \in Nat
  BY CallFacts
<1>3. /\ Opened(Calls, made) \in Int
      /\ Call.c = "[" => Opened(Calls, made + 1) = Opened(Calls, made) + 1
      /\ Call.c \in {"]", "]*"} => Opened(Calls, made + 1) = Opened(Calls, made) - 1
      /\ Call.c \notin {"[", "]", "]*"} => Opened(Calls, made + 1) = Opened(Calls, made)
  BY CallFacts
<1>4. ASSUME made < Len(Calls)
      PROVE  /\ Call.c = "type" => made = 0 \/ Calls[made].c = "type"
             /\ Call.c = "lhs" => Opened(Calls, made + 1) = 0
             /\ Call.c = "rhs" => Opened(Calls, made + 1) = 0
             /\ Call.c \in {"symbol", "action", "prec", "[", "]", "]*"} =>
                  Opened(Calls, made + 1) >= 0 /\ InRhs(Built)
             /\ made > 0 /\ Calls[made].c = "lhs" => Call.c = "rhs"
  BY <1>4, CallFacts DEF CallMade
<1> USE DEF Made
<1>5. CASE Type
  <2>1. PICK h : h = new_nonterm(Built, Call.name, FALSE)
    OBVIOUS
  <2>2. /\ Becomes(h) /\ made < Len(Calls) /\ made' = made + 1 /\ file' = file
        /\ Call.c = "type"
    BY <1>5, <2>1 DEF Type
  <2>3. CASE h.fatal
    BY <2>2, <2>3 DEF Becomes
  <2>4. CASE ~h.fatal
    <3>1. TopKept(Built, h) /\ TopSame(Built, h, Call.name)
      BY <1>1, <2>1, <2>4, NonterminalMade
    <3>2. WellBuilt(h) /\ h.prods = prods /\ h.sp = sp /\ h.goal = goal
      BY <1>1, <3>1 DEF TopKept, TopSame
    <3>3. Len(h.prods) = 0 => h.goal = NONE
      BY <1>4, <2>2, <3>2 DEF Reading
    <3>4. Len(h.sp) = 1 + Opened(Calls, made + 1)
      BY <1>1, <1>3, <2>2, <3>2
    <3> QED BY <2>2, <2>4, <3>2, <3>3, <3>4, ReadOn
  <2> QED BY <2>3, <2>4
<1>6. CASE Lhs
  <2>1. PICK h : h = new_nonterm(Built, Call.name, TRUE)
    OBVIOUS
  <2>2. /\ Becomes(h) /\ made < Len(Calls) /\ made' = made + 1 /\ file' = file
        /\ Call.c = "lhs"
    BY <1>6, <2>1 DEF Lhs
  <2>3. CASE h.fatal
    BY <2>2, <2>3 DEF Becomes
  <2>4. CASE ~h.fatal
    <3>1. Len(prods) # 0 \/ goal = NONE
      BY <1>4, <2>2 DEF Reading
    <3>2. TopKept(Built, h)
      BY <1>1, <2>1, <2>4, <3>1, TopMade
    <3>3. WellBuilt(h) /\ Len(h.sp) = Len(sp)
      BY <1>1, <3>2 DEF TopKept
    <3>4. Len(h.sp) = 1 + Opened(Calls, made + 1)
      BY <1>1, <1>3, <2>2, <3>3
    <3> QED BY <2>2, <2>4, <3>3, <3>4, ReadOn
  <2> QED BY <2>3, <2>4
<1>7. CASE Rhs
  <2>1. PICK h : h = new_rhs(Built)
    OBVIOUS
  <2>2. /\ Becomes(h) /\ made < Len(Calls) /\ made' = made + 1 /\ file' = file
        /\ Call.c = "rhs"
    BY <1>7, <2>1 DEF Rhs
  <2>3. CASE h.fatal
    BY <2>2, <2>3 DEF Becomes
  <2>4. CASE ~h.fatal
    <3>1. /\ WellBuilt(h) /\ Len(h.sp) = Len(sp) /\ Len(h.prods) = Len(prods) + 1
          /\ h.sp[1].rhs = Len(h.prods)
      BY <1>1, <2>1, <2>4, RhsMade
    <3>2. Len(h.sp) = 1 + Opened(Calls, made + 1) /\ Len(h.sp) = 1
      BY <1>1, <1>3, <1>4, <2>2, <3>1
    <3>3. Len(prods) \in Nat
      BY <1>1, SeqIs DEF WellBuilt
    <3>4. InRhs(h) /\ Len(h.prods) # 0
      BY <3>1, <3>2, <3>3 DEF InRhs, NONE
    <3> QED BY <2>2, <2>4, <3>1, <3>2, <3>4, ReadOn
  <2> QED BY <2>3, <2>4
<1>8. ASSUME NEW h, ~h.fatal, Becomes(h), made < Len(Calls), made' = made + 1, file' = file,
             WellBuilt(h), InRhs(h), Len(h.sp) = 1 + Opened(Calls, made + 1)
      PROVE  at' = "read" /\ Reading'
  <2>1. Len(h.prods) # 0
    <3>1. Len(h.prods) > 0 /\ Len(h.prods) \in Nat
      BY <1>8, OpenProds
    <3> QED BY <3>1
  <2> QED BY <1>8, <2>1, ReadOn
<1>9. ASSUME NEW h, ~h.fatal, Becomes(h), made < Len(Calls), made' = made + 1, file' = file,
             Call.c \in {"symbol", "action", "prec"}, WellBuilt(h), h.sp = sp, InRhs(Built)
      PROVE  at' = "read" /\ Reading'
  <2>1. InRhs(h)
    BY <1>1, <1>9 DEF InRhs
  <2>2. Len(h.sp) = 1 + Opened(Calls, made + 1)
    BY <1>1, <1>3, <1>9
  <2> QED BY <1>8, <1>9, <2>1, <2>2
<1>10. InRhs(Built) => /\ Built.sp[1].rhs # NONE /\ Len(Built.prods) > 0
  BY <1>1, OpenProds
<1>11. CASE Symbol
  <2>1. PICK h : h = add_to_rhs(Built, Call.name)
    OBVIOUS
  <2>2. /\ Becomes(h) /\ made < Len(Calls) /\ made' = made + 1 /\ file' = file
        /\ Call.c = "symbol"
    BY <1>11, <2>1 DEF Symbol
  <2>3. CASE h.fatal
    BY <2>2, <2>3 DEF Becomes
  <2>4. CASE ~h.fatal
    <3>1. InRhs(Built) /\ Built.sp[1].rhs # NONE
      BY <1>4, <1>10, <2>2
    <3>2. WellBuilt(h) /\ h.sp = Built.sp
      BY <1>1, <2>1, <2>4, <3>1, SymbolAdded
    <3> QED BY <1>1, <1>9, <2>2, <2>4, <3>1, <3>2
  <2> QED BY <2>3, <2>4
<1>12. CASE Action
  <2>1. PICK h : h = add_action(Built)
    OBVIOUS
  <2>2. /\ Becomes(h) /\ made < Len(Calls) /\ made' = made + 1 /\ file' = file
        /\ Call.c = "action"
    BY <1>12, <2>1 DEF Action
  <2>3. CASE h.fatal
    BY <2>2, <2>3 DEF Becomes
  <2>4. CASE ~h.fatal
    <3>1. InRhs(Built) /\ Built.sp[1].rhs # NONE
      BY <1>4, <1>10, <2>2
    <3>2. WellBuilt(h) /\ h.sp = Built.sp
      BY <1>1, <2>1, <2>4, <3>1, ActionAdded
    <3> QED BY <1>1, <1>9, <2>2, <2>4, <3>1, <3>2
  <2> QED BY <2>3, <2>4
<1>13. CASE StartOpt
  <2>1. PICK h : h = start_opt(Built)
    OBVIOUS
  <2>2. /\ Becomes(h) /\ made < Len(Calls) /\ made' = made + 1 /\ file' = file
        /\ Call.c = "["
    BY <1>13, <2>1 DEF StartOpt
  <2>3. CASE h.fatal
    BY <2>2, <2>3 DEF Becomes
  <2>4. CASE ~h.fatal
    <3>1. InRhs(Built) /\ Len(Built.prods) > 0
      BY <1>4, <1>10, <2>2
    <3>2. WellBuilt(h) /\ InRhs(h) /\ Len(h.sp) = Len(Built.sp) + 1
      BY <1>1, <2>1, <2>4, <3>1, OptStarted
    <3>3. Len(h.sp) = 1 + Opened(Calls, made + 1)
      BY <1>1, <1>3, <2>2, <3>2
    <3> QED BY <1>8, <2>2, <2>4, <3>2, <3>3
  <2> QED BY <2>3, <2>4
<1>14. CASE NestTooDeep
  BY <1>14 DEF NestTooDeep
<1>15. ASSUME NEW star \in BOOLEAN, NEW c \in {"]", "]*"}, Made(c),
              Becomes(end_opt(Built, star))
       PROVE  (at' = "read" /\ Reading') \/ at' = "fatal"
  <2>1. PICK h : h = end_opt(Built, star)
    OBVIOUS
  <2>2. /\ Becomes(h) /\ made < Len(Calls) /\ made' = made + 1 /\ file' = file
        /\ Call.c \in {"]", "]*"}
    BY <1>15, <2>1
  <2>3. CASE h.fatal
    BY <2>2, <2>3 DEF Becomes
  <2>4. CASE ~h.fatal
    <3>1. InRhs(Built) /\ Opened(Calls, made + 1) >= 0
      BY <1>4, <2>2
    <3>2. Opened(Calls, made + 1) = Opened(Calls, made) - 1
      BY <1>3, <2>2
    <3>3. Len(Built.sp) > 1
      <4>1. PICK o \in Int : o = Opened(Calls, made)
        BY <1>3
      <4>2. o - 1 >= 0 /\ Len(Built.sp) = 1 + o
        BY <1>1, <3>1, <3>2, <4>1
      <4> QED BY <4>2
    <3>4. WellBuilt(h) /\ InRhs(h) /\ Len(h.sp) = Len(Built.sp) - 1
      BY <1>1, <2>1, <2>4, <3>1, <3>3, OptEnded
    <3>5. Len(h.sp) = 1 + Opened(Calls, made + 1)
      BY <1>1, <1>3, <3>2, <3>4
    <3> QED BY <1>8, <2>2, <2>4, <3>4, <3>5
  <2> QED BY <2>3, <2>4
<1>16. CASE EndOpt
  <2>1. Made("]") /\ Becomes(end_opt(Built, FALSE))
    BY <1>16 DEF EndOpt
  <2> HIDE DEF Made
  <2> QED BY <1>15, <2>1
<1>17. CASE EndRep
  <2>1. Made("]*") /\ Becomes(end_opt(Built, TRUE))
    BY <1>17 DEF EndRep
  <2> HIDE DEF Made
  <2> QED BY <1>15, <2>1
<1>18. CASE Prec
  <2>1. PICK h : h = prec(Built, Call.name)
    OBVIOUS
  <2>2. /\ Becomes(h) /\ made < Len(Calls) /\ made' = made + 1 /\ file' = file
        /\ Call.c = "prec"
    BY <1>18, <2>1 DEF Prec
  <2>3. CASE h.fatal
    BY <2>2, <2>3 DEF Becomes
  <2>4. CASE ~h.fatal
    <3>1. InRhs(Built) /\ Built.sp[1].rhs # NONE
      BY <1>4, <1>10, <2>2
    <3>2. WellBuilt(h) /\ h.sp = Built.sp
      BY <1>1, <2>1, <2>4, <3>1, PrecSet
    <3> QED BY <1>1, <1>9, <2>2, <2>4, <3>1, <3>2
  <2> QED BY <2>3, <2>4
<1> HIDE DEF Made
<1>19. CASE EndOfFile
  <2>1. /\ made = Len(Calls) /\ UNCHANGED <<file, nonterms, acts, prods, sp, goal>>
    BY <1>19 DEF EndOfFile
  <2>2. CASE nerrors' > 0
    BY <1>19, <2>2 DEF EndOfFile
  <2>3. CASE ~(nerrors' > 0)
    <3>1. at' = "first" /\ order' \in SetToSeqs(Nonterms)
      BY <1>19, <2>3 DEF EndOfFile
    <3>2. IsSeq(order') /\ \A A \in Nonterms : \E k \in DOMAIN order' : order'[k] = A
      BY <1>1, <3>1, OrderOnto
    <3>3. Nonterms' = Nonterms
      BY <2>1 DEF Nonterms
    <3>4. Len(prods) = 0 => goal = NONE
      <4>1. made > 0 /\ Calls[made].c = "lhs" => made < Len(Calls)
        BY <1>1, CallOrder
      <4> QED BY <1>1, <1>2, <2>1, <4>1 DEF Reading
    <3>5. PICK w : w = Built'
      OBVIOUS
    <3>6. /\ DOMAIN w = {"nonterms", "acts", "prods", "sp", "goal", "nerrors", "fatal"}
          /\ w.nonterms = nonterms /\ w.acts = acts /\ w.prods = prods /\ w.sp = sp
          /\ w.goal = goal
      BY <2>1, <3>5 DEF Built
    <3>9. WithinLimits(w)
      <4>1. WithinLimits(Built) /\ nerrors \in Nat
        BY <1>1 DEF WellBuilt, WithinLimits, Built
      <4>2. IsSeq(nonterms)
        BY <1>1 DEF WellBuilt, Built
      <4>3. w.nerrors \in Nat
        BY <1>19, <3>5, <4>1, <4>2, ProblemsCounted DEF EndOfFile, Built
      <4> QED BY <3>6, <4>1, <4>3 DEF WithinLimits, Built
    <3>7. WellBuilt(w)
      BY <1>1, <3>6, <3>9 DEF WellBuilt, Built
    <3>8. WellBuilt(w)'
      <4>1. file' = file
        BY <2>1
      <4> QED BY <3>7, <4>1, SameWellBuilt
    <3> QED BY <1>1, <2>1, <3>1, <3>2, <3>3, <3>4, <3>5, <3>8 DEF Ready
  <2> QED BY <2>2, <2>3
<1> QED
  BY <1>5, <1>6, <1>7, <1>11, <1>12, <1>13, <1>14, <1>16, <1>17, <1>18, <1>19 DEF ReadNext

\* What has been built when reading ends.
GrammarBuilt == file \in Files /\ WellBuilt(Built)

\* Whatever ends the reading leaves what has been built.
LEMMA ReadBuilt ==
  ASSUME Reading, at = "read", ReadNext
  PROVE  GrammarBuilt'
<1>1. /\ file \in Files /\ made \in Nat /\ Len(Calls) \in Nat
      /\ WellBuilt(Built) /\ ~Built.fatal /\ Built.sp = sp /\ Built.prods = prods
      /\ Built.goal = goal /\ Built.nonterms = nonterms
      /\ Len(sp) = 1 + Opened(Calls, made) /\ Opened(Calls, made) \in Int
      /\ Call.c \in {"]", "]*"} => Opened(Calls, made + 1) = Opened(Calls, made) - 1
      /\ made < Len(Calls) => CallMade
  BY CallFacts
<1>2. ASSUME NEW h, Becomes(h), WellBuilt(h), file' = file
      PROVE  GrammarBuilt'
  <2>1. WellBuilt(Built)'
    BY <1>2, BecomesWell
  <2> QED BY <1>1, <1>2, <2>1 DEF GrammarBuilt
<1>3. InRhs(Built) => Built.sp[1].rhs # NONE /\ Len(Built.prods) > 0
  BY <1>1, OpenProds
<1>4. \A c : Made(c) => made < Len(Calls) /\ Call.c = c /\ file' = file /\ CallMade
  BY <1>1 DEF Made
<1>5. CASE Type
  <2>1. PICK h : h = new_nonterm(Built, Call.name, FALSE)
    OBVIOUS
  <2>2. Becomes(h) /\ file' = file
    BY <1>4, <1>5, <2>1 DEF Type
  <2>3. WellBuilt(h)
    <3>1. CASE h.fatal
      BY <1>1, <2>1, <3>1, FatalNonterminal
    <3>2. CASE ~h.fatal
      <4>1. TopKept(Built, h)
        BY <1>1, <2>1, <3>2, NonterminalMade
      <4> QED BY <4>1 DEF TopKept
    <3> QED BY <3>1, <3>2
  <2> QED BY <1>2, <2>2, <2>3
<1>6. CASE Lhs
  <2>1. PICK h : h = new_nonterm(Built, Call.name, TRUE)
    OBVIOUS
  <2>2. Becomes(h) /\ file' = file /\ CallMade /\ Call.c = "lhs"
    BY <1>4, <1>6, <2>1 DEF Lhs
  <2>3. Len(prods) # 0 \/ goal = NONE
    BY <2>2 DEF Reading, CallMade
  <2>4. WellBuilt(h)
    <3>1. CASE h.fatal
      BY <1>1, <2>1, <3>1, FatalNonterminal
    <3>2. CASE ~h.fatal
      <4>1. TopKept(Built, h)
        BY <1>1, <2>1, <2>3, <3>2, TopMade
      <4> QED BY <4>1 DEF TopKept
    <3> QED BY <3>1, <3>2
  <2> QED BY <1>2, <2>2, <2>4
<1>7. CASE Rhs
  <2>1. PICK h : h = new_rhs(Built)
    OBVIOUS
  <2>2. Becomes(h) /\ file' = file
    BY <1>4, <1>7, <2>1 DEF Rhs
  <2>3. WellBuilt(h)
    <3>1. CASE h.fatal
      BY <1>1, <2>1, <3>1, FatalRhs
    <3>2. CASE ~h.fatal
      BY <1>1, <2>1, <3>2, RhsMade
    <3> QED BY <3>1, <3>2
  <2> QED BY <1>2, <2>2, <2>3
<1>8. CASE Symbol
  <2>1. PICK h : h = add_to_rhs(Built, Call.name)
    OBVIOUS
  <2>2. Becomes(h) /\ file' = file /\ CallMade /\ Call.c = "symbol"
    BY <1>4, <1>8, <2>1 DEF Symbol
  <2>3. Built.sp[1].rhs # NONE
    BY <1>3, <2>2 DEF CallMade
  <2>4. WellBuilt(h)
    BY <1>1, <2>1, <2>3, SymbolAdded
  <2> QED BY <1>2, <2>2, <2>4
<1>9. CASE Action
  <2>1. PICK h : h = add_action(Built)
    OBVIOUS
  <2>2. Becomes(h) /\ file' = file /\ CallMade /\ Call.c = "action"
    BY <1>4, <1>9, <2>1 DEF Action
  <2>3. Built.sp[1].rhs # NONE
    BY <1>3, <2>2 DEF CallMade
  <2>4. WellBuilt(h)
    BY <1>1, <2>1, <2>3, ActionAdded
  <2> QED BY <1>2, <2>2, <2>4
<1>10. CASE StartOpt
  <2>1. PICK h : h = start_opt(Built)
    OBVIOUS
  <2>2. Becomes(h) /\ file' = file /\ CallMade /\ Call.c = "["
    BY <1>4, <1>10, <2>1 DEF StartOpt
  <2>3. InRhs(Built) /\ Len(Built.prods) > 0
    BY <1>3, <2>2 DEF CallMade
  <2>4. WellBuilt(h)
    BY <1>1, <2>1, <2>3, OptStarted
  <2> QED BY <1>2, <2>2, <2>4
<1>11. ASSUME NEW star \in BOOLEAN, NEW c \in {"]", "]*"}, Made(c),
              Becomes(end_opt(Built, star))
       PROVE  GrammarBuilt'
  <2>1. PICK h : h = end_opt(Built, star)
    OBVIOUS
  <2>2. Becomes(h) /\ file' = file /\ CallMade /\ Call.c \in {"]", "]*"}
    BY <1>4, <1>11, <2>1
  <2>3. InRhs(Built) /\ Opened(Calls, made + 1) >= 0
    BY <2>2 DEF CallMade
  <2>4. Len(Built.sp) > 1
    <3>1. PICK o \in Int : o = Opened(Calls, made)
      BY <1>1
    <3>2. o - 1 >= 0 /\ Len(Built.sp) = 1 + o
      BY <1>1, <2>2, <2>3, <3>1
    <3> QED BY <3>2
  <2>5. WellBuilt(h)
    BY <1>1, <2>1, <2>3, <2>4, OptEnded
  <2> QED BY <1>2, <2>2, <2>5
<1>12. CASE EndOpt
  <2>1. Made("]") /\ Becomes(end_opt(Built, FALSE))
    BY <1>12 DEF EndOpt
  <2> QED BY <1>11, <2>1
<1>13. CASE EndRep
  <2>1. Made("]*") /\ Becomes(end_opt(Built, TRUE))
    BY <1>13 DEF EndRep
  <2> QED BY <1>11, <2>1
<1>14. CASE Prec
  <2>1. PICK h : h = prec(Built, Call.name)
    OBVIOUS
  <2>2. Becomes(h) /\ file' = file /\ CallMade /\ Call.c = "prec"
    BY <1>4, <1>14, <2>1 DEF Prec
  <2>3. Built.sp[1].rhs # NONE
    BY <1>3, <2>2 DEF CallMade
  <2>4. WellBuilt(h)
    BY <1>1, <2>1, <2>3, PrecSet
  <2> QED BY <1>2, <2>2, <2>4
<1>15. ASSUME file' = file, UNCHANGED <<nonterms, acts, prods, sp, goal>>, nerrors' \in Nat
       PROVE  GrammarBuilt'
  <2>1. PICK w : w = Built'
    OBVIOUS
  <2>2. /\ DOMAIN w = {"nonterms", "acts", "prods", "sp", "goal", "nerrors", "fatal"}
        /\ w.nonterms = nonterms /\ w.acts = acts /\ w.prods = prods /\ w.sp = sp
        /\ w.goal = goal /\ w.nerrors \in Nat
    BY <1>15, <2>1 DEF Built
  <2>3. WithinLimits(w)
    <3>1. WithinLimits(Built)
      BY <1>1 DEF WellBuilt
    <3> QED BY <2>2, <3>1 DEF WithinLimits, Built
  <2>4. WellBuilt(w)
    BY <1>1, <2>2, <2>3 DEF WellBuilt, Built
  <2>5. WellBuilt(w)'
    BY <1>15, <2>4, SameWellBuilt
  <2> QED BY <1>1, <1>15, <2>1, <2>5 DEF GrammarBuilt
<1>16. nerrors \in Nat /\ IsSeq(nonterms)
  BY <1>1 DEF WellBuilt, WithinLimits, Built
<1>17. CASE NestTooDeep
  <2>1. UNCHANGED <<built, file>>
    BY <1>17 DEF NestTooDeep, Made
  <2> QED BY <1>15, <1>16, <2>1 DEF built
<1>18. CASE EndOfFile
  <2>1. /\ UNCHANGED <<file, nonterms, acts, prods, sp, goal>>
        /\ nerrors' = nerrors + Cardinality(Problems)
    BY <1>18 DEF EndOfFile
  <2>2. nerrors' \in Nat
    BY <1>16, <2>1, ProblemsCounted
  <2> QED BY <1>15, <2>1, <2>2
<1> QED
  BY <1>5, <1>6, <1>7, <1>8, <1>9, <1>10, <1>12, <1>13, <1>14, <1>17, <1>18 DEF ReadNext

\* first_closure() changes nothing of it.
LEMMA FirstStep ==
  ASSUME Ready, FirstNext
  PROVE  at' = "first" /\ Ready' /\ UNCHANGED <<prods, nonterms, goal>>
<1>1. UNCHANGED <<file, built, order>> /\ at' = "first"
  BY DEF FirstNext, FirstClosure, FirstPass
<1>2. Built' = Built /\ file' = file /\ Nonterms' = Nonterms
  BY <1>1 DEF Built, built, Nonterms
<1>3. WellBuilt(Built)'
  <2>1. PICK w : w = Built
    OBVIOUS
  <2>2. WellBuilt(w)'
    BY <1>2, <2>1, SameWellBuilt DEF Ready
  <2> QED BY <1>2, <2>1, <2>2
<1> QED BY <1>1, <1>2, <1>3 DEF Ready, built

\* Before the first call nothing is built.
LEMMA InitReading ==
  ASSUME Init
  PROVE  Reading
<1>1. /\ file \in Files /\ made = 0 /\ nonterms = <<>> /\ acts = 0 /\ prods = <<>> /\ nerrors = 0
      /\ sp = <<[lhs |-> NONE, rhs |-> NONE]>> /\ goal = NONE
  BY DEF Init
<1>2. Len(Calls) \in Nat
  BY <1>1, CallsAssumption DEF Calls
<1>3. made \in 0 .. Len(Calls)
  BY <1>1, <1>2
<1>4. PICK o : o = [lhs |-> NONE, rhs |-> NONE]
  OBVIOUS
<1>5. IsSeq(sp) /\ Len(sp) = 1 /\ sp[1] = o
  BY <1>1, <1>4, SeqOfOne
<1>6. Len(sp) = 1 + Opened(Calls, made)
  <2>1. Opened(Calls, made) = 0
    BY <1>1, OpenedFirst
  <2> QED BY <1>5, <2>1
<1>7. IsSeq(nonterms) /\ Len(nonterms) = 0 /\ IsSeq(prods) /\ Len(prods) = 0
  BY <1>1, SeqOfNone
<1>8. WellBuilt(Built)
  <2>1. PICK g : g = Built
    OBVIOUS
  <2>2. /\ DOMAIN g = {"nonterms", "acts", "prods", "sp", "goal", "nerrors", "fatal"}
        /\ g.nonterms = nonterms /\ g.acts = acts /\ g.prods = prods /\ g.sp = sp /\ g.goal = goal
    BY <2>1 DEF Built
  <2>3. Len(g.nonterms) <= MINACT - MINNONTERM /\ g.acts \in Nat
    BY <1>1, <1>7, <2>2, NumbersAssumption
  <2>4. \A n \in 1 .. Len(g.prods) : IsProduction(g.prods[n], Len(g.nonterms))
    <3>1. 1 .. Len(g.prods) = {}
      BY <1>7, <2>2
    <3> QED BY <3>1
  <2>5. \A i \in 1 .. Len(g.sp) : IsOpen(g.sp[i], Len(g.nonterms), Len(g.prods))
    <3> TAKE i \in 1 .. Len(g.sp)
    <3>1. g.sp[i] = o
      BY <1>5, <2>2
    <3>2. DOMAIN o = {"lhs", "rhs"} /\ o.lhs = NONE /\ o.rhs = NONE
      BY <1>4
    <3> QED BY <3>1, <3>2, Zenon DEF IsOpen
  <2>6. g.goal = NONE /\ g.sp[1].lhs = g.goal
    BY <1>1, <1>4, <1>5, <2>2
  <2>7. Len(g.sp) = 1 /\ Len(g.prods) = 0 /\ Len(g.sp) > 0
    BY <1>5, <1>7, <2>2
  <2>8. ~(Len(g.prods) > 0)
    BY <2>7
  <2>9. WithinLimits(g)
    <3>1. Len(g.prods) <= MAXPROD /\ g.nerrors \in Nat
      BY <1>1, <2>1, <2>7, NumbersAssumption DEF Built
    <3>2. \A n \in 1 .. Len(g.prods) : ActsBelow(g.prods[n], g.acts)
      <4>1. 1 .. Len(g.prods) = {}
        BY <1>7, <2>2
      <4> QED BY <4>1
    <3>3. \A i \in 1 .. Len(g.sp) : g.sp[i].rhs = NONE
      <4> TAKE i \in 1 .. Len(g.sp)
      <4>1. g.sp[i] = o
        BY <1>5, <2>2
      <4>2. o.rhs = NONE
        BY <1>4
      <4> QED BY <4>1, <4>2, Zenon
    <3> QED BY <3>1, <3>2, <3>3 DEF WithinLimits
  <2> QED BY <1>5, <1>7, <2>1, <2>2, <2>3, <2>4, <2>5, <2>6, <2>7, <2>8, <2>9 DEF WellBuilt
<1>9. ~(made > 0)
  BY <1>1
<1> QED BY <1>1, <1>3, <1>6, <1>8, <1>9, Zenon DEF Reading

\* The grammar when nothing changes.
LEMMA ReadingStutters ==
  ASSUME UNCHANGED <<file, made, built, order>>
  PROVE  (Reading => Reading') /\ (Ready => Ready')
<1>1. /\ file' = file /\ made' = made /\ sp' = sp /\ prods' = prods /\ goal' = goal
      /\ nonterms' = nonterms /\ acts' = acts /\ nerrors' = nerrors /\ order' = order
  BY DEF built
<1>2. Built' = Built /\ Calls' = Calls /\ Nonterms' = Nonterms
  BY <1>1 DEF Built, Calls, Nonterms
<1>3. PICK w : w = Built
  OBVIOUS
<1>4. ASSUME WellBuilt(w) PROVE WellBuilt(Built)'
  <2>1. WellBuilt(w)'
    BY <1>1, <1>4, SameWellBuilt, Zenon
  <2> QED BY <1>2, <1>3, <2>1
<1>5. InRhs(Built) => InRhs(Built)'
  BY <1>2 DEF InRhs
<1>6. Opened(Calls, made)' = Opened(Calls, made)
  BY <1>1, <1>2 DEF Opened
<1>7. ASSUME Reading PROVE Reading'
  BY <1>1, <1>2, <1>3, <1>4, <1>5, <1>6, <1>7, Zenon DEF Reading
<1>8. ASSUME Ready PROVE Ready'
  BY <1>1, <1>2, <1>3, <1>4, <1>8, Zenon DEF Ready
<1> QED BY <1>7, <1>8

-----------------------------------------------------------------------------
(* first.c: the FIRST sets, as a function F of the nonterminals.           *)

NullableIn(F, x) == ISNONTERM(x) /\ EPSILON \in F[x]
FirstIn(F, x)    == IF ISTERM(x) THEN {x} ELSE F[x]
LeadingIn(F, s)  ==
  {s[i] : i \in {j \in DOMAIN s : \A k \in 1 .. j - 1 : NullableIn(F, s[k])}}
FirstOfRhsIn(F, rhs) ==
  IF NonActs(rhs) = <<>> THEN {EPSILON}
  ELSE UNION {FirstIn(F, x) : x \in LeadingIn(F, NonActs(rhs))}

\* What first_closure() makes of A adds nothing.
ClosedAt(F, A) == \A n \in Productions(A) : FirstOfRhsIn(F, prods[n].rhs) \subseteq F[A]
FirstSets == [Nonterms -> SUBSET (1 .. EPSILON)]
FirstClosed(F) == \A A \in Nonterms : ClosedAt(F, A)
NoMore(F, G)   == \A A \in Nonterms : F[A] \subseteq G[A]

\* The sets are closed, and no set that is has less.
FirstLeast ==
  /\ FirstClosed(first)
  /\ \A F \in FirstSets : FirstClosed(F) => NoMore(first, F)

\* While they grow.
FirstGrows ==
  /\ Ready /\ \A k \in 1 .. Len(order) : order[k] \in Nonterms
  /\ first \in FirstSets /\ turn \in Nat /\ turn > 0
  /\ ~did => \A k \in 1 .. Len(order) : k < turn => ClosedAt(first, order[k])
  /\ \A F \in FirstSets : FirstClosed(F) => NoMore(first, F)

\* The nonterminals have the numbers from MINNONTERM on.
LEMMA NontermsAre ==
  ASSUME IsSeq(nonterms)
  PROVE  Nonterms = NT(Len(nonterms))
<1>1. Len(nonterms) \in Nat
  BY SeqIs
<1>2. ASSUME NEW A \in Nonterms PROVE A \in NT(Len(nonterms))
  BY <1>1, NumbersAssumption DEF Nonterms, Val, NT
<1>3. ASSUME NEW A \in NT(Len(nonterms)) PROVE A \in Nonterms
  <2>1. PICK i : i = A - MINNONTERM + 1
    OBVIOUS
  <2>2. i \in 1 .. Len(nonterms) /\ Val(i) = A
    BY <1>1, <2>1, NumbersAssumption DEF Val, NT
  <2> QED BY <2>2 DEF Nonterms
<1> QED BY <1>2, <1>3

\* The symbols of a right-hand side, without its actions.
LEMMA NonActsAre ==
  ASSUME file \in Files, NEW rhs, IsSeq(rhs), NEW k \in Nat,
         \A i \in 1 .. Len(rhs) : rhs[i] \in Vocabulary(k)
  PROVE  /\ IsSeq(NonActs(rhs)) /\ DOMAIN NonActs(rhs) = 1 .. Len(NonActs(rhs))
         /\ \A j \in 1 .. Len(NonActs(rhs)) : NonActs(rhs)[j] \in (1 .. Len(terms)) \cup NT(k)
<1>1. PICK W : W = {x \in ToSet(rhs) : ~ISACT(x)}
  OBVIOUS
<1>2. PICK r : r = NonActs(rhs)
  OBVIOUS
<1>3. r = Those(rhs, W)
  BY <1>1, <1>2 DEF NonActs
<1>4. IsSeq(r) /\ \A j \in 1 .. Len(r) : r[j] \in W /\ \E i \in 1 .. Len(rhs) : r[j] = rhs[i]
  BY <1>3, ThoseIs
<1>5. ASSUME NEW j \in 1 .. Len(r) PROVE r[j] \in (1 .. Len(terms)) \cup NT(k)
  <2>1. r[j] \in W
    BY <1>4
  <2>2. ~ISACT(r[j])
    BY <1>1, <2>1
  <2>3. PICK i \in 1 .. Len(rhs) : r[j] = rhs[i]
    BY <1>4
  <2>4. r[j] \in Vocabulary(k)
    BY <2>3
  <2> QED BY <2>2, <2>4 DEF Vocabulary, ISACT
<1>6. DOMAIN r = 1 .. Len(r)
  BY <1>4, SeqIs
<1> QED BY <1>2, <1>4, <1>5, <1>6

\* A symbol of a right-hand side is a token or a nonterminal.
LEMMA SymbolIs ==
  ASSUME file \in Files, IsSeq(nonterms), Len(nonterms) <= MINACT - MINNONTERM,
         NEW x \in (1 .. Len(terms)) \cup NT(Len(nonterms))
  PROVE  \/ ISTERM(x) /\ ~ISNONTERM(x) /\ x \notin Nonterms
         \/ ~ISTERM(x) /\ ISNONTERM(x) /\ x \in Nonterms
<1>1. Len(nonterms) \in Nat /\ Nonterms = NT(Len(nonterms))
  BY SeqIs, NontermsAre
<1>2. Len(terms) \in 0 .. MINNONTERM - 2
  BY TermsCount
<1> QED BY <1>1, <1>2, NumbersAssumption DEF ISTERM, ISNONTERM, NT

\* More in the sets of the symbols is more in that of the right-hand side.
LEMMA FirstMonotone ==
  ASSUME file \in Files, IsSeq(nonterms), Len(nonterms) <= MINACT - MINNONTERM,
         NEW s, DOMAIN s = 1 .. Len(s), Len(s) \in Nat,
         \A j \in 1 .. Len(s) : s[j] \in (1 .. Len(terms)) \cup NT(Len(nonterms)),
         NEW F, NEW G, NoMore(F, G)
  PROVE  UNION {FirstIn(F, x) : x \in LeadingIn(F, s)}
           \subseteq UNION {FirstIn(G, x) : x \in LeadingIn(G, s)}
<1>1. ASSUME NEW t \in UNION {FirstIn(F, x) : x \in LeadingIn(F, s)}
      PROVE  t \in UNION {FirstIn(G, x) : x \in LeadingIn(G, s)}
  <2>1. PICK x \in LeadingIn(F, s) : t \in FirstIn(F, x)
    OBVIOUS
  <2>2. PICK i \in 1 .. Len(s) : x = s[i] /\ \A k \in 1 .. i - 1 : NullableIn(F, s[k])
    BY <2>1 DEF LeadingIn
  <2>3. ASSUME NEW k \in 1 .. i - 1 PROVE NullableIn(G, s[k])
    <3>1. k \in 1 .. Len(s) /\ NullableIn(F, s[k])
      BY <2>2
    <3>2. s[k] \in Nonterms
      BY <3>1, SymbolIs DEF NullableIn
    <3> QED BY <3>1, <3>2 DEF NullableIn, NoMore
  <2>4. x \in LeadingIn(G, s)
    BY <2>2, <2>3 DEF LeadingIn
  <2>5. t \in FirstIn(G, x)
    <3>1. ISTERM(x) \/ x \in Nonterms
      BY <2>2, SymbolIs
    <3> QED BY <2>1, <3>1 DEF FirstIn, NoMore
  <2> QED BY <2>4, <2>5
<1> QED BY <1>1

\* What a right-hand side begins with are tokens, and the empty string.
LEMMA FirstBounded ==
  ASSUME file \in Files, IsSeq(nonterms), Len(nonterms) <= MINACT - MINNONTERM,
         NEW s, DOMAIN s = 1 .. Len(s),
         \A j \in 1 .. Len(s) : s[j] \in (1 .. Len(terms)) \cup NT(Len(nonterms)),
         NEW F \in FirstSets
  PROVE  UNION {FirstIn(F, x) : x \in LeadingIn(F, s)} \subseteq 1 .. EPSILON
<1>1. ASSUME NEW x \in LeadingIn(F, s) PROVE FirstIn(F, x) \subseteq 1 .. EPSILON
  <2>1. PICK i \in 1 .. Len(s) : x = s[i]
    BY DEF LeadingIn
  <2>2. ISTERM(x) \/ (~ISTERM(x) /\ x \in Nonterms)
    BY <2>1, SymbolIs
  <2>3. Len(terms) \in Nat
    BY TermsCount, NumbersAssumption
  <2>4. CASE ISTERM(x)
    BY <2>3, <2>4 DEF FirstIn, ISTERM, EPSILON
  <2>5. CASE ~ISTERM(x) /\ x \in Nonterms
    BY <2>5 DEF FirstIn, FirstSets
  <2> QED BY <2>2, <2>4, <2>5
<1> QED BY <1>1

\* A production and what is known of its right-hand side.
LEMMA RuleIs ==
  ASSUME file \in Files, WellBuilt(Built), NEW n \in 1 .. Len(prods)
  PROVE  /\ prods[n].lhs \in Nonterms /\ IsSeq(prods[n].rhs) /\ Len(prods[n].rhs) <= MAXRHS
         /\ \A i \in 1 .. Len(prods[n].rhs) : prods[n].rhs[i] \in Vocabulary(Len(nonterms))
         /\ IsSeq(nonterms) /\ Len(nonterms) \in Nat /\ Len(nonterms) <= MINACT - MINNONTERM
         /\ IsSeq(prods) /\ Len(prods) \in Nat
<1>1. /\ IsSeq(nonterms) /\ Len(nonterms) <= MINACT - MINNONTERM /\ IsSeq(prods)
      /\ IsProduction(prods[n], Len(nonterms))
  BY DEF WellBuilt, Built
<1>2. Len(nonterms) \in Nat /\ Len(prods) \in Nat /\ Nonterms = NT(Len(nonterms))
  BY <1>1, SeqIs, NontermsAre
<1> QED BY <1>1, <1>2 DEF IsProduction

LEMMA FirstOfRhsIs == \A rhs : FirstOfRhs(rhs) = FirstOfRhsIn(first, rhs)
<1> TAKE rhs
<1>1. PICK s : s = NonActs(rhs)
  OBVIOUS
<1>2. Leading(rhs) = LeadingIn(first, s)
  BY <1>1 DEF Leading, LeadingIn, NULLABLE, NullableIn
<1>3. \A x : FirstOf(x) = FirstIn(first, x)
  BY DEF FirstOf, FirstIn
<1> QED BY <1>1, <1>2, <1>3 DEF FirstOfRhs, FirstOfRhsIn

\* What a production begins with grows with the sets, and stays tokens.
LEMMA FirstOfRule ==
  ASSUME file \in Files, WellBuilt(Built), NEW n \in 1 .. Len(prods), NEW F \in FirstSets
  PROVE  /\ FirstOfRhsIn(F, prods[n].rhs) \subseteq 1 .. EPSILON
         /\ \A G \in FirstSets : NoMore(F, G) =>
              FirstOfRhsIn(F, prods[n].rhs) \subseteq FirstOfRhsIn(G, prods[n].rhs)
<1>1. PICK rhs : rhs = prods[n].rhs
  OBVIOUS
<1>2. PICK s : s = NonActs(rhs)
  OBVIOUS
<1>3. /\ IsSeq(rhs) /\ \A i \in 1 .. Len(rhs) : rhs[i] \in Vocabulary(Len(nonterms))
      /\ IsSeq(nonterms) /\ Len(nonterms) \in Nat /\ Len(nonterms) <= MINACT - MINNONTERM
  BY <1>1, RuleIs
<1>4. /\ IsSeq(s) /\ DOMAIN s = 1 .. Len(s)
      /\ \A j \in 1 .. Len(s) : s[j] \in (1 .. Len(terms)) \cup NT(Len(nonterms))
  BY <1>2, <1>3, NonActsAre
<1>5. Len(s) \in Nat
  BY <1>4, SeqIs
<1>6. UNION {FirstIn(F, x) : x \in LeadingIn(F, s)} \subseteq 1 .. EPSILON
  BY <1>3, <1>4, FirstBounded
<1>7. EPSILON \in 1 .. EPSILON
  BY TermsCount, NumbersAssumption DEF EPSILON
<1>8. FirstOfRhsIn(F, rhs) \subseteq 1 .. EPSILON
  BY <1>2, <1>6, <1>7 DEF FirstOfRhsIn
<1>9. ASSUME NEW G \in FirstSets, NoMore(F, G)
      PROVE  FirstOfRhsIn(F, rhs) \subseteq FirstOfRhsIn(G, rhs)
  <2>1. UNION {FirstIn(F, x) : x \in LeadingIn(F, s)}
          \subseteq UNION {FirstIn(G, x) : x \in LeadingIn(G, s)}
    BY <1>3, <1>4, <1>5, <1>9, FirstMonotone
  <2> QED BY <1>2, <2>1 DEF FirstOfRhsIn
<1> QED BY <1>1, <1>8, <1>9

\* While the productions are the same, so is what they begin with.
LEMMA SameFirst ==
  ASSUME UNCHANGED <<file, prods, nonterms>>
  PROVE  /\ FirstSets' = FirstSets /\ Nonterms' = Nonterms /\ EPSILON' = EPSILON
         /\ \A F, A : ClosedAt(F, A)' <=> ClosedAt(F, A)
         /\ \A F : FirstClosed(F)' <=> FirstClosed(F)
<1>1. Nonterms' = Nonterms /\ EPSILON' = EPSILON
  BY DEF Nonterms, EPSILON, terms
<1>2. FirstSets' = FirstSets
  BY <1>1 DEF FirstSets
<1>3. \A F, s : LeadingIn(F, s)' = LeadingIn(F, s)
  BY <1>1 DEF LeadingIn, NullableIn, ISNONTERM
<1>4. \A F, x : FirstIn(F, x)' = FirstIn(F, x)
  BY DEF FirstIn, ISTERM, terms
<1>5. \A F, rhs : FirstOfRhsIn(F, rhs)' = FirstOfRhsIn(F, rhs)
  BY <1>1, <1>3, <1>4 DEF FirstOfRhsIn, NonActs, ISACT
<1>6. \A A : Productions(A)' = Productions(A)
  BY DEF Productions
<1>7. \A F, A : ClosedAt(F, A)' <=> ClosedAt(F, A)
  BY <1>5, <1>6 DEF ClosedAt
<1> QED BY <1>1, <1>2, <1>7 DEF FirstClosed

\* first_closure() goes towards the least sets, and past a nonterminal it changes nothing
\* of only when that is closed.
LEMMA ClosureGrows ==
  ASSUME FirstGrows, FirstClosure
  PROVE  FirstGrows'
<1>1. /\ UNCHANGED <<file, built, order>> /\ at = "first" /\ at' = "first"
      /\ turn <= Len(order) /\ turn' = turn + 1
  BY DEF FirstClosure
<1>2. UNCHANGED <<file, prods, nonterms>>
  BY <1>1 DEF built
<1>3. Ready' /\ IsSeq(order) /\ file \in Files /\ WellBuilt(Built)
  BY FirstStep DEF FirstNext, FirstGrows, Ready
<1>4. Len(order) \in Nat /\ turn \in Nat /\ turn > 0
  BY <1>3, SeqIs DEF FirstGrows
<1>5. PICK A \in Nonterms : A = order[turn]
  BY <1>1, <1>4 DEF FirstGrows
<1>6. PICK U : U = UNION {FirstOfRhsIn(first, prods[n].rhs) : n \in Productions(A)}
  OBVIOUS
<1>7. U = UNION {FirstOfRhs(prods[n].rhs) : n \in Productions(A)}
  BY <1>6, FirstOfRhsIs
<1>8. first' = [first EXCEPT ![A] = first[A] \cup U] /\ did' = (did \/ first[A] \cup U # first[A])
  BY <1>5, <1>7 DEF FirstClosure
<1>9. first \in FirstSets /\ \A F \in FirstSets : FirstClosed(F) => NoMore(first, F)
  BY DEF FirstGrows
<1>10. \A n \in Productions(A) : n \in 1 .. Len(prods) /\ prods[n].lhs = A
  BY DEF Productions
<1>11. U \subseteq 1 .. EPSILON
  <2>1. \A n \in Productions(A) : FirstOfRhsIn(first, prods[n].rhs) \subseteq 1 .. EPSILON
    BY <1>3, <1>9, <1>10, FirstOfRule
  <2> QED BY <1>6, <2>1
<1>12. first' \in FirstSets /\ \A B \in Nonterms : first'[B] = first[B] \/ (B = A /\ first'[B] = first[B] \cup U)
  BY <1>8, <1>9, <1>11 DEF FirstSets
<1>13. ASSUME NEW F \in FirstSets, FirstClosed(F) PROVE NoMore(first', F)
  <2>1. NoMore(first, F)
    BY <1>9, <1>13
  <2>2. ASSUME NEW n \in Productions(A) PROVE FirstOfRhsIn(first, prods[n].rhs) \subseteq F[A]
    <3>1. FirstOfRhsIn(first, prods[n].rhs) \subseteq FirstOfRhsIn(F, prods[n].rhs)
      BY <1>3, <1>9, <1>10, <2>1, FirstOfRule
    <3>2. FirstOfRhsIn(F, prods[n].rhs) \subseteq F[A]
      BY <1>13 DEF FirstClosed, ClosedAt
    <3> QED BY <3>1, <3>2
  <2>3. U \subseteq F[A]
    BY <1>6, <2>2
  <2> QED BY <1>12, <2>1, <2>3 DEF NoMore
<1>14. ASSUME ~did', NEW k \in 1 .. Len(order), k < turn + 1
       PROVE  ClosedAt(first', order[k])
  <2>1. ~did /\ first[A] \cup U = first[A]
    BY <1>8, <1>14
  <2>2. first' = first
    BY <1>8, <1>9, <2>1 DEF FirstSets
  <2>3. CASE k < turn
    <3>1. ClosedAt(first, order[k])
      BY <2>1, <2>3 DEF FirstGrows
    <3> QED BY <2>2, <3>1
  <2>4. CASE k = turn
    <3>1. ClosedAt(first, A)
      BY <1>6, <2>1 DEF ClosedAt
    <3> QED BY <1>5, <2>2, <2>4, <3>1
  <2> QED BY <1>4, <1>14, <2>3, <2>4
<1>15. PICK G : G = first'
  OBVIOUS
<1>16. FirstSets' = FirstSets /\ Nonterms' = Nonterms /\ (\A F, B : ClosedAt(F, B)' <=> ClosedAt(F, B))
       /\ (\A F : FirstClosed(F)' <=> FirstClosed(F))
  BY <1>2, SameFirst
<1>17. ~did' => \A k \in 1 .. Len(order) : k < turn + 1 => ClosedAt(G, order[k])'
  <2> SUFFICES ASSUME ~did', NEW k \in 1 .. Len(order), k < turn + 1
               PROVE  ClosedAt(G, order[k])'
    OBVIOUS
  <2>1. PICK B : B = order[k]
    OBVIOUS
  <2>2. ClosedAt(G, B)
    BY <1>14, <1>15, <2>1
  <2>3. ClosedAt(G, B)' /\ order' = order
    BY <1>1, <1>16, <2>2
  <2> QED BY <2>1, <2>3
<1>18. \A F \in FirstSets : FirstClosed(F)' => NoMore(G, F)'
  BY <1>13, <1>15, <1>16 DEF NoMore
<1> QED BY <1>1, <1>3, <1>4, <1>12, <1>15, <1>16, <1>17, <1>18 DEF FirstGrows

\* Another pass.
LEMMA PassGrows ==
  ASSUME FirstGrows, FirstPass
  PROVE  FirstGrows'
<1>1. UNCHANGED <<file, built, order, first>> /\ turn' = 1
  BY DEF FirstPass
<1>2. UNCHANGED <<file, prods, nonterms>>
  BY <1>1 DEF built
<1>3. Ready' /\ IsSeq(order)
  BY FirstStep DEF FirstNext, FirstGrows, Ready
<1>4. /\ FirstSets' = FirstSets /\ Nonterms' = Nonterms
      /\ \A F : FirstClosed(F)' <=> FirstClosed(F)
  BY <1>2, SameFirst
<1>5. PICK G : G = first
  OBVIOUS
<1>6. \A F \in FirstSets : FirstClosed(F)' => NoMore(G, F)'
  BY <1>4, <1>5 DEF NoMore, FirstGrows
<1>7. ~ \E k \in 1 .. Len(order) : k < 1
  BY <1>3, SeqIs
<1> QED BY <1>1, <1>3, <1>4, <1>5, <1>6, <1>7 DEF FirstGrows

\* When a pass changes nothing all is closed: the symbol table has every nonterminal.
LEMMA DoneLeast ==
  ASSUME FirstGrows, FirstDone
  PROVE  FirstLeast
<1>1. ASSUME NEW A \in Nonterms PROVE ClosedAt(first, A)
  <2>1. PICK k \in DOMAIN order : order[k] = A
    BY DEF FirstGrows, Ready
  <2>2. k \in 1 .. Len(order) /\ k < turn
    BY <2>1, SeqIs DEF FirstGrows, Ready, FirstDone
  <2> QED BY <2>1, <2>2 DEF FirstGrows, FirstDone
<1> QED BY <1>1 DEF FirstLeast, FirstClosed, FirstGrows

\* The sets are empty when reading ends without errors, and are not touched before.
LEMMA ReadFirst ==
  ASSUME Reading, at = "read", ReadNext
  PROVE  /\ at' \in {"read", "first", "fatal", "undefined", "errors"} /\ file' = file
         /\ at' # "first" => first' = first
         /\ at' = "first" => FirstGrows'
<1>1. ASSUME NEW g, Becomes(g)
      PROVE  at' \in {"read", "fatal"} /\ first' = first
  BY <1>1 DEF Becomes
<1>2. \A c : Made(c) => file' = file
  BY DEF Made
<1>3. CASE NestTooDeep
  BY <1>2, <1>3 DEF NestTooDeep
<1>4. CASE Type \/ Lhs \/ Rhs \/ Symbol \/ Action
  BY <1>1, <1>2, <1>4 DEF Type, Lhs, Rhs, Symbol, Action
<1>5. CASE StartOpt \/ EndOpt \/ EndRep \/ Prec
  BY <1>1, <1>2, <1>5 DEF StartOpt, EndOpt, EndRep, Prec
<1>6. CASE EndOfFile
  <2>1. /\ UNCHANGED <<file, nonterms, prods>> /\ at' \in {"errors", "first"}
        /\ at' # "first" => first' = first
        /\ at' = "first" => /\ first' = [A \in Nonterms |-> {}]
                            /\ order' \in SetToSeqs(Nonterms) /\ turn' = 1 /\ did' = FALSE
    BY <1>6 DEF EndOfFile
  <2>2. ASSUME at' = "first" PROVE FirstGrows'
    <3>1. Ready'
      BY <2>2, ReadStep
    <3>2. first' = [A \in Nonterms |-> {}] /\ order' \in SetToSeqs(Nonterms) /\ turn' = 1
      BY <2>1, <2>2
    <3>3. /\ FirstSets' = FirstSets /\ Nonterms' = Nonterms
      BY <2>1, SameFirst
    <3>4. PICK o : o = order'
      OBVIOUS
    <3>5. o \in Seq(Nonterms)
      <4>1. o \in [1 .. Cardinality(Nonterms) -> Nonterms]
        BY <3>2, <3>4 DEF SetToSeqs
      <4>2. IsSeq(nonterms)
        BY DEF Reading, WellBuilt, Built
      <4>3. IsFiniteSet(Nonterms)
        <5>1. IsFiniteSet(1 .. Len(nonterms))
          BY <4>2, SeqIs, FS_Interval
        <5> QED BY <4>2, <5>1, NontermsAre, FS_Interval, SeqIs, NumbersAssumption DEF NT
      <4>4. Cardinality(Nonterms) \in Nat
        BY <4>3, FS_CardinalityType
      <4> QED BY <4>1, <4>4
    <3>6. \A k \in 1 .. Len(o) : o[k] \in Nonterms
      BY <3>5
    <3>7. PICK f : f = first'
      OBVIOUS
    <3>8. f \in FirstSets /\ \A A \in Nonterms : f[A] = {}
      BY <3>2, <3>7 DEF FirstSets
    <3>9. \A F : NoMore(f, F)
      BY <3>8 DEF NoMore
    <3>10. ~ \E k \in 1 .. Len(o) : k < 1
      OBVIOUS
    <3>11. \A F \in FirstSets : NoMore(f, F)'
      BY <3>3, <3>9 DEF NoMore
    <3>12. (~did => \A k \in 1 .. Len(order) : k < turn => ClosedAt(first, order[k]))'
      BY <3>2, <3>4, <3>10
    <3>13. (\A F \in FirstSets : FirstClosed(F) => NoMore(first, F))'
      BY <3>3, <3>7, <3>11
    <3>14. (\A k \in 1 .. Len(order) : order[k] \in Nonterms)'
      BY <3>3, <3>4, <3>6
    <3>15. (first \in FirstSets /\ turn \in Nat /\ turn > 0)'
      BY <3>2, <3>3, <3>7, <3>8
    <3> QED BY <3>1, <3>12, <3>13, <3>14, <3>15 DEF FirstGrows
  <2> QED BY <2>1, <2>2
<1> QED BY <1>3, <1>4, <1>5, <1>6 DEF ReadNext

\* When nothing changes.
LEMMA GrowsStutters ==
  ASSUME UNCHANGED grammar
  PROVE  (FirstGrows => FirstGrows') /\ (FirstLeast => FirstLeast')
<1>1. UNCHANGED <<file, made, built, order>> /\ UNCHANGED <<file, prods, nonterms, first, turn, did>>
  BY DEF grammar, built, closing
<1>2. Ready => Ready'
  BY <1>1, ReadingStutters
<1>3. /\ FirstSets' = FirstSets /\ Nonterms' = Nonterms
      /\ \A F, B : ClosedAt(F, B)' <=> ClosedAt(F, B)
      /\ \A F : FirstClosed(F)' <=> FirstClosed(F)
  BY <1>1, SameFirst
<1>4. PICK G : G = first
  OBVIOUS
<1>5. \A F : NoMore(G, F)' <=> NoMore(G, F)
  BY <1>3 DEF NoMore
<1>6. ASSUME FirstGrows PROVE FirstGrows'
  <2>1. \A F \in FirstSets' : FirstClosed(F)' => NoMore(G, F)'
    BY <1>3, <1>4, <1>5, <1>6 DEF FirstGrows
  <2>2. ~did' => \A k \in 1 .. Len(order) : k < turn => ClosedAt(G, order[k])'
    <3> SUFFICES ASSUME ~did', NEW k \in 1 .. Len(order), k < turn
                 PROVE  ClosedAt(G, order[k])'
      OBVIOUS
    <3>1. PICK B : B = order[k]
      OBVIOUS
    <3>2. ClosedAt(G, B)
      BY <1>1, <1>4, <1>6, <3>1 DEF FirstGrows
    <3>3. ClosedAt(G, B)' /\ order' = order
      BY <1>1, <1>3, <3>2
    <3> QED BY <3>1, <3>3
  <2> QED BY <1>1, <1>2, <1>3, <1>4, <1>6, <2>1, <2>2 DEF FirstGrows
<1>7. ASSUME FirstLeast PROVE FirstLeast'
  <2>1. FirstClosed(G)'
    BY <1>3, <1>4, <1>7 DEF FirstLeast
  <2>2. \A F \in FirstSets' : FirstClosed(F)' => NoMore(G, F)'
    BY <1>3, <1>4, <1>5, <1>7 DEF FirstLeast
  <2> QED BY <1>1, <1>4, <2>1, <2>2 DEF FirstLeast
<1> QED BY <1>6, <1>7

\* Whatever is left of a right-hand side begins with tokens, and the empty string.
LEMMA BeginsBounded ==
  ASSUME file \in Files, WellBuilt(Built), first \in FirstSets,
         NEW t, IsSeq(t), \A i \in 1 .. Len(t) : t[i] \in Vocabulary(Len(nonterms))
  PROVE  Begins(t) \subseteq 1 .. EPSILON
<1>1. IsSeq(nonterms) /\ Len(nonterms) <= MINACT - MINNONTERM /\ Len(nonterms) \in Nat
  BY SeqIs DEF WellBuilt, Built
<1>2. PICK s : s = NonActs(t)
  OBVIOUS
<1>3. /\ DOMAIN s = 1 .. Len(s)
      /\ \A j \in 1 .. Len(s) : s[j] \in (1 .. Len(terms)) \cup NT(Len(nonterms))
  BY <1>1, <1>2, NonActsAre
<1>4. UNION {FirstIn(first, x) : x \in LeadingIn(first, s)} \subseteq 1 .. EPSILON
  BY <1>1, <1>3, FirstBounded
<1>5. Leading(t) = LeadingIn(first, s)
  BY <1>2 DEF Leading, LeadingIn, NULLABLE, NullableIn
<1>6. \A x : FirstOf(x) = FirstIn(first, x)
  BY DEF FirstOf, FirstIn
<1> QED BY <1>4, <1>5, <1>6 DEF Begins

\* Two sequences, one after the other.
LEMMA SeqConcat ==
  ASSUME NEW s, IsSeq(s), NEW t, IsSeq(t)
  PROVE  /\ IsSeq(s \o t) /\ Len(s \o t) = Len(s) + Len(t)
         /\ \A i \in 1 .. Len(s) : (s \o t)[i] = s[i]
         /\ \A i \in 1 .. Len(t) : (s \o t)[Len(s) + i] = t[i]
<1>1. PICK S : s \in Seq(S)
  BY DEF IsSeq
<1>2. PICK T : t \in Seq(T)
  BY DEF IsSeq
<1>3. s \in Seq(S \cup T) /\ t \in Seq(S \cup T)
  BY <1>1, <1>2
<1> QED BY <1>3 DEF IsSeq

\* What a sequence of symbols begins with, symbol by symbol.
Vanishes(x) == ISACT(x) \/ NULLABLE(x)
LEMMA BeginsAt ==
  ASSUME NEW s, IsSeq(s)
  PROVE  /\ \A t : t \in Begins(s) <=>
              \E i \in 1 .. Len(s) : /\ ~ISACT(s[i]) /\ t \in FirstOf(s[i])
                                     /\ \A k \in 1 .. i - 1 : Vanishes(s[k])
         /\ Nullable(s) <=> \A i \in 1 .. Len(s) : Vanishes(s[i])
<1>1. PICK W : W = {x \in ToSet(s) : ~ISACT(x)}
  OBVIOUS
<1>2. PICK r : r = NonActs(s)
  OBVIOUS
<1>3. PICK p : PlacesOf(p, r, s, W, Len(s))
  BY <1>1, <1>2, ThosePlaced DEF NonActs
<1>4. /\ IsSeq(r) /\ p \in [1 .. Len(r) -> 1 .. Len(s)]
      /\ \A j \in 1 .. Len(r) : r[j] = s[p[j]] /\ r[j] \in W
      /\ \A i, j \in 1 .. Len(r) : i < j => p[i] < p[j]
      /\ \A i \in 1 .. Len(s) : s[i] \in W => \E j \in 1 .. Len(r) : p[j] = i
  BY <1>3 DEF PlacesOf
<1>5. Len(r) \in Nat /\ DOMAIN r = 1 .. Len(r) /\ Len(s) \in Nat /\ DOMAIN s = 1 .. Len(s)
  BY <1>4, SeqIs
<1>6. \A i \in 1 .. Len(s) : s[i] \in W <=> ~ISACT(s[i])
  BY <1>1, <1>5 DEF ToSet
<1>7. ASSUME NEW j \in 1 .. Len(r)
      PROVE  (\A k \in 1 .. j - 1 : NULLABLE(r[k])) <=> (\A k \in 1 .. p[j] - 1 : Vanishes(s[k]))
  <2>1. ASSUME \A k \in 1 .. j - 1 : NULLABLE(r[k]), NEW k \in 1 .. p[j] - 1
        PROVE  Vanishes(s[k])
    <3>1. k \in 1 .. Len(s) /\ p[j] \in 1 .. Len(s)
      BY <1>4, <1>5
    <3>2. CASE ISACT(s[k])
      BY <3>2 DEF Vanishes
    <3>3. CASE ~ISACT(s[k])
      <4>1. PICK m \in 1 .. Len(r) : p[m] = k
        BY <1>4, <1>6, <3>1, <3>3
      <4>2. m < j
        BY <1>4, <1>5, <3>1, <4>1
      <4>3. NULLABLE(r[m]) /\ r[m] = s[k]
        BY <1>4, <1>5, <2>1, <4>1, <4>2
      <4> QED BY <4>3 DEF Vanishes
    <3> QED BY <3>2, <3>3
  <2>2. ASSUME \A k \in 1 .. p[j] - 1 : Vanishes(s[k]), NEW k \in 1 .. j - 1
        PROVE  NULLABLE(r[k])
    <3>1. k \in 1 .. Len(r) /\ k < j
      BY <1>5
    <3>2. p[k] \in 1 .. Len(s) /\ p[k] < p[j] /\ p[j] \in 1 .. Len(s)
      BY <1>4, <3>1
    <3>3. Vanishes(s[p[k]])
      BY <2>2, <3>2
    <3>4. ~ISACT(s[p[k]]) /\ r[k] = s[p[k]]
      BY <1>4, <1>6, <3>1, <3>2
    <3> QED BY <3>3, <3>4 DEF Vanishes
  <2> QED BY <2>1, <2>2
<1>8. \A t : t \in Begins(s) <=>
        \E j \in 1 .. Len(r) : t \in FirstOf(r[j]) /\ \A k \in 1 .. j - 1 : NULLABLE(r[k])
  BY <1>2, <1>5 DEF Begins, Leading
<1>9. ASSUME NEW t
      PROVE  t \in Begins(s) <=>
               \E i \in 1 .. Len(s) : /\ ~ISACT(s[i]) /\ t \in FirstOf(s[i])
                                      /\ \A k \in 1 .. i - 1 : Vanishes(s[k])
  <2>1. ASSUME t \in Begins(s)
        PROVE  \E i \in 1 .. Len(s) : /\ ~ISACT(s[i]) /\ t \in FirstOf(s[i])
                                      /\ \A k \in 1 .. i - 1 : Vanishes(s[k])
    <3>1. PICK j \in 1 .. Len(r) : t \in FirstOf(r[j]) /\ \A k \in 1 .. j - 1 : NULLABLE(r[k])
      BY <1>8, <2>1
    <3>2. p[j] \in 1 .. Len(s) /\ r[j] = s[p[j]] /\ ~ISACT(s[p[j]])
      BY <1>4, <1>6
    <3>3. \A k \in 1 .. p[j] - 1 : Vanishes(s[k])
      BY <1>7, <3>1
    <3> QED BY <3>1, <3>2, <3>3
  <2>2. ASSUME NEW i \in 1 .. Len(s), ~ISACT(s[i]), t \in FirstOf(s[i]),
               \A k \in 1 .. i - 1 : Vanishes(s[k])
        PROVE  t \in Begins(s)
    <3>1. PICK j \in 1 .. Len(r) : p[j] = i
      BY <1>4, <1>6, <2>2
    <3>2. r[j] = s[i] /\ \A k \in 1 .. j - 1 : NULLABLE(r[k])
      BY <1>4, <1>7, <2>2, <3>1
    <3> QED BY <1>8, <2>2, <3>2
  <2> QED BY <2>1, <2>2
<1>10. Nullable(s) <=> \A j \in 1 .. Len(r) : NULLABLE(r[j])
  BY <1>2, <1>5 DEF Nullable
<1>11. (\A j \in 1 .. Len(r) : NULLABLE(r[j])) <=> \A i \in 1 .. Len(s) : Vanishes(s[i])
  <2>1. ASSUME \A j \in 1 .. Len(r) : NULLABLE(r[j]), NEW i \in 1 .. Len(s), ~ISACT(s[i])
        PROVE  NULLABLE(s[i])
    <3>1. PICK j \in 1 .. Len(r) : p[j] = i
      BY <1>4, <1>6, <2>1
    <3> QED BY <1>4, <2>1, <3>1
  <2>2. ASSUME \A i \in 1 .. Len(s) : Vanishes(s[i]), NEW j \in 1 .. Len(r)
        PROVE  NULLABLE(r[j])
    <3>1. p[j] \in 1 .. Len(s) /\ r[j] = s[p[j]] /\ ~ISACT(s[p[j]])
      BY <1>4, <1>6
    <3> QED BY <2>2, <3>1 DEF Vanishes
  <2> QED BY <2>1, <2>2 DEF Vanishes
<1> QED BY <1>9, <1>10, <1>11

\* What two sequences, one after the other, begin with.
LEMMA BeginsJoin ==
  ASSUME NEW r, IsSeq(r), NEW s, IsSeq(s)
  PROVE  /\ Begins(r \o s) = Begins(r) \cup IF Nullable(r) THEN Begins(s) ELSE {}
         /\ Nullable(r \o s) <=> Nullable(r) /\ Nullable(s)
<1>1. PICK l \in Nat : l = Len(r)
  BY SeqIs
<1>2. PICK m \in Nat : m = Len(s)
  BY SeqIs
<1>3. PICK q : q = r \o s
  OBVIOUS
<1>4. /\ IsSeq(q) /\ Len(q) = l + m
      /\ \A i \in 1 .. l : q[i] = r[i]
      /\ \A i \in 1 .. m : q[l + i] = s[i]
  BY <1>1, <1>2, <1>3, SeqConcat
<1>5. \A i \in 1 .. l + m : i \in 1 .. l \/ \E j \in 1 .. m : i = l + j
  <2> TAKE i \in 1 .. l + m
  <2>1. i \in 1 .. l \/ i - l \in 1 .. m
    OBVIOUS
  <2>2. i = l + (i - l)
    OBVIOUS
  <2> QED BY <2>1, <2>2
<1>6. \A i \in 1 .. l + m : q[i] = IF i \in 1 .. l THEN r[i] ELSE s[i - l]
  <2> TAKE i \in 1 .. l + m
  <2>1. CASE i \in 1 .. l
    BY <1>4, <2>1
  <2>2. CASE i \notin 1 .. l
    <3>1. PICK j \in 1 .. m : i = l + j
      BY <1>5, <2>2
    <3>2. i - l = j
      BY <3>1
    <3> QED BY <1>4, <2>2, <3>1, <3>2
  <2> QED BY <2>1, <2>2
<1>7. Nullable(r) <=> \A i \in 1 .. l : Vanishes(r[i])
  BY <1>1, BeginsAt
<1>8. Nullable(s) <=> \A i \in 1 .. m : Vanishes(s[i])
  BY <1>2, BeginsAt
<1>9. Nullable(q) <=> \A i \in 1 .. l + m : Vanishes(q[i])
  BY <1>4, BeginsAt
<1>10. Nullable(q) <=> Nullable(r) /\ Nullable(s)
  <2>1. ASSUME Nullable(q) PROVE Nullable(r) /\ Nullable(s)
    <3>1. \A i \in 1 .. l : Vanishes(r[i])
      BY <1>4, <1>9, <2>1
    <3>2. \A i \in 1 .. m : l + i \in 1 .. l + m
      OBVIOUS
    <3>3. \A i \in 1 .. m : Vanishes(s[i])
      BY <1>4, <1>9, <2>1, <3>2
    <3> QED BY <1>7, <1>8, <3>1, <3>3
  <2>2. ASSUME Nullable(r), Nullable(s) PROVE Nullable(q)
    BY <1>4, <1>5, <1>7, <1>8, <1>9, <2>2
  <2> QED BY <2>1, <2>2
<1>11. ASSUME NEW t, t \in Begins(q)
       PROVE  t \in Begins(r) \/ (Nullable(r) /\ t \in Begins(s))
  <2>1. PICK i \in 1 .. l + m : /\ ~ISACT(q[i]) /\ t \in FirstOf(q[i])
                                /\ \A k \in 1 .. i - 1 : Vanishes(q[k])
    BY <1>4, <1>11, BeginsAt
  <2>2. CASE i \in 1 .. l
    <3>1. \A k \in 1 .. i - 1 : k \in 1 .. l
      BY <2>2
    <3>2. /\ ~ISACT(r[i]) /\ t \in FirstOf(r[i])
          /\ \A k \in 1 .. i - 1 : Vanishes(r[k])
      BY <1>4, <2>1, <2>2, <3>1
    <3> QED BY <1>1, <2>2, <3>2, BeginsAt
  <2>3. CASE i \notin 1 .. l
    <3>1. PICK j \in 1 .. m : i = l + j
      BY <1>5, <2>3
    <3>2. \A k \in 1 .. l : k \in 1 .. i - 1
      BY <3>1
    <3>3. Nullable(r)
      BY <1>4, <1>7, <2>1, <3>2
    <3>4. \A k \in 1 .. j - 1 : l + k \in 1 .. i - 1 /\ k \in 1 .. m
      BY <3>1
    <3>5. /\ ~ISACT(s[j]) /\ t \in FirstOf(s[j])
          /\ \A k \in 1 .. j - 1 : Vanishes(s[k])
      BY <1>4, <2>1, <3>1, <3>4
    <3> QED BY <1>2, <3>3, <3>5, BeginsAt
  <2> QED BY <2>2, <2>3
<1>12. ASSUME NEW t, t \in Begins(r) PROVE t \in Begins(q)
  <2>1. PICK i \in 1 .. l : /\ ~ISACT(r[i]) /\ t \in FirstOf(r[i])
                            /\ \A k \in 1 .. i - 1 : Vanishes(r[k])
    BY <1>1, <1>12, BeginsAt
  <2>2. i \in 1 .. Len(q) /\ \A k \in 1 .. i - 1 : k \in 1 .. l
    BY <1>4
  <2>3. /\ ~ISACT(q[i]) /\ t \in FirstOf(q[i])
        /\ \A k \in 1 .. i - 1 : Vanishes(q[k])
    BY <1>4, <2>1, <2>2
  <2> QED BY <1>4, <2>2, <2>3, BeginsAt
<1>13. ASSUME NEW t, Nullable(r), t \in Begins(s) PROVE t \in Begins(q)
  <2>1. PICK j \in 1 .. m : /\ ~ISACT(s[j]) /\ t \in FirstOf(s[j])
                            /\ \A k \in 1 .. j - 1 : Vanishes(s[k])
    BY <1>2, <1>13, BeginsAt
  <2>2. PICK i \in 1 .. Len(q) : i = l + j
    BY <1>4
  <2>3. ~ISACT(q[i]) /\ t \in FirstOf(q[i])
    BY <1>4, <2>1, <2>2
  <2>4. ASSUME NEW k \in 1 .. i - 1 PROVE Vanishes(q[k])
    <3>1. CASE k \in 1 .. l
      BY <1>4, <1>7, <1>13, <3>1
    <3>2. CASE k \notin 1 .. l
      <4>1. k - l \in 1 .. j - 1 /\ k = l + (k - l) /\ k - l \in 1 .. m
        BY <2>2, <3>2
      <4>2. q[k] = s[k - l]
        BY <1>4, <4>1
      <4> QED BY <2>1, <4>1, <4>2
    <3> QED BY <3>1, <3>2
  <2> QED BY <1>4, <2>2, <2>3, <2>4, BeginsAt
<1>14. Begins(q) = Begins(r) \cup IF Nullable(r) THEN Begins(s) ELSE {}
  BY <1>11, <1>12, <1>13
<1> QED BY <1>3, <1>10, <1>14

\* The end of a sequence.
LEMMA SeqRest ==
  ASSUME NEW s, IsSeq(s), NEW m \in 1 .. Len(s)
  PROVE  /\ IsSeq(SubSeq(s, m + 1, Len(s)))
         /\ \A i \in 1 .. Len(SubSeq(s, m + 1, Len(s))) :
              i + m \in 1 .. Len(s) /\ SubSeq(s, m + 1, Len(s))[i] = s[i + m]
<1>1. PICK S : s \in Seq(S)
  BY DEF IsSeq
<1>2. PICK n \in Nat : n = Len(s)
  BY <1>1
<1>3. PICK t : t = SubSeq(s, m + 1, n)
  OBVIOUS
<1>4. m \in 1 .. n
  BY <1>2
<1>5. t \in Seq(S) /\ Len(t) = n - m
  BY <1>1, <1>2, <1>3, <1>4
<1>6. \A i \in 1 .. n - m : t[i] = s[i + m]
  BY <1>1, <1>2, <1>3, <1>4
<1>7. \A i \in 1 .. n - m : i + m \in 1 .. n
  BY <1>4
<1>8. IsSeq(t)
  BY <1>5 DEF IsSeq
<1> QED BY <1>2, <1>3, <1>5, <1>6, <1>7, <1>8

-----------------------------------------------------------------------------
(* Numbers by rank. *)

\* How many come before x in the order R, and x.
RankIn(S, R, x) == Cardinality({y \in S : <<y, x>> \in R}) + 1

\* In a strict total order the ranks are the numbers from 1, one each.
LEMMA Ranked ==
  ASSUME NEW S, IsFiniteSet(S), NEW R,
         \A x \in S : <<x, x>> \notin R,
         \A x, y \in S : x # y => <<x, y>> \in R \/ <<y, x>> \in R,
         \A x, y, z \in S : <<x, y>> \in R /\ <<y, z>> \in R => <<x, z>> \in R
  PROVE  /\ Cardinality(S) \in Nat
         /\ \A x \in S : RankIn(S, R, x) \in 1 .. Cardinality(S)
         /\ \A x, y \in S : x # y => RankIn(S, R, x) # RankIn(S, R, y)
         /\ \A k \in 1 .. Cardinality(S) : \E x \in S : RankIn(S, R, x) = k
<1> DEFINE B(x) == {y \in S : <<y, x>> \in R}
<1>1. Cardinality(S) \in Nat
  BY FS_CardinalityType
<1>2. \A x \in S : IsFiniteSet(B(x)) /\ Cardinality(B(x)) \in Nat
  <2> TAKE x \in S
  <2>1. B(x) \subseteq S
    OBVIOUS
  <2> HIDE DEF B
  <2>2. IsFiniteSet(B(x))
    BY <2>1, FS_Subset
  <2> QED BY <2>2, FS_CardinalityType
<1>3. \A x \in S : RankIn(S, R, x) = Cardinality(B(x)) + 1
  BY DEF RankIn
<1>4. ASSUME NEW x \in S, NEW T, IsFiniteSet(T), B(x) \subseteq T, x \in T
      PROVE  Cardinality(B(x)) < Cardinality(T)
  <2>1. x \notin B(x)
    OBVIOUS
  <2> HIDE DEF B
  <2>2. Cardinality(B(x)) <= Cardinality(T) /\ Cardinality(T) \in Nat
    BY <1>4, FS_Subset, FS_CardinalityType
  <2>3. Cardinality(B(x)) # Cardinality(T)
    BY <1>4, <2>1, FS_Subset
  <2> QED BY <1>2, <2>2, <2>3
<1>5. ASSUME NEW x \in S, NEW y \in S, <<x, y>> \in R
      PROVE  Cardinality(B(x)) < Cardinality(B(y))
  <2>1. B(x) \subseteq B(y) /\ x \in B(y)
    BY <1>5
  <2> HIDE DEF B
  <2> QED BY <1>2, <1>4, <2>1
<1>6. \A x \in S : B(x) \subseteq S
  OBVIOUS
<1> HIDE DEF B
<1>7. \A x \in S : RankIn(S, R, x) \in 1 .. Cardinality(S)
  <2> TAKE x \in S
  <2>1. Cardinality(B(x)) < Cardinality(S)
    BY <1>4, <1>6
  <2> QED BY <1>1, <1>2, <1>3, <2>1
<1>8. \A x, y \in S : x # y => RankIn(S, R, x) # RankIn(S, R, y)
  <2> SUFFICES ASSUME NEW x \in S, NEW y \in S, x # y
               PROVE  RankIn(S, R, x) # RankIn(S, R, y)
    OBVIOUS
  <2>1. Cardinality(B(x)) < Cardinality(B(y)) \/ Cardinality(B(y)) < Cardinality(B(x))
    BY <1>5
  <2> QED BY <1>2, <1>3, <2>1
<1>9. \A k \in 1 .. Cardinality(S) : \E x \in S : RankIn(S, R, x) = k
  <2>1. PICK c \in Nat : c = Cardinality(S)
    BY <1>1
  <2>2. PICK T : T = 1 .. c
    OBVIOUS
  <2>3. IsFiniteSet(T) /\ Cardinality(T) = Cardinality(S)
    BY <2>1, <2>2, FS_Interval
  <2>4. PICK f : f = [x \in S |-> RankIn(S, R, x)]
    OBVIOUS
  <2>5. f \in [S -> T] /\ \A x, y \in S : x # y => f[x] # f[y]
    BY <1>7, <1>8, <2>1, <2>2, <2>4
  <2>6. \A k \in T : \E x \in S : f[x] = k
    BY <2>3, <2>5, OneToOneOnto
  <2> QED BY <2>1, <2>2, <2>4, <2>6
<1> QED BY <1>1, <1>7, <1>8, <1>9
=============================================================================
