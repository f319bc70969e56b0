-------------------------- MODULE HashTable_proofs ---------------------------
(***************************************************************************)
(* Theorems about the hash table, for any set of symbols, any hash          *)
(* function and any number of buckets.                                     *)
(*                                                                         *)
(* The buckets hold no trace of when a symbol was added, but an order of   *)
(* time is what explains them: a bucket points at the newest of its        *)
(* symbols, and every symbol at the newest of those older than itself.     *)
(* The inductive invariant says that there IS a stamp for every symbol of  *)
(* which this holds, and that a walk has passed the buckets before its own *)
(* and, within it, what is newer than where it is.                         *)
(***************************************************************************)
EXTENDS HashTable, NaturalsInduction, WellFoundedInduction, FiniteSetTheorems, TLAPS

-----------------------------------------------------------------------------
(* Induction over the natural numbers, of a set of numbers.                *)

\* A set of natural numbers that has an element has a least one: what every
\* argument about how far a loop of the code has come rests on.
LEMMA LeastNat ==
  ASSUME NEW T, T \subseteq Nat, T # {}
  PROVE  \E m \in T : \A k \in T : m <= k
<1>1. IsWellFoundedOn(OpToRel(<, Nat), Nat)
  BY NatLessThanWellFounded
<1>2. \E m \in T : \A k \in T : ~ (<<k, m>> \in OpToRel(<, Nat))
  BY <1>1, WFMin
<1>3. PICK m \in T : \A k \in T : ~ (<<k, m>> \in OpToRel(<, Nat))
  BY <1>2
<1>4. \A k \in T : m <= k
  <2>1. TAKE k \in T
  <2>2. ~(k < m) BY <1>3 DEF OpToRel
  <2> QED BY <2>2
<1> QED BY <1>4

\* A set that has 0, and with a number the next one, has all of them: the
\* rounds of a loop, the places of a sequence, the symbols along a chain.
LEMMA EveryNat ==
  ASSUME NEW S, 0 \in S, \A n \in Nat : n \in S => n + 1 \in S
  PROVE  Nat \subseteq S
<1>1. SUFFICES ASSUME {n \in Nat : n \notin S} # {} PROVE FALSE
  OBVIOUS
<1>2. PICK m \in {n \in Nat : n \notin S} : \A k \in {n \in Nat : n \notin S} : m <= k
  BY <1>1, LeastNat
<1>3. m # 0
  OBVIOUS
<1>4. m - 1 \in Nat /\ m - 1 \in S
  BY <1>2, <1>3
<1> QED BY <1>4

-----------------------------------------------------------------------------
\* The bucket a symbol belongs to, and its symbols.
Home(s)  == hash[name[s]] % max_size
Mates(i) == {s \in in : Home(s) = i}
Older(stamp, s) == {t \in in : Home(t) = Home(s) /\ stamp[t] < stamp[s]}

Newest(stamp, x, S) ==
  IF S = {} THEN x = NULL ELSE x \in S /\ \A t \in S : stamp[t] <= stamp[x]

Ordered(stamp, now) ==
  /\ \A s \in in : stamp[s] < now
  /\ \A s, t \in in : stamp[s] = stamp[t] => s = t
  /\ \A i \in Buckets : Newest(stamp, held[<<"table", i>>], Mates(i))
  /\ \A s \in in : Newest(stamp, next(s), Older(stamp, s))

Passed(stamp) ==
  /\ Walking => /\ walk \in in /\ Home(walk) = bucket
                /\ \A s \in in : s \in visited <=>
                     \/ Home(s) < bucket
                     \/ Home(s) = bucket /\ stamp[s] > stamp[walk]
  /\ ~Walking => visited = {}

Types ==
  /\ held \in [Slots -> Syms \cup {NULL}]
  /\ prev \in [Syms -> Slots \cup {NULL}]
  /\ in \subseteq Syms /\ found \in Syms \cup {NULL}
  /\ walk \in Syms \cup {NULL} /\ bucket \in 0 .. max_size
  /\ visited \subseteq Syms

IInv ==
  /\ Types /\ PointersAgree
  /\ curr_num = Cardinality(in)
  /\ \E stamp \in [Syms -> Nat], now \in Nat : Ordered(stamp, now) /\ Passed(stamp)

-----------------------------------------------------------------------------
(* The slots and the buckets. *)

\* Every symbol belongs to one bucket, and hash_add_sym() puts it there.
LEMMA HomeSlot ==
  ASSUME NEW s \in Syms
  PROVE  /\ Home(s) \in Buckets
         /\ SlotOf(name[s]) = <<"table", Home(s)>>
         /\ SlotOf(name[s]) \in Slots
         /\ <<"next", s>> \in Slots
<1>1. hash[name[s]] \in Nat /\ max_size \in Nat \ {0}
  BY TableAssumption DEF Names
<1>2. Home(s) \in Buckets
  BY <1>1 DEF Home, Buckets
<1> QED BY <1>2 DEF Home, SlotOf, Slots

\* A slot is that of a bucket or of a symbol, and never of both.
LEMMA SlotKinds ==
  /\ \A i, j : <<"table", i>> = <<"table", j>> => i = j
  /\ \A s, t : <<"next", s>> = <<"next", t>> => s = t
  /\ \A i, s : <<"table", i>> # <<"next", s>>
OBVIOUS

\* The table is made empty: no symbol, no pointer, no walk.
LEMMA InitIInv == Init => IInv
<1> SUFFICES ASSUME Init PROVE IInv OBVIOUS
<1> USE TableAssumption DEF Init
<1>1. Types
  BY DEF Types
<1>2. PointersAgree
  BY DEF PointersAgree, Live, Slots
<1>3. curr_num = Cardinality(in)
  BY FS_EmptySet
<1>4. Ordered([s \in Syms |-> 0], 0) /\ Passed([s \in Syms |-> 0])
  BY DEF Ordered, Passed, Newest, Mates, Slots, Walking
<1> QED BY <1>1, <1>2, <1>3, <1>4 DEF IInv

\* hash_add_sym() makes its symbol the newest of all.
LEMMA AddIInv ==
  ASSUME IInv, NEW s \in Syms, hash_add_sym(s)
  PROVE  /\ IInv'
         /\ \E stamp \in [Syms -> Nat], now \in Nat :
              Ordered(stamp, now) /\ Ordered([stamp EXCEPT ![s] = now], now + 1)'
<1> USE TableAssumption
<1> DEFINE p == SlotOf(name[s])   tmp == held[p]
<1>1. PICK stamp \in [Syms -> Nat], now \in Nat : Ordered(stamp, now) /\ Passed(stamp)
  BY DEF IInv
<1>2. /\ held' = [held EXCEPT ![p] = s, ![<<"next", s>>] = tmp]
      /\ prev' = [t \in Syms |-> IF t = s THEN p
                                 ELSE IF t = tmp THEN <<"next", s>> ELSE prev[t]]
      /\ curr_num' = curr_num + 1 /\ in' = in \cup {s}
      /\ s \notin in /\ ~Walking /\ UNCHANGED <<found, going>>
  BY DEF hash_add_sym
<1>3. p \in Slots /\ <<"next", s>> \in Slots /\ p = <<"table", Home(s)>> /\ Home(s) \in Buckets
  BY HomeSlot
<1>4. Types'
  BY <1>2, <1>3 DEF IInv, Types, going
<1>5. held'[p] = s /\ held'[<<"next", s>>] = tmp
      /\ \A q \in Slots : q # p /\ q # <<"next", s>> => held'[q] = held[q]
  BY <1>2, <1>3, SlotKinds DEF IInv, Types
<1>6. PointersAgree'
  <2>0. prev'[s] = p /\ \A t \in Syms : t # s => prev'[t] = IF t = tmp THEN <<"next", s>> ELSE prev[t]
    BY <1>2
  <2>1. \A q \in Live' : q \in Live \/ q = <<"next", s>>
    BY <1>2 DEF Live
  <2>2. Live \subseteq Slots /\ Live \subseteq Live' /\ <<"next", s>> \in Live' /\ p \in Live
    BY <1>2, <1>3 DEF Live, Slots, IInv, Types
  <2>3. ASSUME NEW q \in Live', held'[q] # NULL
        PROVE  held'[q] \in in' /\ prev'[held'[q]] = q
    <3>1. CASE q = p
      <4>1. held'[q] = s /\ prev'[s] = q BY <3>1, <1>5, <2>0
      <4> QED BY <4>1, <1>2
    <3>2. CASE q = <<"next", s>>
      <4>1. tmp \in in /\ tmp # NULL BY <3>2, <1>5, <2>2, <2>3 DEF IInv, PointersAgree
      <4>2. tmp \in Syms /\ tmp # s BY <4>1, <1>2 DEF IInv, Types
      <4>3. held'[q] = tmp /\ prev'[tmp] = q BY <3>2, <4>2, <1>5, <2>0
      <4> QED BY <4>1, <4>3, <1>2
    <3>3. CASE q # p /\ q # <<"next", s>>
      <4>1. q \in Live /\ held'[q] = held[q] BY <3>3, <2>1, <2>2, <1>5
      <4>2. held[q] \in in /\ prev[held[q]] = q BY <4>1, <2>3 DEF IInv, PointersAgree
      <4>3. held[q] # s /\ held[q] \in Syms BY <4>2, <1>2 DEF IInv, Types
      <4>4. held[q] # tmp
        <5>1. SUFFICES ASSUME held[q] = tmp PROVE FALSE OBVIOUS
        <5>2. prev[tmp] = p BY <5>1, <2>2, <4>1, <2>3 DEF IInv, PointersAgree
        <5> QED BY <5>1, <5>2, <4>2, <3>3
      <4> QED BY <4>1, <4>2, <4>3, <4>4, <1>2
    <3> QED BY <3>1, <3>2, <3>3
  <2>4. ASSUME NEW t \in in'
        PROVE  prev'[t] \in Live' /\ held'[prev'[t]] = t
    <3>1. CASE t = s
      BY <3>1, <2>2, <1>2, <1>5
    <3>2. CASE t # s
      <4>1. t \in in /\ t \in Syms /\ prev[t] \in Live /\ held[prev[t]] = t /\ t # NULL
        BY <3>2, <1>2 DEF IInv, PointersAgree, Types
      <4>2. CASE t = tmp
        BY <4>1, <4>2, <3>2, <2>2, <1>2, <1>5
      <4>3. CASE t # tmp
        <5>1. prev'[t] = prev[t] BY <4>1, <4>3, <3>2, <1>2
        <5>2. prev[t] # p BY <4>1, <4>3
        <5>3. prev[t] # <<"next", s>> BY <4>1, <1>2, <1>3, SlotKinds DEF Live
        <5> QED BY <4>1, <5>1, <5>2, <5>3, <2>2, <1>5
      <4> QED BY <4>2, <4>3
    <3> QED BY <3>1, <3>2
  <2> QED BY <2>3, <2>4 DEF PointersAgree
<1>7. curr_num' = Cardinality(in')
  <2>1. IsFiniteSet(in) BY FS_Subset DEF IInv, Types
  <2> QED BY <2>1, <1>2, FS_AddElement DEF IInv
<1> DEFINE mark == [stamp EXCEPT ![s] = now]
<1>8. mark \in [Syms -> Nat] /\ mark[s] = now /\ \A t \in in : t \in Syms /\ mark[t] = stamp[t] /\ mark[t] < now
  BY <1>1, <1>2 DEF Ordered, IInv, Types
<1> HIDE DEF mark
<1>9. Ordered(mark, now + 1)'
  <2>1. \A t \in in' : mark[t] < now + 1
    BY <1>2, <1>8
  <2>2. \A t, u \in in' : mark[t] = mark[u] => t = u
    BY <1>1, <1>2, <1>8 DEF Ordered
  <2>3. ASSUME NEW i \in Buckets
        PROVE  Newest(mark, held[<<"table", i>>], Mates(i))'
    <3>1. <<"table", i>> \in Slots BY DEF Slots
    <3>2. Newest(stamp, held[<<"table", i>>], Mates(i)) BY <1>1 DEF Ordered
    <3>3. CASE i = Home(s)
      <4>1. Mates(i)' = Mates(i) \cup {s} BY <3>3, <1>2 DEF Mates
      <4>2. \A t \in Mates(i) : mark[t] <= mark[s] BY <1>8 DEF Mates
      <4> QED BY <4>1, <4>2, <3>3, <1>3, <1>5, <1>8 DEF Newest
    <3>4. CASE i # Home(s)
      <4>1. Mates(i)' = Mates(i) BY <3>4, <1>2 DEF Mates
      <4>2. held'[<<"table", i>>] = held[<<"table", i>>] BY <3>4, <3>1, <1>3, <1>5, SlotKinds
      <4> QED BY <4>1, <4>2, <3>2, <1>8 DEF Newest, Mates
    <3> QED BY <3>3, <3>4
  <2>4. ASSUME NEW t \in in'
        PROVE  Newest(mark, next(t), Older(mark, t))'
    <3>1. CASE t = s
      <4>1. Older(mark, s)' = Mates(Home(s)) BY <1>2, <1>8 DEF Older, Mates
      <4>2. Newest(stamp, tmp, Mates(Home(s))) BY <1>1, <1>3 DEF Ordered
      <4> QED BY <4>1, <4>2, <3>1, <1>5, <1>8 DEF Newest, Mates, next
    <3>2. CASE t # s
      <4>1. t \in in /\ Newest(stamp, next(t), Older(stamp, t)) BY <3>2, <1>1, <1>2 DEF Ordered
      <4>2. <<"next", t>> \in Slots BY <4>1, <1>8, HomeSlot
      <4>3. next(t)' = next(t) BY <3>2, <4>2, <1>3, <1>5, SlotKinds DEF next
      <4>4. Older(mark, t)' = Older(stamp, t) BY <4>1, <1>2, <1>8 DEF Older
      <4> QED BY <4>1, <4>3, <4>4, <1>8 DEF Newest, Older
    <3> QED BY <3>1, <3>2
  <2> QED BY <2>1, <2>2, <2>3, <2>4 DEF Ordered
<1>10. Passed(mark)'
  BY <1>1, <1>2 DEF Passed, Walking, going
<1>11. IInv'
  BY <1>4, <1>6, <1>7, <1>8, <1>9, <1>10 DEF IInv
<1> QED BY <1>1, <1>9, <1>11 DEF mark

\* hash_del_sym() takes its symbol out of the one slot that points at it: what
\* was the newest of those older than it is now the newest after that slot.
LEMMA DelIInv ==
  ASSUME IInv, NEW s \in Syms, hash_del_sym(s)
  PROVE  /\ IInv'
         /\ \E stamp \in [Syms -> Nat], now \in Nat :
              Ordered(stamp, now) /\ Ordered(stamp, now)'
<1> USE TableAssumption
<1> DEFINE p == prev[s]   nx == next(s)
<1>1. PICK stamp \in [Syms -> Nat], now \in Nat : Ordered(stamp, now) /\ Passed(stamp)
  BY DEF IInv
<1>2. /\ held' = [held EXCEPT ![p] = nx]
      /\ prev' = [t \in Syms |-> IF t = nx THEN p ELSE prev[t]]
      /\ curr_num' = curr_num - 1 /\ in' = in \ {s}
      /\ s \in in /\ s # walk /\ UNCHANGED <<found, going>>
  BY DEF hash_del_sym
<1>3. Live \subseteq Slots /\ <<"next", s>> \in Live /\ p \in Live /\ held[p] = s /\ s # NULL
  BY <1>2 DEF Live, Slots, IInv, Types, PointersAgree
<1>4. nx = held[<<"next", s>>] /\ (nx # NULL => nx \in in /\ prev[nx] = <<"next", s>>)
  BY <1>3 DEF next, IInv, PointersAgree
<1>5. p # <<"next", s>>
  <2>1. SUFFICES ASSUME p = <<"next", s>> PROVE FALSE OBVIOUS
  <2>2. s \in Older(stamp, s) BY <2>1, <1>1, <1>2, <1>3, <1>4 DEF Ordered, Newest
  <2> QED BY <2>2 DEF Older
<1>6. nx # s
  BY <1>3, <1>4, <1>5
<1> HIDE DEF p, nx
<1>7. held'[p] = nx /\ \A q \in Slots : q # p => held'[q] = held[q]
  BY <1>2, <1>3 DEF IInv, Types
<1>8. \A t \in Syms : prev'[t] = IF t = nx THEN p ELSE prev[t]
  BY <1>2
<1>9. Live' = Live \ {<<"next", s>>}
  BY <1>2, SlotKinds DEF Live
<1>10. Types'
  <2>1. nx \in Syms \cup {NULL} /\ p \in Slots
    BY <1>3, <1>4 DEF IInv, Types
  <2> QED BY <2>1, <1>2 DEF IInv, Types, going
<1>11. PointersAgree'
  <2>1. ASSUME NEW q \in Live', held'[q] # NULL
        PROVE  held'[q] \in in' /\ prev'[held'[q]] = q
    <3>1. CASE q = p
      <4>1. held'[q] = nx /\ nx \in in /\ nx \in Syms BY <3>1, <1>4, <1>7, <2>1 DEF IInv, Types
      <4> QED BY <4>1, <3>1, <1>2, <1>6, <1>8
    <3>2. CASE q # p
      <4>1. q \in Live /\ q \in Slots /\ held'[q] = held[q] /\ q # <<"next", s>>
        BY <3>2, <1>3, <1>7, <1>9
      <4>2. held[q] \in in /\ prev[held[q]] = q BY <4>1, <2>1 DEF IInv, PointersAgree
      <4>3. held[q] # s BY <4>2, <3>2 DEF p
      <4>4. held[q] # nx BY <4>1, <4>2, <2>1, <1>4
      <4>5. held[q] \in Syms BY <4>2 DEF IInv, Types
      <4> QED BY <4>1, <4>2, <4>3, <4>4, <4>5, <1>2, <1>8
    <3> QED BY <3>1, <3>2
  <2>2. ASSUME NEW t \in in'
        PROVE  prev'[t] \in Live' /\ held'[prev'[t]] = t
    <3>1. t \in in /\ t # s /\ t \in Syms /\ t # NULL /\ prev[t] \in Live /\ held[prev[t]] = t
      BY <1>2 DEF IInv, PointersAgree, Types
    <3>2. CASE t = nx
      BY <3>1, <3>2, <1>3, <1>5, <1>7, <1>8, <1>9
    <3>3. CASE t # nx
      <4>1. prev'[t] = prev[t] BY <3>1, <3>3, <1>8
      <4>2. prev[t] # p BY <3>1, <1>3
      <4>3. prev[t] # <<"next", s>> BY <3>1, <3>3, <1>4
      <4> QED BY <3>1, <4>1, <4>2, <4>3, <1>3, <1>7, <1>9
    <3> QED BY <3>2, <3>3
  <2> QED BY <2>1, <2>2 DEF PointersAgree
<1>12. curr_num' = Cardinality(in')
  <2>1. IsFiniteSet(in) BY FS_Subset DEF IInv, Types
  <2> QED BY <2>1, <1>2, FS_RemoveElement DEF IInv
<1>13. \A t \in in : t \in Syms /\ stamp[t] \in Nat
  BY <1>1 DEF IInv, Types
\* Of a set without its newest symbol, the newest is that of those older than it.
<1>14. ASSUME NEW S, S \subseteq in, s \in S, \A t \in S : stamp[t] <= stamp[s],
              S \ {s} = Older(stamp, s)
       PROVE  Newest(stamp, nx, S \ {s})
  BY <1>14, <1>1, <1>2 DEF Ordered, nx
<1>15. Ordered(stamp, now)'
  <2>1. (\A t \in in' : stamp[t] < now) /\ (\A t, u \in in' : stamp[t] = stamp[u] => t = u)
    BY <1>1, <1>2 DEF Ordered
  <2>2. ASSUME NEW i \in Buckets
        PROVE  Newest(stamp, held[<<"table", i>>], Mates(i))'
    <3>1. <<"table", i>> \in Slots BY DEF Slots
    <3>2. Newest(stamp, held[<<"table", i>>], Mates(i)) BY <1>1 DEF Ordered
    <3>3. Mates(i)' = Mates(i) \ {s} BY <1>2 DEF Mates
    <3>4. CASE <<"table", i>> = p
      <4>1. s \in Mates(i) /\ \A t \in Mates(i) : stamp[t] <= stamp[s]
        BY <3>2, <3>4, <1>3 DEF Newest
      <4>2. Mates(i) \ {s} = Older(stamp, s)
        <5>1. Home(s) = i BY <4>1 DEF Mates
        <5>2. \A t \in Mates(i) \ {s} : stamp[t] < stamp[s]
          BY <4>1, <1>1, <1>2, <1>13 DEF Mates, Ordered
        <5>3. \A t \in Older(stamp, s) : t # s BY <1>2, <1>13 DEF Older
        <5> QED BY <5>1, <5>2, <5>3 DEF Mates, Older
      <4>3. Newest(stamp, nx, Mates(i) \ {s}) BY <4>1, <4>2, <1>14 DEF Mates
      <4> QED BY <4>3, <3>3, <3>4, <1>7 DEF Newest
    <3>5. CASE <<"table", i>> # p
      <4>1. held'[<<"table", i>>] = held[<<"table", i>>] BY <3>1, <3>5, <1>7
      <4>2. held[<<"table", i>>] # s BY <3>5 DEF IInv, PointersAgree, Live, p
      <4> QED BY <4>1, <4>2, <3>2, <3>3, <1>3 DEF Newest
    <3> QED BY <3>4, <3>5
  <2>3. ASSUME NEW t \in in'
        PROVE  Newest(stamp, next(t), Older(stamp, t))'
    <3>0. t \in in /\ t # s BY <1>2
    <3>1. <<"next", t>> \in Slots /\ <<"next", t>> \in Live BY <3>0, <1>13, HomeSlot DEF Live
    <3>2. Newest(stamp, next(t), Older(stamp, t)) BY <3>0, <1>1 DEF Ordered
    <3>3. Older(stamp, t)' = Older(stamp, t) \ {s} BY <1>2 DEF Older
    <3>4. CASE <<"next", t>> = p
      <4>0. next(t) = s BY <3>4, <1>3 DEF next
      <4>1. s \in Older(stamp, t) /\ \A u \in Older(stamp, t) : stamp[u] <= stamp[s]
        BY <3>2, <4>0, <1>3 DEF Newest
      <4>2. Older(stamp, t) \ {s} = Older(stamp, s)
        <5>1. Home(s) = Home(t) /\ stamp[s] < stamp[t] BY <4>1 DEF Older
        <5>2. \A u \in Older(stamp, t) \ {s} : stamp[u] < stamp[s]
          BY <4>1, <1>1, <1>2, <1>13 DEF Older, Ordered
        <5>3. \A u \in Older(stamp, s) : u # s /\ stamp[u] < stamp[t] BY <5>1, <3>0, <1>2, <1>13 DEF Older
        <5> QED BY <5>1, <5>2, <5>3 DEF Older
      <4>3. Newest(stamp, nx, Older(stamp, t) \ {s}) BY <4>1, <4>2, <1>14 DEF Older
      <4> QED BY <4>3, <3>3, <3>4, <1>7 DEF Newest, next
    <3>5. CASE <<"next", t>> # p
      <4>1. next(t)' = next(t) BY <3>1, <3>5, <1>7 DEF next
      <4>2. next(t) # s BY <3>1, <3>5, <1>3 DEF IInv, PointersAgree, p, next
      <4> QED BY <4>1, <4>2, <3>2, <3>3, <1>3 DEF Newest
    <3> QED BY <3>4, <3>5
  <2> QED BY <2>1, <2>2, <2>3 DEF Ordered
<1>16. Passed(stamp)'
  BY <1>1, <1>2 DEF Passed, Walking, going
<1>17. IInv'
  BY <1>1, <1>10, <1>11, <1>12, <1>15, <1>16 DEF IInv
<1> QED BY <1>1, <1>15, <1>17

\* Where a walk goes on: at the newest symbol of the first bucket that has any.
LEMMA EnterFinds ==
  ASSUME IInv, NEW from \in Nat, Enter(from)
  PROVE  /\ bucket' \in from .. max_size \/ bucket' = max_size
         /\ \A i \in Buckets : from <= i /\ i < bucket' => Mates(i) = {}
         /\ bucket' = max_size => walk' = NULL
         /\ bucket' # max_size => /\ bucket' \in Buckets
                                  /\ walk' = held[<<"table", bucket'>>] /\ walk' \in Mates(bucket')
<1> DEFINE used == {i \in from .. max_size - 1 : held[<<"table", i>>] # NULL}
<1>1. PICK stamp \in [Syms -> Nat], now \in Nat : Ordered(stamp, now)
  BY DEF IInv
<1>2. \A i \in Buckets : held[<<"table", i>>] # NULL <=> Mates(i) # {}
  BY <1>1, TableAssumption DEF Ordered, Newest, IInv, Types, Mates
<1>3. \A i \in Buckets : Mates(i) # {} => held[<<"table", i>>] \in Mates(i)
  BY <1>1 DEF Ordered, Newest
<1>4. used \subseteq Buckets /\ used \subseteq Nat
  BY DEF Buckets
<1>0. max_size \in Nat \ {0} /\ Buckets = 0 .. max_size - 1
  BY TableAssumption DEF Buckets
<1>5. CASE used = {}
  <2>1. bucket' = max_size /\ walk' = NULL BY <1>5 DEF Enter
  <2>2. \A i \in Buckets : from <= i => i \notin used /\ held[<<"table", i>>] = NULL BY <1>0, <1>5
  <2> HIDE DEF used
  <2> QED BY <2>1, <2>2, <1>0, <1>2
<1>6. CASE used # {}
  <2>1. Min(used) \in used /\ \A i \in used : Min(used) <= i
    BY <1>4, <1>6, LeastNat DEF Min
  <2>2. bucket' = Min(used) /\ walk' = held[<<"table", Min(used)>>]
    BY <1>6 DEF Enter
  <2>3. \A i \in Buckets : from <= i /\ held[<<"table", i>>] # NULL => i \in used BY <1>0
  <2>4. \A i \in used : i \in Buckets /\ from <= i /\ i < max_size /\ held[<<"table", i>>] # NULL BY <1>0
  <2> HIDE DEF used
  <2>5. bucket' \in used /\ \A i \in used : bucket' <= i
    BY <2>1, <2>2
  <2>6. bucket' \in Buckets /\ from <= bucket' /\ bucket' < max_size /\ held[<<"table", bucket'>>] # NULL
    BY <2>4, <2>5
  <2>7. ASSUME NEW i \in Buckets, from <= i, i < bucket'
        PROVE  Mates(i) = {}
    <3>1. i \in Int /\ bucket' \in Int BY <2>6, <1>0
    <3>2. i \notin used BY <3>1, <2>5, <2>7
    <3>3. held[<<"table", i>>] = NULL BY <3>2, <2>3, <2>7
    <3> QED BY <3>3, <1>2
  <2>8. walk' = held[<<"table", bucket'>>] /\ walk' \in Mates(bucket')
    BY <2>2, <2>6, <1>2, <1>3
  <2>9. bucket' \in from .. max_size /\ bucket' # max_size
    BY <2>6, <1>0
  <2> QED BY <2>6, <2>7, <2>8, <2>9
<1> QED BY <1>5, <1>6

\* What a step that goes along the table, or searches it, leaves alone.
LEMMA TableKept ==
  ASSUME IInv, UNCHANGED table
  PROVE  /\ PointersAgree' /\ (curr_num = Cardinality(in))'
         /\ \A stamp, now : Ordered(stamp, now) => Ordered(stamp, now)'
         /\ in' = in /\ held' = held /\ prev' = prev
         /\ \A i : Mates(i)' = Mates(i)
         /\ \A stamp, s : Older(stamp, s)' = Older(stamp, s)
<1>1. in' = in /\ held' = held /\ prev' = prev /\ curr_num' = curr_num
  BY DEF table
<1>2. PointersAgree'
  BY <1>1 DEF IInv, PointersAgree, Live
<1>3. (curr_num = Cardinality(in))'
  BY <1>1 DEF IInv
<1>4. (\A i : Mates(i)' = Mates(i)) /\ \A stamp, s : Older(stamp, s)' = Older(stamp, s)
  BY <1>1 DEF Mates, Older
<1>5. \A stamp, now : Ordered(stamp, now) => Ordered(stamp, now)'
  BY <1>1 DEF Ordered, Newest, Mates, Older, next
<1> QED BY <1>1, <1>2, <1>3, <1>4, <1>5

\* hash_print_tab() begins with nothing before where it is.
LEMMA PrintIInv ==
  ASSUME IInv, hash_print_tab
  PROVE  IInv'
<1> USE TableAssumption
<1>1. PICK stamp \in [Syms -> Nat], now \in Nat : Ordered(stamp, now) /\ Passed(stamp)
  BY DEF IInv
<1>2. ~Walking /\ Enter(0) /\ UNCHANGED table /\ found' = found /\ visited' = visited /\ visited = {}
  BY <1>1 DEF hash_print_tab, Passed
<1>3. /\ \A i \in Buckets : i < bucket' => Mates(i) = {}
      /\ bucket' \in 0 .. max_size
      /\ bucket' = max_size => walk' = NULL
      /\ bucket' # max_size => /\ bucket' \in Buckets
                               /\ walk' = held[<<"table", bucket'>>] /\ walk' \in Mates(bucket')
  BY <1>2, EnterFinds DEF Buckets
<1>4. walk' \in Syms \cup {NULL}
  BY <1>3 DEF Mates, IInv, Types
<1>5. Types'
  BY <1>2, <1>3, <1>4 DEF IInv, Types, table
<1>6. Passed(stamp)'
  <2>1. CASE bucket' = max_size
    BY <2>1, <1>2 DEF Passed, Walking
  <2>2. CASE bucket' # max_size
    <3>1. walk' \in in' /\ Home(walk)' = bucket'
      BY <2>2, <1>2, <1>3, TableKept DEF Mates, Home
    <3>2. ASSUME NEW s \in in
          PROVE  ~(Home(s) < bucket') /\ ~(Home(s) = bucket' /\ stamp[s] > stamp[walk'])
      <4>0. s \in Syms /\ stamp[s] \in Nat BY <1>1 DEF IInv, Types
      <4>1. Home(s) \in Buckets /\ s \in Mates(Home(s)) BY <4>0, HomeSlot DEF Mates
      <4>2. Newest(stamp, walk', Mates(bucket')) BY <2>2, <1>1, <1>3 DEF Ordered
      <4>3. walk' \in Syms BY <1>3, <2>2 DEF Mates, IInv, Types
      <4> QED BY <4>0, <4>1, <4>2, <4>3, <1>1, <1>3 DEF Newest
    <3>3. \A s \in in' : Home(s)' = Home(s) BY DEF Home
    <3>4. in' = in BY <1>2, TableKept
    <3> QED BY <3>1, <3>2, <3>3, <3>4, <1>2, <1>3 DEF Passed, Walking, Buckets
  <2> QED BY <2>1, <2>2
<1> QED BY <1>1, <1>2, <1>5, <1>6, TableKept DEF IInv

\* A walk goes on at the newest of the older symbols of its bucket, or in the
\* next bucket that has any: it has then passed the symbol it comes from.
LEMMA NextSymIInv ==
  ASSUME IInv, NextSym
  PROVE  /\ IInv'
         /\ bucket' = max_size => in \subseteq visited \cup {walk}
<1>1. PICK stamp \in [Syms -> Nat], now \in Nat : Ordered(stamp, now) /\ Passed(stamp)
  BY DEF IInv
<1>2. /\ UNCHANGED table /\ found' = found /\ Walking
      /\ visited' = IF bucket' = max_size THEN {} ELSE visited \cup {walk}
  BY DEF NextSym
<1>3. /\ walk \in in /\ walk \in Syms /\ Home(walk) = bucket /\ bucket \in Nat /\ bucket < max_size
      /\ max_size \in Nat
      /\ \A s \in in : s \in visited <=>
           \/ Home(s) < bucket
           \/ Home(s) = bucket /\ stamp[s] > stamp[walk]
  BY <1>1, <1>2, TableAssumption DEF Passed, Walking, IInv, Types
<1>4. \A s \in in : s \in Syms /\ stamp[s] \in Nat /\ Home(s) \in Buckets /\ Home(s) \in Nat /\ Home(s) < max_size
  <2>1. \A s \in in : s \in Syms /\ stamp[s] \in Nat BY <1>1 DEF IInv, Types
  <2>2. \A s \in in : Home(s) \in Buckets BY <2>1, HomeSlot
  <2> HIDE DEF Home
  <2> QED BY <2>1, <2>2, <1>3 DEF Buckets
<1>5. \A s \in in : Home(s) = bucket => s = walk \/ stamp[s] > stamp[walk] \/ s \in Older(stamp, walk)
  <2>1. \A s \in in : stamp[s] = stamp[walk] => s = walk BY <1>1, <1>3 DEF Ordered
  <2> QED BY <2>1, <1>3, <1>4 DEF Older
<1>6. Newest(stamp, next(walk), Older(stamp, walk))
  BY <1>1, <1>3 DEF Ordered
<1>7. /\ in' = in /\ (\A s : Home(s)' = Home(s))
      /\ Ordered(stamp, now)' /\ PointersAgree' /\ (curr_num = Cardinality(in))'
  BY <1>1, <1>2, TableKept DEF Home
<1>8. CASE next(walk) # NULL
  <2>1. walk' = next(walk) /\ bucket' = bucket /\ bucket' # max_size BY <1>8, <1>3 DEF NextSym
  <2>2. walk' \in Older(stamp, walk) /\ \A t \in Older(stamp, walk) : stamp[t] <= stamp[walk']
    BY <2>1, <1>6, <1>8 DEF Newest
  <2>3. walk' \in in /\ walk' \in Syms /\ Home(walk') = bucket /\ stamp[walk'] < stamp[walk]
    BY <2>2, <1>3, <1>4 DEF Older
  <2>4. visited' = visited \cup {walk} BY <2>1, <1>2
  <2>5. ASSUME NEW s \in in
        PROVE  s \in visited' <=> \/ Home(s) < bucket
                                  \/ Home(s) = bucket /\ stamp[s] > stamp[walk']
    <3>1. CASE s = walk BY <3>1, <2>3, <2>4, <1>3, <1>4
    <3>2. CASE s # walk
      <4>1. s \in visited' <=> s \in visited BY <3>2, <2>4
      <4>2. CASE Home(s) = bucket /\ ~(stamp[s] > stamp[walk])
        <5>1. s \in Older(stamp, walk) BY <4>2, <3>2, <1>5
        <5>2. stamp[s] <= stamp[walk'] BY <5>1, <2>2
        <5> QED BY <5>2, <4>1, <4>2, <2>3, <1>3, <1>4
      <4>3. CASE Home(s) = bucket /\ stamp[s] > stamp[walk]
        BY <4>1, <4>3, <2>3, <1>3, <1>4
      <4>4. CASE Home(s) # bucket
        BY <4>1, <4>4, <1>3
      <4> QED BY <4>2, <4>3, <4>4
    <3> QED BY <3>1, <3>2
  <2>6. Passed(stamp)'
    BY <2>1, <2>3, <2>5, <1>3, <1>7 DEF Passed, Walking
  <2>7. Types'
    BY <2>1, <2>3, <2>4, <1>2, <1>3 DEF IInv, Types, table
  <2> QED BY <2>1, <2>6, <2>7, <1>1, <1>7 DEF IInv
<1>9. CASE next(walk) = NULL
  <2>1. Older(stamp, walk) = {}
    <3>1. next(walk) \notin Older(stamp, walk) BY <1>9, <1>4, TableAssumption DEF Older
    <3> QED BY <3>1, <1>6 DEF Newest
  <2>2. Enter(bucket + 1) BY <1>9 DEF NextSym
  <2>3. /\ bucket' \in bucket + 1 .. max_size \/ bucket' = max_size
        /\ \A i \in Buckets : bucket + 1 <= i /\ i < bucket' => Mates(i) = {}
        /\ bucket' = max_size => walk' = NULL
        /\ bucket' # max_size => /\ bucket' \in Buckets
                                 /\ walk' = held[<<"table", bucket'>>] /\ walk' \in Mates(bucket')
    BY <2>2, <1>3, EnterFinds
  <2>4. \A s \in in : s \in visited \cup {walk} <=> Home(s) < bucket'
    <3>1. \A s \in in : s \in visited \cup {walk} <=> Home(s) <= bucket
      BY <2>1, <1>3, <1>4, <1>5
    <3>2. \A s \in in : Home(s) < bucket' <=> Home(s) <= bucket
      <4>1. TAKE s \in in
      <4>2. s \in Mates(Home(s)) BY DEF Mates
      <4>3. ~(bucket + 1 <= Home(s) /\ Home(s) < bucket') BY <4>2, <2>3, <1>4
      <4>4. bucket' \in Nat /\ bucket < bucket' BY <2>3, <1>3
      <4> QED BY <4>3, <4>4, <1>3, <1>4
    <3> QED BY <3>1, <3>2
  <2>5. walk' \in Syms \cup {NULL} /\ bucket' \in 0 .. max_size
    BY <2>3, <1>3 DEF Mates, IInv, Types
  <2>6. Types'
    BY <2>5, <1>2, <1>3 DEF IInv, Types, table
  <2>7. bucket' = max_size => in \subseteq visited \cup {walk}
    BY <2>4, <1>4
  <2>8. Passed(stamp)'
    <3>1. CASE bucket' = max_size
      BY <3>1, <1>2, <1>3 DEF Passed, Walking
    <3>2. CASE bucket' # max_size
      <4>1. walk' \in in /\ Home(walk') = bucket' /\ bucket' \in Nat /\ bucket' < max_size
        BY <3>2, <2>3, <1>3 DEF Mates, Buckets
      <4>2. visited' = visited \cup {walk} BY <3>2, <1>2
      <4>3. Newest(stamp, walk', Mates(bucket')) BY <3>2, <2>3, <1>1 DEF Ordered
      <4>4. \A s \in in : Home(s) = bucket' => stamp[s] <= stamp[walk']
        BY <4>3 DEF Newest, Mates
      <4>5. \A s \in in : s \in visited' <=>
              (\/ Home(s) < bucket'
               \/ Home(s) = bucket' /\ stamp[s] > stamp[walk'])
        BY <4>1, <4>2, <4>4, <2>4, <1>4
      <4> QED BY <4>1, <4>5, <1>7 DEF Passed, Walking
    <3> QED BY <3>1, <3>2
  <2> QED BY <2>6, <2>7, <2>8, <1>1, <1>7 DEF IInv
<1> QED BY <1>8, <1>9

\* A search changes what it returns and nothing else.
LEMMA SearchIInv ==
  ASSUME IInv, UNCHANGED <<table, going>>, found' \in Syms \cup {NULL}
  PROVE  IInv'
<1>1. PICK stamp \in [Syms -> Nat], now \in Nat : Ordered(stamp, now) /\ Passed(stamp)
  BY DEF IInv
<1>2. UNCHANGED table /\ walk' = walk /\ bucket' = bucket /\ visited' = visited
  BY DEF going
<1>3. Types'
  BY <1>2 DEF IInv, Types, table
<1>4. in' = in /\ Ordered(stamp, now)' /\ PointersAgree' /\ (curr_num = Cardinality(in))'
  BY <1>1, <1>2, TableKept
<1>5. Passed(stamp)'
  BY <1>1, <1>2, <1>4 DEF Passed, Walking, Home
<1> QED BY <1>1, <1>3, <1>4, <1>5 DEF IInv

-----------------------------------------------------------------------------
(* Chains. *)

\* What going along the links from a slot meets in its first n steps.
IsLinks(g, p, n) ==
  g = [i \in 1 .. n |->
         IF i = 1 THEN held[p]
         ELSE LET last == g[i - 1] IN IF last = NULL THEN NULL ELSE next(last)]

\* However far one goes, the links are determined, one by the one before.
LEMMA LinksExist == \A p : \A n \in Nat : \E g : IsLinks(g, p, n)
<1> TAKE p
<1> DEFINE S == {n \in Nat : \E g : IsLinks(g, p, n)}
<1>1. 0 \in S
  <2>1. IsLinks([i \in 1 .. 0 |-> NULL], p, 0) BY DEF IsLinks
  <2> QED BY <2>1
<1>2. ASSUME NEW n \in Nat, n \in S PROVE n + 1 \in S
  <2>1. PICK g : IsLinks(g, p, n) BY <1>2
  <2> DEFINE k == [i \in 1 .. n + 1 |->
                     IF i = n + 1
                     THEN IF i = 1 THEN held[p] ELSE IF g[n] = NULL THEN NULL ELSE next(g[n])
                     ELSE g[i]]
  <2>2. ASSUME NEW i \in 1 .. n + 1
        PROVE  k[i] = IF i = 1 THEN held[p]
                      ELSE LET last == k[i - 1] IN IF last = NULL THEN NULL ELSE next(last)
    BY <2>1 DEF IsLinks
  <2>3. k = [i \in 1 .. n + 1 |-> k[i]] OBVIOUS
  <2> HIDE DEF k
  <2>4. IsLinks(k, p, n + 1) BY <2>2, <2>3 DEF IsLinks
  <2> QED BY <2>4
<1> HIDE DEF S
<1>3. Nat \subseteq S BY <1>1, <1>2, EveryNat
<1> QED BY <1>3 DEF S

\* The chain of a slot is what the links meet before they end.
LEMMA ChainLinks ==
  ASSUME NEW p, Cardinality(Syms) \in Nat
  PROVE  \E g : /\ IsLinks(g, p, Cardinality(Syms))
                /\ LET n == Cardinality({i \in DOMAIN g : g[i] # NULL})
                   IN Chain(p) = [i \in 1 .. n |-> g[i]]
<1> DEFINE c == CHOOSE g : g = [i \in 1 .. Cardinality(Syms) |->
                  IF i = 1 THEN held[p]
                  ELSE LET last == g[i - 1] IN IF last = NULL THEN NULL ELSE next(last)]
<1>1. \E g : g = [i \in 1 .. Cardinality(Syms) |->
                  IF i = 1 THEN held[p]
                  ELSE LET last == g[i - 1] IN IF last = NULL THEN NULL ELSE next(last)]
  <2>1. PICK g : IsLinks(g, p, Cardinality(Syms)) BY LinksExist
  <2> QED BY <2>1, Zenon DEF IsLinks
<1>2. c = [i \in 1 .. Cardinality(Syms) |->
             IF i = 1 THEN held[p]
             ELSE LET last == c[i - 1] IN IF last = NULL THEN NULL ELSE next(last)]
  BY <1>1, Zenon
<1>3. LET n == Cardinality({i \in DOMAIN c : c[i] # NULL})
      IN Chain(p) = [i \in 1 .. n |-> c[i]]
  BY Zenon DEF Chain
<1> QED BY <1>2, <1>3, Zenon DEF IsLinks

\* A sequence that has exactly the symbols of a set, the newest first.
Descends(stamp, q, S) ==
  /\ q \in Seq(Syms)
  /\ \A i \in 1 .. Len(q) : q[i] \in S
  /\ \A s \in S : \E i \in 1 .. Len(q) : q[i] = s
  /\ \A i, j \in 1 .. Len(q) : i < j => stamp[q[i]] > stamp[q[j]]

\* Those of a set of symbols that are older than one of them.
Below(stamp, S, s) == {t \in S : stamp[t] < stamp[s]}

\* From a slot on, the symbols of S are linked, which are all that are older than
\* any of them.
Sources(stamp, p, S) ==
  /\ S \subseteq in /\ Newest(stamp, held[p], S)
  /\ \A s \in S : Older(stamp, s) = Below(stamp, S, s)

Falling(stamp, g, p, S, N) ==
  /\ \A i \in 1 .. N : g[i] \in S \cup {NULL}
  /\ N >= 1 => g[1] = held[p]
  /\ \A i \in 1 .. N : i + 1 <= N =>
       IF g[i] = NULL THEN g[i + 1] = NULL
       ELSE Newest(stamp, g[i + 1], Below(stamp, S, g[i]))
  /\ \A i, j \in 1 .. N : i < j /\ g[j] # NULL =>
       g[i] # NULL /\ stamp[g[i]] > stamp[g[j]]

\* The links from a slot: each symbol is newer than those after it, and once the
\* links have ended they stay so.
LEMMA LinksDescend ==
  ASSUME Types, NEW stamp \in [Syms -> Nat], NEW now \in Nat, Ordered(stamp, now),
         NEW p \in Slots, NEW S, Sources(stamp, p, S),
         NEW N \in Nat, NEW g, IsLinks(g, p, N)
  PROVE  Falling(stamp, g, p, S, N)
<1> USE DEF Sources
<1>1. /\ N >= 1 => g[1] = held[p]
      /\ \A i \in 1 .. N : i + 1 <= N =>
           g[i + 1] = IF g[i] = NULL THEN NULL ELSE next(g[i])
  BY DEF IsLinks
<1>2. \A s \in S : s \in Syms /\ s \in in /\ stamp[s] \in Nat /\ s # NULL
  BY TableAssumption DEF Types
<1>3. \A i \in 1 .. N : g[i] \in S \cup {NULL}
  <2> DEFINE T == {i \in Nat : i + 1 <= N => g[i + 1] \in S \cup {NULL}}
  <2>1. 0 \in T
    BY <1>1 DEF Newest
  <2>2. ASSUME NEW i \in Nat, i \in T PROVE i + 1 \in T
    <3>1. SUFFICES ASSUME i + 2 <= N PROVE g[i + 2] \in S \cup {NULL} OBVIOUS
    <3>2. g[i + 1] \in S \cup {NULL} /\ g[i + 2] = IF g[i + 1] = NULL THEN NULL ELSE next(g[i + 1])
      BY <3>1, <2>2, <1>1
    <3>3. ASSUME g[i + 1] \in S PROVE next(g[i + 1]) \in S \cup {NULL}
      <4>1. Newest(stamp, next(g[i + 1]), Older(stamp, g[i + 1])) BY <3>3, <1>2 DEF Ordered
      <4>2. Older(stamp, g[i + 1]) \subseteq S BY <3>3 DEF Below
      <4> QED BY <4>1, <4>2 DEF Newest
    <3> QED BY <3>2, <3>3
  <2> HIDE DEF T
  <2>3. Nat \subseteq T BY <2>1, <2>2, EveryNat
  <2>4. \A i \in 1 .. N : i - 1 \in Nat /\ (i - 1) + 1 = i OBVIOUS
  <2> QED BY <2>3, <2>4 DEF T
<1>4. \A i \in 1 .. N : i + 1 <= N =>
        IF g[i] = NULL THEN g[i + 1] = NULL
        ELSE Newest(stamp, g[i + 1], Below(stamp, S, g[i]))
  <2>1. SUFFICES ASSUME NEW i \in 1 .. N, i + 1 <= N, g[i] # NULL
                 PROVE  Newest(stamp, g[i + 1], Below(stamp, S, g[i]))
    BY <1>1
  <2>2. g[i] \in S /\ g[i] \in in /\ g[i + 1] = next(g[i]) BY <2>1, <1>1, <1>2, <1>3
  <2>3. Newest(stamp, next(g[i]), Older(stamp, g[i])) BY <2>2 DEF Ordered
  <2> QED BY <2>2, <2>3
<1>5. \A i \in 1 .. N : i + 1 <= N /\ g[i + 1] # NULL => g[i] # NULL /\ stamp[g[i]] > stamp[g[i + 1]]
  <2>1. SUFFICES ASSUME NEW i \in 1 .. N, i + 1 <= N, g[i + 1] # NULL
                 PROVE  g[i] # NULL /\ stamp[g[i]] > stamp[g[i + 1]]
    OBVIOUS
  <2>2. g[i] # NULL /\ Newest(stamp, g[i + 1], Below(stamp, S, g[i])) BY <2>1, <1>4
  <2>3. g[i] \in S /\ i + 1 \in 1 .. N BY <2>1, <2>2, <1>3
  <2>4. g[i + 1] \in S BY <2>1, <2>3, <1>3
  <2> QED BY <2>1, <2>2, <2>3, <2>4, <1>2 DEF Newest, Below
<1>6. \A i, j \in 1 .. N : i < j /\ g[j] # NULL => g[i] # NULL /\ stamp[g[i]] > stamp[g[j]]
  <2> DEFINE T == {j \in Nat : j + 1 <= N /\ g[j + 1] # NULL =>
                     \A i \in 1 .. j : g[i] # NULL /\ stamp[g[i]] > stamp[g[j + 1]]}
  <2>1. 0 \in T OBVIOUS
  <2>2. ASSUME NEW j \in Nat, j \in T PROVE j + 1 \in T
    <3>1. SUFFICES ASSUME j + 2 <= N, g[j + 2] # NULL, NEW i \in 1 .. j + 1
                   PROVE  g[i] # NULL /\ stamp[g[i]] > stamp[g[j + 2]]
      OBVIOUS
    <3>2. g[j + 1] # NULL /\ stamp[g[j + 1]] > stamp[g[j + 2]] BY <3>1, <1>5
    <3>3. CASE i = j + 1 BY <3>2, <3>3
    <3>4. CASE i # j + 1
      <4>1. g[i] # NULL /\ stamp[g[i]] > stamp[g[j + 1]] BY <3>1, <3>2, <3>4, <2>2
      <4>2. g[i] \in S /\ g[j + 1] \in S /\ g[j + 2] \in S BY <4>1, <3>1, <3>2, <1>3
      <4> QED BY <4>1, <4>2, <3>2, <1>2
    <3> QED BY <3>3, <3>4
  <2> HIDE DEF T
  <2>3. Nat \subseteq T BY <2>1, <2>2, EveryNat
  <2>4. SUFFICES ASSUME NEW i \in 1 .. N, NEW j \in 1 .. N, i < j, g[j] # NULL
                 PROVE  g[i] # NULL /\ stamp[g[i]] > stamp[g[j]]
    OBVIOUS
  <2>5. j - 1 \in T /\ (j - 1) + 1 = j /\ i \in 1 .. j - 1 BY <2>3, <2>4
  <2> QED BY <2>4, <2>5 DEF T
<1> QED BY <1>1, <1>3, <1>4, <1>6 DEF Falling

\* What hash_find_sym() goes along from a slot is all the symbols that belong
\* after it, the newest first; no chain is longer than there are symbols.
LEMMA ChainDescends ==
  ASSUME Types, NEW stamp \in [Syms -> Nat], NEW now \in Nat, Ordered(stamp, now),
         NEW p \in Slots, NEW S, Sources(stamp, p, S)
  PROVE  Descends(stamp, Chain(p), S)
<1> USE DEF Sources
<1>1. PICK N \in Nat : N = Cardinality(Syms) /\ IsFiniteSet(Syms)
  BY TableAssumption, FS_CardinalityType
<1>2. PICK g : /\ IsLinks(g, p, N)
               /\ LET n == Cardinality({i \in DOMAIN g : g[i] # NULL})
                  IN Chain(p) = [i \in 1 .. n |-> g[i]]
  <2>1. Cardinality(Syms) = N /\ Cardinality(Syms) \in Nat
    BY <1>1
  <2>2. PICK g : /\ IsLinks(g, p, Cardinality(Syms))
                 /\ LET n == Cardinality({i \in DOMAIN g : g[i] # NULL})
                    IN Chain(p) = [i \in 1 .. n |-> g[i]]
    BY <2>1, ChainLinks, Zenon
  <2> QED BY <2>1, <2>2, Zenon
<1>3. /\ \A i \in 1 .. N : g[i] \in S \cup {NULL}
      /\ N >= 1 => g[1] = held[p]
      /\ \A i \in 1 .. N : i + 1 <= N =>
           IF g[i] = NULL THEN g[i + 1] = NULL
           ELSE Newest(stamp, g[i + 1], Below(stamp, S, g[i]))
      /\ \A i, j \in 1 .. N : i < j /\ g[j] # NULL =>
           g[i] # NULL /\ stamp[g[i]] > stamp[g[j]]
  <2>1. IsLinks(g, p, N) BY <1>1, <1>2
  <2>2. Falling(stamp, g, p, S, N) BY <2>1, LinksDescend
  <2> QED BY <2>2 DEF Falling
<1>4. \A s \in S : s \in Syms /\ stamp[s] \in Nat /\ s # NULL
  BY TableAssumption DEF Types
<1>5. PICK k \in 0 .. N : {i \in DOMAIN g : g[i] # NULL} = 1 .. k
  <2> DEFINE B == {i \in 1 .. N + 1 : i <= N => g[i] = NULL}
  <2>1. N + 1 \in B /\ B \subseteq Nat BY <1>1
  <2>2. PICK m \in B : \A i \in B : m <= i BY <2>1, LeastNat
  <2>3. m \in 1 .. N + 1 /\ (m <= N => g[m] = NULL) /\ m - 1 \in 0 .. N BY <2>2, <1>1
  <2>4. \A i \in 1 .. m - 1 : i \in 1 .. N /\ g[i] # NULL BY <2>2, <2>3, <1>1
  <2>5. \A i \in 1 .. N : g[i] # NULL => i \in 1 .. m - 1
    BY <2>3, <1>1, <1>3
  <2>6. DOMAIN g = 1 .. N BY <1>2 DEF IsLinks
  <2> HIDE DEF B
  <2>7. {i \in DOMAIN g : g[i] # NULL} = 1 .. (m - 1) BY <2>3, <2>4, <2>5, <2>6
  <2> QED BY <2>3, <2>7
<1>6. k \in Nat /\ k <= N /\ (\A i \in 1 .. k : i \in 1 .. N /\ g[i] # NULL) /\ \A i \in 1 .. N : i > k => g[i] = NULL
  <2>1. DOMAIN g = 1 .. N BY <1>2 DEF IsLinks
  <2> QED BY <2>1, <1>1, <1>5
<1>7. Chain(p) = [i \in 1 .. k |-> g[i]]
  <2>1. Cardinality(1 .. k) = k BY <1>6, FS_Interval
  <2> QED BY <2>1, <1>2, <1>5
<1>8. \A i \in 1 .. k : g[i] \in S /\ g[i] \in Syms
  BY <1>3, <1>4, <1>6
<1>9. \A i, j \in 1 .. k : i < j => stamp[g[i]] > stamp[g[j]]
  BY <1>3, <1>6
<1>10. ASSUME NEW s \in S PROVE \E i \in 1 .. k : g[i] = s
  <2>1. SUFFICES ASSUME \A i \in 1 .. k : g[i] # s PROVE FALSE OBVIOUS
  <2>2. CASE k = N
    <3> DEFINE f == [i \in 1 .. N |-> g[i]]
    <3>1. f \in Injection(1 .. N, Syms)
      <4>1. f \in [1 .. N -> Syms] BY <2>2, <1>8
      <4>2. \A i, j \in 1 .. N : f[i] = f[j] => i = j
        <5>1. SUFFICES ASSUME NEW i \in 1 .. N, NEW j \in 1 .. N, i < j, g[i] = g[j] PROVE FALSE
          BY <1>1
        <5>2. stamp[g[i]] > stamp[g[j]] /\ stamp[g[i]] \in Nat BY <5>1, <2>2, <1>4, <1>8, <1>9
        <5> QED BY <5>1, <5>2
      <4> QED BY <4>1, <4>2 DEF Injection, IsInjective
    <3>2. f \in Surjection(1 .. N, Syms)
      <4>1. Cardinality(1 .. N) = N BY <1>1, FS_Interval
      <4> HIDE DEF f
      <4> QED BY <4>1, <3>1, <1>1, FS_Injection
    <3> QED BY <3>2, <2>1, <2>2, <1>4 DEF Surjection
  <2>3. CASE k # N
    <3>0. k + 1 \in 1 .. N /\ g[k + 1] = NULL BY <2>3, <1>1, <1>6
    <3> DEFINE T == {j \in Nat : j + 1 <= k => stamp[s] < stamp[g[j + 1]]}
    <3>1. CASE k = 0
      <4>1. held[p] = NULL BY <3>0, <3>1, <1>3
      <4> QED BY <4>1, <1>4 DEF Newest
    <3>2. CASE k > 0
      <4>1. 0 \in T
        <5>1. g[1] = held[p] /\ g[1] # s /\ g[1] \in S /\ g[1] # NULL BY <3>2, <2>1, <1>1, <1>3, <1>6, <1>8
        <5>2. stamp[s] <= stamp[g[1]] BY <5>1 DEF Newest
        <5>3. stamp[s] # stamp[g[1]] BY <5>1 DEF Ordered
        <5> QED BY <5>1, <5>2, <5>3, <1>4
      <4>2. ASSUME NEW j \in Nat, j \in T PROVE j + 1 \in T
        <5>1. SUFFICES ASSUME j + 2 <= k PROVE stamp[s] < stamp[g[j + 2]] OBVIOUS
        <5>2. j + 1 \in 1 .. k /\ j + 2 \in 1 .. k /\ j + 2 <= N BY <5>1, <1>6, <1>1
        <5>3. stamp[s] < stamp[g[j + 1]] BY <5>1, <4>2
        <5>4. g[j + 1] \in S /\ g[j + 1] # NULL /\ g[j + 2] \in S BY <5>2, <1>4, <1>8
        <5>5. Newest(stamp, g[j + 2], Below(stamp, S, g[j + 1]))
          <6>1. (j + 1) + 1 = j + 2 /\ j + 1 \in 1 .. N BY <5>2, <1>6
          <6> QED BY <6>1, <5>2, <5>4, <1>3
        <5>6. stamp[s] <= stamp[g[j + 2]] BY <5>3, <5>5 DEF Newest, Below
        <5>7. stamp[s] # stamp[g[j + 2]] BY <5>2, <5>4, <2>1 DEF Ordered
        <5> QED BY <5>4, <5>6, <5>7, <1>4
      <4> HIDE DEF T
      <4>3. Nat \subseteq T BY <4>1, <4>2, EveryNat
      <4>4. k - 1 \in T /\ (k - 1) + 1 = k /\ k \in 1 .. k BY <4>3, <3>2, <1>6
      <4>5. stamp[s] < stamp[g[k]] BY <4>4 DEF T
      <4>6. Newest(stamp, g[k + 1], Below(stamp, S, g[k]))
        <5>1. k \in 1 .. N /\ k + 1 <= N /\ g[k] # NULL BY <4>4, <3>0, <1>6
        <5> QED BY <5>1, <1>3
      <4> QED BY <4>5, <4>6, <3>0, <1>4 DEF Newest, Below
    <3> QED BY <3>1, <3>2, <1>6
  <2> QED BY <2>2, <2>3
<1>11. Chain(p) \in Seq(Syms) /\ Len(Chain(p)) = k /\ \A i \in 1 .. k : Chain(p)[i] = g[i]
  BY <1>6, <1>7, <1>8
<1> QED BY <1>8, <1>9, <1>10, <1>11 DEF Descends

\* A bucket's chain is all the symbols of the bucket, the newest first.
LEMMA BucketDescends ==
  ASSUME Types, NEW stamp \in [Syms -> Nat], NEW now \in Nat, Ordered(stamp, now),
         NEW i \in Buckets
  PROVE  Descends(stamp, Chain(<<"table", i>>), Mates(i))
<1>1. <<"table", i>> \in Slots
  BY DEF Slots
<1>2. Sources(stamp, <<"table", i>>, Mates(i))
  BY DEF Sources, Ordered, Mates, Older, Below
<1> QED BY <1>1, <1>2, ChainDescends

\* All the symbols of the table are linked in its buckets, and no others.
LEMMA AllLinked ==
  ASSUME IInv
  PROVE  Linked = in
<1>1. PICK stamp \in [Syms -> Nat], now \in Nat : Ordered(stamp, now)
  BY DEF IInv
<1>2. ASSUME NEW i \in Buckets PROVE Range(Chain(<<"table", i>>)) = Mates(i)
  <2>1. Descends(stamp, Chain(<<"table", i>>), Mates(i))
    BY <1>1, BucketDescends DEF IInv
  <2>2. DOMAIN Chain(<<"table", i>>) = 1 .. Len(Chain(<<"table", i>>))
    BY <2>1 DEF Descends
  <2> QED BY <2>1, <2>2 DEF Descends, Range
<1>3. in \subseteq Linked
  <2>1. SUFFICES ASSUME NEW s \in in PROVE s \in Linked OBVIOUS
  <2>2. Home(s) \in Buckets /\ s \in Mates(Home(s)) BY HomeSlot DEF Mates, IInv, Types
  <2> QED BY <2>2, <1>2 DEF Linked
<1>4. Linked \subseteq in
  <2>1. SUFFICES ASSUME NEW i \in Buckets, NEW s \in Range(Chain(<<"table", i>>)) PROVE s \in in
    BY Zenon DEF Linked
  <2>2. s \in Mates(i) BY <1>2, <2>1
  <2> QED BY <2>2 DEF Mates
<1> QED BY <1>3, <1>4

\* The bucket of a name is that of the symbols that have it.
LEMMA NameSlot ==
  ASSUME NEW n \in Names
  PROVE  /\ SlotOf(n) = <<"table", hash[n] % max_size>> /\ hash[n] % max_size \in Buckets
         /\ \A s \in Syms : name[s] = n => Home(s) = hash[n] % max_size
<1>1. PICK s \in Syms : n = name[s]
  BY DEF Names
<1> QED BY <1>1, HomeSlot DEF SlotOf, Home

\* hash_find_sym() returns the newest symbol of the name, if there is one.
LEMMA FindsNewest ==
  ASSUME Types, NEW stamp \in [Syms -> Nat], NEW now \in Nat, Ordered(stamp, now),
         NEW n \in Names, hash_find_sym(n)
  PROVE  Newest(stamp, found', {s \in in : name[s] = n})
<1> DEFINE i == hash[n] % max_size   c == Chain(SlotOf(n))   S == {s \in in : name[s] = n}
           same == {k \in DOMAIN c : name[c[k]] = n}
<1>1. Descends(stamp, c, Mates(i)) /\ \A s \in S : s \in Mates(i)
  BY NameSlot, BucketDescends DEF Mates, Types
<1>2. DOMAIN c = 1 .. Len(c) /\ Len(c) \in Nat /\ \A k \in DOMAIN c : c[k] \in Mates(i)
  <2> HIDE DEF c, i
  <2>1. c \in Seq(Syms) /\ \A k \in 1 .. Len(c) : c[k] \in Mates(i) BY <1>1 DEF Descends
  <2> QED BY <2>1
<1>3. \A k \in same : c[k] \in S
  BY <1>2 DEF Mates
<1>4. \A s \in S : \E k \in same : c[k] = s
  BY <1>1, <1>2 DEF Descends
<1>5. found' = IF same = {} THEN NULL ELSE c[Min(same)]
  BY DEF hash_find_sym
<1>6. CASE same = {}
  BY <1>4, <1>5, <1>6 DEF Newest
<1>7. CASE same # {}
  <2>1. same \subseteq Nat BY <1>2
  <2>2. Min(same) \in same /\ \A k \in same : Min(same) <= k BY <2>1, <1>7, LeastNat DEF Min
  <2>3. \A k \in same : k \in 1 .. Len(c) BY <1>2
  <2> HIDE DEF same
  <2> DEFINE m == Min(same)
  <2>4. m \in same /\ (\A k \in same : m <= k) /\ found' = c[m] BY <2>2, <1>5, <1>7
  <2> HIDE DEF m
  <2>5. \A k \in same : stamp[c[k]] <= stamp[c[m]]
    <3>1. SUFFICES ASSUME NEW k \in same, k # m PROVE stamp[c[k]] <= stamp[c[m]]
      <4>1. stamp[c[m]] \in Nat BY <2>4, <1>3 DEF Types
      <4> QED BY <4>1
    <3>2. m < k /\ m \in 1 .. Len(c) /\ k \in 1 .. Len(c) BY <3>1, <2>3, <2>4
    <3>3. stamp[c[m]] > stamp[c[k]] BY <3>2, <1>1 DEF Descends
    <3>4. stamp[c[m]] \in Nat /\ stamp[c[k]] \in Nat BY <3>1, <2>4, <1>3 DEF Types
    <3> QED BY <3>3, <3>4
  <2> QED BY <2>4, <2>5, <1>3, <1>4 DEF Newest
<1> QED BY <1>6, <1>7

-----------------------------------------------------------------------------
(* The invariant, and what follows from it. *)

\* Every operation, in any order, keeps the table ordered.
LEMMA NextIInv ==
  ASSUME IInv, [Next]_vars
  PROVE  IInv'
<1>1. ASSUME NEW s \in Syms, hash_add_sym(s) PROVE IInv'
  BY <1>1, AddIInv
<1>2. ASSUME NEW s \in Syms, hash_del_sym(s) PROVE IInv'
  BY <1>2, DelIInv
<1>3. ASSUME NEW n \in Names, Find(n) PROVE IInv'
  <2>1. PICK stamp \in [Syms -> Nat], now \in Nat : Ordered(stamp, now)
    BY DEF IInv
  <2>2. hash_find_sym(n) /\ UNCHANGED <<table, going>> BY <1>3 DEF Find
  <2>3. Newest(stamp, found', {s \in in : name[s] = n}) BY <2>1, <2>2, FindsNewest DEF IInv
  <2>4. found' \in Syms \cup {NULL} BY <2>3 DEF Newest, IInv, Types
  <2> QED BY <2>2, <2>4, SearchIInv
<1>4. CASE hash_print_tab BY <1>4, PrintIInv
<1>5. CASE NextSym BY <1>5, NextSymIInv
<1>6. CASE UNCHANGED vars
  BY <1>6, SearchIInv DEF vars, IInv, Types
<1> QED BY <1>1, <1>2, <1>3, <1>4, <1>5, <1>6 DEF Next

LEMMA SpecIInv == Spec => []IInv
BY InitIInv, NextIInv, PTL DEF Spec

\* The pointers lead to symbols and slots, and curr_num is the number of symbols
\* that are linked in the buckets.
THEOREM TypeCorrect == Spec => []TypeOK
<1>1. IInv => TypeOK
  BY AllLinked DEF IInv, Types, TypeOK
<1> QED BY <1>1, SpecIInv, PTL

\* hash_del_sym() follows no wrong pointer: the pointers and the back pointers of
\* the table always agree.
THEOREM PointersAlwaysAgree == Spec => []PointersAgree
<1>1. IInv => PointersAgree
  BY DEF IInv
<1> QED BY <1>1, SpecIInv, PTL

\* A walk of hash_print_tab() during which other symbols are deleted calls back
\* for no deleted symbol, for none twice, and misses none that is left.
THEOREM WalksAreExact == Spec => WalkIsExact
<1> DEFINE A == /\ Walking' => walk' \in in' \ visited'
                /\ Walking /\ ~Walking' => in' \subseteq visited \cup {walk}
<1>1. IInv /\ IInv' /\ [Next]_vars => [A]_vars
  <2>1. SUFFICES ASSUME IInv, IInv', Next PROVE A
    BY Zenon
  <2>2. Walking' => walk' \in in' \ visited'
    <3>1. PICK stamp \in [Syms -> Nat] : Passed(stamp)' BY <2>1 DEF IInv
    <3>2. ASSUME Walking' PROVE walk' \in in' /\ walk' \notin visited'
      <4>1. walk' \in in' /\ Home(walk)' = bucket' /\ bucket' \in Nat BY <2>1, <3>1, <3>2, TableAssumption DEF Passed, IInv, Types
      <4>2. stamp[walk'] \in Nat BY <2>1, <4>1 DEF IInv, Types
      <4> QED BY <4>1, <4>2, <3>1, <3>2 DEF Passed, Home
    <3> QED BY <3>2
  <2>3. ASSUME Walking, ~Walking' PROVE in' \subseteq visited \cup {walk}
    <3>1. CASE NextSym
      <4>1. bucket' = max_size
        BY <2>1, <2>3, TableAssumption DEF Walking, IInv, Types
      <4>2. in' = in BY <3>1 DEF NextSym, table
      <4> QED BY <2>1, <3>1, <4>1, <4>2, NextSymIInv
    <3>2. ~(\E s \in Syms : hash_add_sym(s) \/ hash_del_sym(s)) /\ ~(\E n \in Names : Find(n)) /\ ~hash_print_tab
      BY <2>3 DEF hash_add_sym, hash_del_sym, Find, hash_print_tab, going, Walking
    <3> QED BY <2>1, <3>1, <3>2 DEF Next
  <2> QED BY <2>2, <2>3
<1> QED BY <1>1, SpecIInv, PTL DEF Spec, WalkIsExact

-----------------------------------------------------------------------------
(* The buckets implement stacks of symbols by name. *)

\* There is one sequence that has the symbols of a set, the newest first.
LEMMA OneDescends ==
  ASSUME NEW stamp \in [Syms -> Nat], NEW S, S \subseteq Syms, NEW q, NEW r,
         Descends(stamp, q, S), Descends(stamp, r, S)
  PROVE  q = r
<1>1. q \in Seq(Syms) /\ r \in Seq(Syms) /\ Len(q) \in Nat /\ Len(r) \in Nat
  BY DEF Descends
<1>2. /\ \A i \in 1 .. Len(q) : q[i] \in S /\ stamp[q[i]] \in Nat
      /\ \A i \in 1 .. Len(r) : r[i] \in S /\ stamp[r[i]] \in Nat
  BY DEF Descends
<1>3. \A i \in Nat : i \in 1 .. Len(q) /\ i \in 1 .. Len(r) => q[i] = r[i]
  <2> DEFINE T == {i \in Nat : i \in 1 .. Len(q) /\ i \in 1 .. Len(r) /\ q[i] # r[i]}
  <2>1. SUFFICES ASSUME T # {} PROVE FALSE OBVIOUS
  <2>2. PICK m \in T : \A k \in T : m <= k BY <2>1, LeastNat
  <2>3. m \in 1 .. Len(q) /\ m \in 1 .. Len(r) /\ q[m] # r[m] BY <2>2
  <2>4. ASSUME NEW k \in 1 .. m - 1 PROVE q[k] = r[k]
    <3>1. k \in Nat /\ k < m /\ k \in 1 .. Len(q) /\ k \in 1 .. Len(r) BY <2>3, <1>1
    <3>2. k \notin T BY <2>2, <3>1
    <3> QED BY <3>1, <3>2
  <2>5. PICK j \in 1 .. Len(r) : r[j] = q[m] BY <2>3, <1>2 DEF Descends
  <2>6. PICK k \in 1 .. Len(q) : q[k] = r[m] BY <2>3, <1>2 DEF Descends
  <2>7. j > m
    <3>1. SUFFICES ASSUME j < m PROVE FALSE BY <2>3, <2>5
    <3>2. q[j] = q[m] /\ j \in 1 .. Len(q) BY <3>1, <2>3, <2>4, <2>5, <1>1
    <3>3. stamp[q[j]] > stamp[q[m]] BY <3>1, <3>2, <2>3 DEF Descends
    <3> QED BY <3>2, <3>3, <1>2
  <2>8. k > m
    <3>1. SUFFICES ASSUME k < m PROVE FALSE BY <2>3, <2>6
    <3>2. r[k] = r[m] /\ k \in 1 .. Len(r) BY <3>1, <2>3, <2>4, <2>6, <1>1
    <3>3. stamp[r[k]] > stamp[r[m]] BY <3>1, <3>2, <2>3 DEF Descends
    <3> QED BY <3>2, <3>3, <1>2
  <2>9. stamp[r[m]] > stamp[q[m]] BY <2>3, <2>5, <2>7 DEF Descends
  <2>10. stamp[q[m]] > stamp[r[m]] BY <2>3, <2>6, <2>8 DEF Descends
  <2> QED BY <2>9, <2>10, <2>3, <1>2
<1>4. Len(q) <= Len(r)
  <2>1. SUFFICES ASSUME Len(r) < Len(q) PROVE FALSE BY <1>1
  <2>2. Len(r) + 1 \in 1 .. Len(q) BY <2>1, <1>1
  <2>3. PICK j \in 1 .. Len(r) : r[j] = q[Len(r) + 1] BY <2>2, <1>2 DEF Descends
  <2>4. j \in 1 .. Len(q) /\ q[j] = q[Len(r) + 1] BY <2>1, <2>3, <1>1, <1>3
  <2>5. stamp[q[j]] > stamp[q[Len(r) + 1]] BY <2>2, <2>3, <2>4, <1>1 DEF Descends
  <2> QED BY <2>2, <2>4, <2>5, <1>2
<1>5. Len(r) <= Len(q)
  <2>1. SUFFICES ASSUME Len(q) < Len(r) PROVE FALSE BY <1>1
  <2>2. Len(q) + 1 \in 1 .. Len(r) BY <2>1, <1>1
  <2>3. PICK j \in 1 .. Len(q) : q[j] = r[Len(q) + 1] BY <2>2, <1>2 DEF Descends
  <2>4. j \in 1 .. Len(r) /\ r[j] = r[Len(q) + 1] BY <2>1, <2>3, <1>1, <1>3
  <2>5. stamp[r[j]] > stamp[r[Len(q) + 1]] BY <2>2, <2>3, <2>4, <1>1 DEF Descends
  <2> QED BY <2>2, <2>4, <2>5, <1>2
<1>6. Len(q) = Len(r) /\ DOMAIN q = 1 .. Len(q) /\ DOMAIN r = 1 .. Len(r)
  BY <1>1, <1>4, <1>5
<1> QED BY <1>1, <1>3, <1>6

\* What is picked from the first m symbols of a chain.
IsPicked(f, c, n, m) ==
  f = [i \in 0 .. m |->
         IF i = 0 THEN <<>>
         ELSE IF name[c[i]] = n THEN Append(f[i - 1], c[i]) ELSE f[i - 1]]

LEMMA PickedExist == \A c, n : \A m \in Nat : \E f : IsPicked(f, c, n, m)
<1> TAKE c, n
<1> DEFINE S == {m \in Nat : \E f : IsPicked(f, c, n, m)}
<1>1. 0 \in S
  <2>1. IsPicked([i \in 0 .. 0 |-> <<>>], c, n, 0) BY DEF IsPicked
  <2> QED BY <2>1
<1>2. ASSUME NEW m \in Nat, m \in S PROVE m + 1 \in S
  <2>1. PICK f : IsPicked(f, c, n, m) BY <1>2
  <2> DEFINE k == [i \in 0 .. m + 1 |->
                     IF i = m + 1
                     THEN IF name[c[i]] = n THEN Append(f[m], c[i]) ELSE f[m]
                     ELSE f[i]]
  <2>2. ASSUME NEW i \in 0 .. m + 1
        PROVE  k[i] = IF i = 0 THEN <<>>
                      ELSE IF name[c[i]] = n THEN Append(k[i - 1], c[i]) ELSE k[i - 1]
    <3>1. CASE i = m + 1
      <4>1. i # 0 /\ i - 1 = m /\ m \in 0 .. m + 1 /\ m # m + 1 BY <3>1
      <4>2. k[i - 1] = f[m] BY <4>1
      <4>3. k[i] = IF name[c[i]] = n THEN Append(f[m], c[i]) ELSE f[m] BY <3>1
      <4> QED BY <4>1, <4>2, <4>3
    <3>2. CASE i \in 0 .. m
      <4>1. k[i] = f[i] BY <3>2
      <4>2. i # 0 => i - 1 \in 0 .. m BY <3>2
      <4>3. i # 0 => k[i - 1] = f[i - 1] BY <4>2
      <4> HIDE DEF k
      <4> QED BY <4>1, <4>3, <3>2, <2>1 DEF IsPicked
    <3> QED BY <3>1, <3>2
  <2>3. k = [i \in 0 .. m + 1 |-> k[i]] OBVIOUS
  <2> HIDE DEF k
  <2>4. IsPicked(k, c, n, m + 1) BY <2>2, <2>3 DEF IsPicked
  <2> QED BY <2>4
<1> HIDE DEF S
<1>3. Nat \subseteq S BY <1>1, <1>2, EveryNat
<1> QED BY <1>3 DEF S

LEMMA NamedPicks ==
  ASSUME NEW c, NEW n, Len(c) \in Nat
  PROVE  \E f : IsPicked(f, c, n, Len(c)) /\ Named(c, n) = f[Len(c)]
<1> DEFINE d == CHOOSE f : f = [i \in 0 .. Len(c) |->
                  IF i = 0 THEN <<>>
                  ELSE IF name[c[i]] = n THEN Append(f[i - 1], c[i]) ELSE f[i - 1]]
<1>1. \E f : f = [i \in 0 .. Len(c) |->
                  IF i = 0 THEN <<>>
                  ELSE IF name[c[i]] = n THEN Append(f[i - 1], c[i]) ELSE f[i - 1]]
  <2>1. PICK f : IsPicked(f, c, n, Len(c)) BY PickedExist
  <2> QED BY <2>1, Zenon DEF IsPicked
<1>2. d = [i \in 0 .. Len(c) |->
             IF i = 0 THEN <<>>
             ELSE IF name[c[i]] = n THEN Append(d[i - 1], c[i]) ELSE d[i - 1]]
  BY <1>1, Zenon
<1>3. Named(c, n) = d[Len(c)]
  BY Zenon DEF Named
<1> QED BY <1>2, <1>3, Zenon DEF IsPicked

\* The symbols of a name, picked from a chain in descending order, are in
\* descending order.
LEMMA NamedDescends ==
  ASSUME NEW stamp \in [Syms -> Nat], NEW S, S \subseteq Syms, NEW c,
         Descends(stamp, c, S), NEW n
  PROVE  Descends(stamp, Named(c, n), {s \in S : name[s] = n})
<1>1. c \in Seq(Syms) /\ Len(c) \in Nat
  BY DEF Descends
<1>2. PICK f : IsPicked(f, c, n, Len(c)) /\ Named(c, n) = f[Len(c)]
  BY <1>1, NamedPicks
<1> DEFINE Of(m) == {s \in S : name[s] = n /\ \E i \in 1 .. m : c[i] = s}
           T == {m \in Nat : m <= Len(c) => Descends(stamp, f[m], Of(m))}
<1>3. 0 \in T
  <2>1. f[0] = <<>> BY <1>1, <1>2 DEF IsPicked
  <2>2. Of(0) = {} OBVIOUS
  <2>3. <<>> \in Seq(Syms) /\ Len(<<>>) = 0 OBVIOUS
  <2>4. Descends(stamp, <<>>, {}) BY <2>3 DEF Descends
  <2> QED BY <2>1, <2>2, <2>4
<1>4. ASSUME NEW m \in Nat, m \in T PROVE m + 1 \in T
  <2>1. SUFFICES ASSUME m + 1 <= Len(c) PROVE Descends(stamp, f[m + 1], Of(m + 1)) OBVIOUS
  <2>2. m + 1 \in 1 .. Len(c) /\ m + 1 # 0 /\ (m + 1) - 1 = m /\ m + 1 \in 0 .. Len(c) BY <2>1, <1>1
  <2>3. f[m + 1] = IF name[c[m + 1]] = n THEN Append(f[m], c[m + 1]) ELSE f[m]
    BY <2>2, <1>2 DEF IsPicked
  <2>4. Descends(stamp, f[m], Of(m)) BY <2>1, <1>1, <1>4
  <2>5. c[m + 1] \in S /\ c[m + 1] \in Syms BY <2>2 DEF Descends
  <2>6. CASE name[c[m + 1]] # n
    <3>1. Of(m + 1) = Of(m) BY <2>6
    <3> QED BY <3>1, <2>3, <2>4, <2>6
  <2>7. CASE name[c[m + 1]] = n
    <3> DEFINE q == f[m]  x == c[m + 1]
    <3>1. Of(m + 1) = Of(m) \cup {x} BY <2>5, <2>7
    <3>2. \A s \in Of(m) : stamp[s] > stamp[x]
      <4>1. TAKE s \in Of(m)
      <4>2. PICK i \in 1 .. m : c[i] = s OBVIOUS
      <4>3. i \in 1 .. Len(c) /\ i < m + 1 BY <2>1, <4>2, <1>1
      <4> QED BY <4>2, <4>3, <2>2 DEF Descends
    <3>3. f[m + 1] = Append(q, x) BY <2>3, <2>7
    <3>4. Descends(stamp, q, Of(m)) /\ x \in Syms BY <2>4, <2>5
    <3> HIDE DEF q, x, Of
    <3>5. q \in Seq(Syms) /\ Len(q) \in Nat /\ \A i \in 1 .. Len(q) : q[i] \in Of(m) BY <3>4 DEF Descends
    <3>6. /\ Append(q, x) \in Seq(Syms) /\ Len(Append(q, x)) = Len(q) + 1
          /\ Append(q, x)[Len(q) + 1] = x
          /\ \A i \in 1 .. Len(q) : Append(q, x)[i] = q[i]
      BY <3>4, <3>5
    <3> DEFINE r == Append(q, x)
    <3> HIDE DEF r
    <3>7. r \in Seq(Syms) /\ Len(r) = Len(q) + 1 /\ r[Len(q) + 1] = x /\ \A i \in 1 .. Len(q) : r[i] = q[i]
      BY <3>6 DEF r
    <3>8. \A i \in 1 .. Len(r) : i = Len(q) + 1 \/ i \in 1 .. Len(q) BY <3>5, <3>7
    <3>9. \A i \in 1 .. Len(r) : r[i] \in Of(m) \cup {x} BY <3>5, <3>7, <3>8
    <3>10. \A s \in Of(m) \cup {x} : \E i \in 1 .. Len(r) : r[i] = s
      <4>1. TAKE s \in Of(m) \cup {x}
      <4>2. CASE s = x
        <5>1. Len(q) + 1 \in 1 .. Len(r) BY <3>5, <3>7
        <5> QED BY <5>1, <4>2, <3>7
      <4>3. CASE s \in Of(m)
        <5>1. PICK i \in 1 .. Len(q) : q[i] = s BY <4>3, <3>4 DEF Descends
        <5>2. i \in 1 .. Len(r) BY <3>5, <3>7
        <5> QED BY <5>1, <5>2, <3>7
      <4> QED BY <4>2, <4>3
    <3>11. ASSUME NEW i \in 1 .. Len(r), NEW j \in 1 .. Len(r), i < j
           PROVE  stamp[r[i]] > stamp[r[j]]
      <4>1. i \in 1 .. Len(q) BY <3>5, <3>7, <3>8, <3>11
      <4>2. CASE j = Len(q) + 1 BY <4>1, <4>2, <3>2, <3>5, <3>7
      <4>3. CASE j \in 1 .. Len(q) BY <4>1, <4>3, <3>4, <3>7, <3>11 DEF Descends
      <4> QED BY <4>2, <4>3, <3>8
    <3> QED BY <3>1, <3>3, <3>7, <3>9, <3>10, <3>11 DEF Descends, r
  <2> QED BY <2>6, <2>7
<1> HIDE DEF T
<1>5. Nat \subseteq T BY <1>3, <1>4, EveryNat
<1>6. Descends(stamp, f[Len(c)], Of(Len(c)))
  <2>1. Len(c) \in T BY <1>1, <1>5
  <2> QED BY <1>1, <2>1 DEF T
<1>7. Of(Len(c)) = {s \in S : name[s] = n}
  BY DEF Descends
<1> QED BY <1>2, <1>6, <1>7

OfName(n) == {s \in in : name[s] = n}

\* The stack of a name is its symbols in the table, the newest first.
LEMMA StackDescends ==
  ASSUME Types, NEW stamp \in [Syms -> Nat], NEW now \in Nat, Ordered(stamp, now),
         NEW n \in Names
  PROVE  Descends(stamp, Stacks[n], OfName(n))
<1> DEFINE i == hash[n] % max_size
<1>1. SlotOf(n) = <<"table", i>> /\ i \in Buckets /\ \A s \in Syms : name[s] = n => Home(s) = i
  BY NameSlot
<1>2. Descends(stamp, Chain(SlotOf(n)), Mates(i))
  BY <1>1, BucketDescends
<1>3. Mates(i) \subseteq Syms
  BY DEF Mates, Types
<1>4. Descends(stamp, Named(Chain(SlotOf(n)), n), {s \in Mates(i) : name[s] = n})
  BY <1>2, <1>3, NamedDescends
<1>5. {s \in Mates(i) : name[s] = n} = OfName(n)
  BY <1>1 DEF Mates, OfName, Types
<1> QED BY <1>4, <1>5 DEF Stacks

\* The same of the state after a step.
StacksDescend ==
  \A stamp \in [Syms -> Nat], now \in Nat, n \in Names :
    Types /\ Ordered(stamp, now) => Descends(stamp, Stacks[n], OfName(n))

LEMMA StacksDescendNext == StacksDescend /\ StacksDescend'
<1>1. StacksDescend
  BY StackDescends DEF StacksDescend
<1> QED BY <1>1, PTL

\* A new symbol goes on top.
LEMMA PushDescends ==
  ASSUME NEW stamp \in [Syms -> Nat], NEW S, S \subseteq Syms, NEW q, Descends(stamp, q, S),
         NEW s \in Syms, \A t \in S : stamp[t] < stamp[s]
  PROVE  Descends(stamp, <<s>> \o q, S \cup {s})
<1>1. q \in Seq(Syms) /\ Len(q) \in Nat /\ (\A i \in 1 .. Len(q) : q[i] \in S)
  BY DEF Descends
<1> DEFINE r == <<s>> \o q
<1>2. /\ r \in Seq(Syms) /\ Len(r) = Len(q) + 1 /\ r[1] = s
      /\ \A i \in 1 .. Len(r) : i = 1 \/ (i - 1 \in 1 .. Len(q) /\ r[i] = q[i - 1])
  BY <1>1
<1> HIDE DEF r
<1>3. \A i \in 1 .. Len(r) : r[i] \in S \cup {s}
  BY <1>1, <1>2
<1>4. \A t \in S \cup {s} : \E i \in 1 .. Len(r) : r[i] = t
  <2>1. 1 \in 1 .. Len(r) BY <1>1, <1>2
  <2>2. ASSUME NEW t \in S PROVE \E i \in 1 .. Len(r) : r[i] = t
    <3>1. PICK i \in 1 .. Len(q) : q[i] = t BY DEF Descends
    <3>2. i + 1 \in 1 .. Len(r) /\ i + 1 # 1 /\ (i + 1) - 1 = i BY <1>1, <1>2
    <3> QED BY <3>1, <3>2, <1>2
  <2> QED BY <2>1, <2>2, <1>2
<1>5. ASSUME NEW i \in 1 .. Len(r), NEW j \in 1 .. Len(r), i < j
      PROVE  stamp[r[i]] > stamp[r[j]]
  <2>1. j - 1 \in 1 .. Len(q) /\ r[j] = q[j - 1] BY <1>2, <1>5
  <2>2. CASE i = 1 BY <2>1, <2>2, <1>1, <1>2
  <2>3. CASE i # 1
    <3>1. i - 1 \in 1 .. Len(q) /\ r[i] = q[i - 1] /\ i - 1 < j - 1 BY <2>3, <1>2, <1>5
    <3> QED BY <2>1, <3>1 DEF Descends
  <2> QED BY <2>2, <2>3
<1> QED BY <1>2, <1>3, <1>4, <1>5 DEF Descends, r

\* One sequence behind another.
LEMMA Behind ==
  ASSUME NEW S, NEW a \in Seq(S), NEW b \in Seq(S)
  PROVE  /\ a \o b \in Seq(S) /\ Len(a \o b) = Len(a) + Len(b)
         /\ Len(a) \in Nat /\ Len(b) \in Nat
         /\ \A k \in 1 .. Len(a) : (a \o b)[k] = a[k]
         /\ \A k \in Len(a) + 1 .. Len(a) + Len(b) : (a \o b)[k] = b[k - Len(a)]
OBVIOUS

\* A symbol is taken out from wherever it is.
LEMMA RemoveDescends ==
  ASSUME NEW stamp \in [Syms -> Nat], NEW S, S \subseteq Syms, NEW q, Descends(stamp, q, S),
         NEW i \in 1 .. Len(q)
  PROVE  Descends(stamp, Abstract!RemoveAt(q, i), S \ {q[i]})
<1>1. q \in Seq(Syms) /\ Len(q) \in Nat /\ (\A k \in 1 .. Len(q) : q[k] \in S)
  BY DEF Descends
<1> DEFINE r == SubSeq(q, 1, i - 1) \o SubSeq(q, i + 1, Len(q))
           at(k) == IF k < i THEN k ELSE k + 1
<1>2. /\ r \in Seq(Syms) /\ Len(r) = Len(q) - 1
      /\ \A k \in 1 .. Len(r) : r[k] = q[at(k)]
  <2> DEFINE a == SubSeq(q, 1, i - 1)  b == SubSeq(q, i + 1, Len(q))
  <2>1. a \in Seq(Syms) /\ Len(a) = i - 1 /\ \A k \in 1 .. i - 1 : a[k] = q[k]
    BY <1>1
  <2>2. b \in Seq(Syms) /\ Len(b) = Len(q) - i /\ \A k \in 1 .. Len(q) - i : b[k] = q[i + k]
    BY <1>1
  <2> HIDE DEF a, b
  <2>3. /\ a \o b \in Seq(Syms) /\ Len(a \o b) = Len(a) + Len(b)
        /\ \A k \in 1 .. Len(a) : (a \o b)[k] = a[k]
        /\ \A k \in Len(a) + 1 .. Len(a) + Len(b) : (a \o b)[k] = b[k - Len(a)]
    <3>1. a \in Seq(Syms) /\ b \in Seq(Syms)
      BY <2>1, <2>2
    <3> QED BY <3>1, Behind, Zenon
  <2>4. ASSUME NEW k \in 1 .. Len(q) - 1 PROVE (a \o b)[k] = q[at(k)]
    <3>1. CASE k < i
      <4>1. k \in 1 .. Len(a) /\ k \in 1 .. i - 1 BY <3>1, <2>1, <1>1
      <4> QED BY <4>1, <3>1, <2>1, <2>3
    <3>2. CASE k >= i
      <4>1. k \in Len(a) + 1 .. Len(a) + Len(b) BY <3>2, <2>1, <2>2, <1>1
      <4>2. k - Len(a) \in 1 .. Len(q) - i /\ i + (k - Len(a)) = k + 1 BY <3>2, <2>1, <1>1
      <4>3. (a \o b)[k] = b[k - Len(a)] BY <4>1, <2>3
      <4>4. b[k - Len(a)] = q[k + 1] BY <4>2, <2>2
      <4>5. q[at(k)] = q[k + 1] BY <3>2
      <4>6. (a \o b)[k] = q[k + 1] BY <4>3, <4>4
      <4> QED BY <4>5, <4>6
    <3>3. k < i \/ k >= i BY <1>1
    <3> QED BY <3>1, <3>2, <3>3
  <2>5. Len(a \o b) = Len(q) - 1 BY <2>1, <2>2, <2>3, <1>1
  <2> HIDE DEF at
  <2> QED BY <2>3, <2>4, <2>5 DEF a, b
<1> HIDE DEF r
<1>3. \A k \in 1 .. Len(r) : at(k) \in 1 .. Len(q) /\ at(k) # i /\ r[k] = q[at(k)]
  BY <1>1, <1>2
<1>4. \A k, l \in 1 .. Len(r) : k < l => at(k) < at(l)
  BY <1>1, <1>2
<1>5. \A k \in 1 .. Len(q) : k # i => \E l \in 1 .. Len(r) : at(l) = k
  <2>1. TAKE k \in 1 .. Len(q)
  <2>2. CASE k < i
    <3>1. k \in 1 .. Len(r) /\ at(k) = k BY <2>2, <1>1, <1>2
    <3> QED BY <3>1
  <2>3. CASE k > i
    <3>1. k - 1 \in 1 .. Len(r) /\ at(k - 1) = k BY <2>3, <1>1, <1>2
    <3> QED BY <3>1
  <2> QED BY <2>2, <2>3
<1> HIDE DEF at
<1>6. \A k \in 1 .. Len(q) : k # i => q[k] # q[i]
  <2>1. TAKE k \in 1 .. Len(q)
  <2>2. CASE k < i BY <2>2, <1>1 DEF Descends
  <2>3. CASE k > i BY <2>3, <1>1 DEF Descends
  <2> QED BY <2>2, <2>3
<1>7. \A k \in 1 .. Len(r) : r[k] \in S \ {q[i]}
  BY <1>1, <1>3, <1>6
<1>8. \A s \in S \ {q[i]} : \E l \in 1 .. Len(r) : r[l] = s
  <2>1. TAKE s \in S \ {q[i]}
  <2>2. PICK k \in 1 .. Len(q) : q[k] = s BY DEF Descends
  <2>3. PICK l \in 1 .. Len(r) : at(l) = k BY <2>2, <1>5
  <2> QED BY <2>2, <2>3, <1>3
<1>9. \A k, l \in 1 .. Len(r) : k < l => stamp[r[k]] > stamp[r[l]]
  BY <1>3, <1>4 DEF Descends
<1>10. Descends(stamp, r, S \ {q[i]})
  BY <1>2, <1>7, <1>8, <1>9 DEF Descends
<1> QED BY <1>10 DEF r, Abstract!RemoveAt

\* hash_add_sym() pushes its symbol.
LEMMA AddImplements ==
  ASSUME IInv, NEW s \in Syms, hash_add_sym(s)
  PROVE  Abstract!Add(s)
<1>1. PICK stamp \in [Syms -> Nat], now \in Nat :
        Ordered(stamp, now) /\ Ordered([stamp EXCEPT ![s] = now], now + 1)'
  BY AddIInv
<1> DEFINE mark == [stamp EXCEPT ![s] = now]
<1>2. Types /\ Types' /\ in \subseteq Syms /\ s \notin in /\ in' = in \cup {s} /\ found' = found
  BY AddIInv DEF IInv, Types, hash_add_sym
<1>3. mark \in [Syms -> Nat] /\ mark[s] = now /\ \A t \in Syms : t # s => mark[t] = stamp[t]
  OBVIOUS
<1>4. Ordered(mark, now + 1)' /\ now + 1 \in Nat
  BY <1>1
<1> HIDE DEF mark
<1>5. ASSUME NEW n \in Names
      PROVE  /\ Descends(stamp, Stacks[n], OfName(n))
             /\ Descends(mark, Stacks'[n], OfName(n)')
  <2>1. Descends(stamp, Stacks[n], OfName(n))
    BY <1>1, <1>2, StacksDescendNext DEF StacksDescend
  <2>2. Descends(mark, Stacks'[n], OfName(n)')
    BY <1>2, <1>3, <1>4, StacksDescendNext DEF StacksDescend, Descends
  <2> QED BY <2>1, <2>2
<1>6. ASSUME NEW n \in Names PROVE Descends(mark, Stacks[n], OfName(n))
  <2>1. Descends(stamp, Stacks[n], OfName(n)) BY <1>5
  <2>2. \A t \in OfName(n) : mark[t] = stamp[t] BY <1>2, <1>3 DEF OfName
  <2> QED BY <2>1, <2>2 DEF Descends
<1>7. name[s] \in Names
  BY DEF Names
<1>8. Stacks'[name[s]] = <<s>> \o Stacks[name[s]]
  <2>1. OfName(name[s])' = OfName(name[s]) \cup {s} BY <1>2 DEF OfName
  <2>2. \A t \in OfName(name[s]) : mark[t] < mark[s]
    BY <1>1, <1>2, <1>3 DEF OfName, Ordered
  <2>3. OfName(name[s]) \subseteq Syms BY <1>2 DEF OfName
  <2>4. Descends(mark, <<s>> \o Stacks[name[s]], OfName(name[s]) \cup {s})
    BY <2>2, <2>3, <1>3, <1>6, <1>7, PushDescends
  <2>5. Descends(mark, Stacks'[name[s]], OfName(name[s]) \cup {s})
    BY <2>1, <1>5, <1>7
  <2>6. OfName(name[s]) \cup {s} \subseteq Syms BY <2>3
  <2> QED BY <2>4, <2>5, <2>6, <1>3, OneDescends
<1>9. \A n \in Names : n # name[s] => Stacks'[n] = Stacks[n]
  <2>1. TAKE n \in Names
  <2>2. HAVE n # name[s]
  <2>3. OfName(n)' = OfName(n) /\ OfName(n) \subseteq Syms BY <1>2, <2>2 DEF OfName
  <2> QED BY <2>3, <1>3, <1>5, <1>6, OneDescends
<1>10. Stacks' = [Stacks EXCEPT ![name[s]] = <<s>> \o Stacks[name[s]]]
  <2>1. Stacks = [n \in Names |-> Stacks[n]] /\ Stacks' = [n \in Names |-> Stacks'[n]]
    BY DEF Stacks
  <2> QED BY <2>1, <1>7, <1>8, <1>9
<1> QED BY <1>2, <1>10 DEF Abstract!Add

\* hash_del_sym() takes its symbol out of the stack of its name.
LEMMA DelImplements ==
  ASSUME IInv, NEW s \in Syms, hash_del_sym(s)
  PROVE  Abstract!Delete(s)
<1>1. PICK stamp \in [Syms -> Nat], now \in Nat : Ordered(stamp, now) /\ Ordered(stamp, now)'
  BY DelIInv
<1>2. Types /\ Types' /\ in \subseteq Syms /\ s \in in /\ in' = in \ {s} /\ found' = found
  BY DelIInv DEF IInv, Types, hash_del_sym
<1>3. ASSUME NEW n \in Names
      PROVE  /\ Descends(stamp, Stacks[n], OfName(n))
             /\ Descends(stamp, Stacks'[n], OfName(n)')
  <2>1. Descends(stamp, Stacks[n], OfName(n))
    BY <1>1, <1>2, StacksDescendNext, Zenon DEF StacksDescend
  <2>2. (Types /\ Ordered(stamp, now) => Descends(stamp, Stacks[n], OfName(n)))'
    BY StacksDescendNext, Zenon DEF StacksDescend
  <2> QED BY <1>1, <1>2, <2>1, <2>2, Zenon DEF Descends
<1>4. name[s] \in Names
  BY DEF Names
<1> DEFINE q == Stacks[name[s]]
<1>5. PICK i \in 1 .. Len(q) : q[i] = s
  BY <1>2, <1>3, <1>4 DEF Descends, OfName
<1>6. i \in DOMAIN q
  <2>1. q \in Seq(Syms) BY <1>3, <1>4 DEF Descends
  <2> QED BY <2>1, <1>5
<1>7. Stacks'[name[s]] = Abstract!RemoveAt(q, i)
  <2>1. OfName(name[s])' = OfName(name[s]) \ {s} BY <1>2 DEF OfName
  <2>2. OfName(name[s]) \subseteq Syms BY <1>2 DEF OfName
  <2>3. Descends(stamp, Abstract!RemoveAt(q, i), OfName(name[s]) \ {s})
    BY <2>2, <1>3, <1>4, <1>5, RemoveDescends
  <2> HIDE DEF q
  <2>4. OfName(name[s]) \ {s} \subseteq Syms BY <2>2
  <2> QED BY <2>1, <2>3, <2>4, <1>3, <1>4, OneDescends
<1>8. \A n \in Names : n # name[s] => Stacks'[n] = Stacks[n]
  <2>1. TAKE n \in Names
  <2>2. HAVE n # name[s]
  <2>3. OfName(n)' = OfName(n) /\ OfName(n) \subseteq Syms BY <1>2, <2>2 DEF OfName
  <2> QED BY <2>3, <1>3, OneDescends
<1>9. Stacks' = [Stacks EXCEPT ![name[s]] = Abstract!RemoveAt(q, i)]
  <2>1. Stacks = [n \in Names |-> Stacks[n]] /\ Stacks' = [n \in Names |-> Stacks'[n]]
    BY DEF Stacks
  <2> HIDE DEF q
  <2> QED BY <2>1, <1>4, <1>7, <1>8
<1> QED BY <1>2, <1>5, <1>6, <1>9 DEF Abstract!Delete

\* hash_find_sym() returns the top of the stack.
LEMMA FindImplements ==
  ASSUME IInv, NEW n \in Names, Find(n)
  PROVE  Abstract!Find(n)
<1>1. PICK stamp \in [Syms -> Nat], now \in Nat : Ordered(stamp, now)
  BY DEF IInv
<1>2. hash_find_sym(n) /\ UNCHANGED table
  BY DEF Find
<1>3. Newest(stamp, found', OfName(n))
  BY <1>1, <1>2, FindsNewest DEF IInv, OfName
<1> DEFINE q == Stacks[n]
<1>4. Descends(stamp, q, OfName(n))
  BY <1>1, StackDescends DEF IInv
<1>5. Stacks' = Stacks /\ in' = in
  BY <1>2 DEF table, Stacks, Named, Chain, next
<1> HIDE DEF q
<1>6. q \in Seq(Syms) /\ Len(q) \in Nat
  BY <1>4 DEF Descends
<1>7. found' = IF q = <<>> THEN NULL ELSE Head(q)
  <2>1. CASE q = <<>>
    <3>1. OfName(n) = {} BY <2>1, <1>4 DEF Descends
    <3> QED BY <2>1, <3>1, <1>3 DEF Newest
  <2>2. CASE q # <<>>
    <3>1. 1 \in 1 .. Len(q) /\ Head(q) = q[1] BY <2>2, <1>6
    <3>2. q[1] \in OfName(n) /\ OfName(n) \subseteq Syms BY <3>1, <1>4 DEF Descends, OfName, IInv, Types
    <3>3. found' \in OfName(n) /\ stamp[q[1]] <= stamp[found'] BY <3>2, <1>3 DEF Newest
    <3>4. PICK k \in 1 .. Len(q) : q[k] = found' BY <3>3, <1>4 DEF Descends
    <3>5. k = 1
      <4>1. SUFFICES ASSUME k > 1 PROVE FALSE BY <3>4, <1>6
      <4>2. stamp[q[1]] > stamp[q[k]] BY <4>1, <3>1, <3>4, <1>4 DEF Descends
      <4>3. stamp[q[1]] \in Nat /\ stamp[found'] \in Nat BY <3>2, <3>3
      <4> QED BY <4>2, <4>3, <3>3, <3>4
    <3> QED BY <2>2, <3>1, <3>4, <3>5
  <2> QED BY <2>1, <2>2
<1> QED BY <1>5, <1>7 DEF Abstract!Find, q

\* The table is made with every stack empty.
LEMMA InitImplements == Init => Abstract!Init
<1> SUFFICES ASSUME Init PROVE Abstract!Init OBVIOUS
<1>1. in = {} /\ found = NULL /\ IInv
  BY InitIInv DEF Init
<1>2. PICK stamp \in [Syms -> Nat], now \in Nat : Ordered(stamp, now)
  BY <1>1 DEF IInv
<1>3. ASSUME NEW n \in Names PROVE Stacks[n] = <<>>
  <2>1. Descends(stamp, Stacks[n], {}) BY <1>1, <1>2, StackDescends DEF IInv, OfName
  <2>2. Stacks[n] \in Seq(Syms) /\ ~(1 \in 1 .. Len(Stacks[n])) BY <2>1 DEF Descends
  <2> QED BY <2>2
<1>4. Stacks = [n \in Names |-> <<>>]
  <2>1. Stacks = [n \in Names |-> Stacks[n]] BY DEF Stacks
  <2> QED BY <2>1, <1>3
<1> QED BY <1>1, <1>4 DEF Abstract!Init, Names

\* The buckets, links and back pointers implement stacks of symbols by name: a
\* new symbol hides the older ones of its name and no others, deleting any of them
\* uncovers the right one, and a search returns the newest, whatever the hash
\* function makes share a bucket, and whatever walk is under way.
THEOREM TableImplementsStacks == Spec => ImplementsNameStacks
<1>1. IInv /\ [Next]_vars => [Abstract!Next]_<<in, Stacks, found>>
  <2>1. SUFFICES ASSUME IInv, [Next]_vars PROVE Abstract!Next \/ UNCHANGED <<in, Stacks, found>>
    OBVIOUS
  <2>2. DOMAIN Stacks = Names BY DEF Stacks
  <2>3. ASSUME UNCHANGED <<table, found>> PROVE UNCHANGED <<in, Stacks, found>>
    BY <2>3 DEF table, Stacks, Named, Chain, next
  <2>4. ASSUME NEW s \in Syms, hash_add_sym(s) PROVE Abstract!Next
    BY <2>1, <2>4, AddImplements DEF Abstract!Next
  <2>5. ASSUME NEW s \in Syms, hash_del_sym(s) PROVE Abstract!Next
    BY <2>1, <2>5, DelImplements DEF Abstract!Next
  <2>6. ASSUME NEW n \in Names, Find(n) PROVE Abstract!Next
    BY <2>1, <2>2, <2>6, FindImplements DEF Abstract!Next
  <2>7. CASE hash_print_tab BY <2>3, <2>7 DEF hash_print_tab
  <2>8. CASE NextSym BY <2>3, <2>8 DEF NextSym
  <2>9. CASE UNCHANGED vars BY <2>3, <2>9 DEF vars
  <2> QED BY <2>1, <2>4, <2>5, <2>6, <2>7, <2>8, <2>9 DEF Next
<1> QED BY <1>1, InitImplements, SpecIInv, PTL DEF Spec, ImplementsNameStacks, Abstract!Spec
==============================================================================
