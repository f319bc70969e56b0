---------------------------- MODULE SetLib_proofs ----------------------------
(***************************************************************************)
(* Proofs about SetLib for every size of word, every step by which sets    *)
(* grow and every number of sets: the words hold the numbers they should,  *)
(* whatever their number, and the whole implements IntSets.                *)
(*                                                                         *)
(* A set is looked at word by word, with words of zeros beyond its last:   *)
(* a number is kept when its bit is in its word, and the arithmetic of     *)
(* words and bits is done once (KeptIs).                                   *)
(***************************************************************************)
EXTENDS SetLib, NaturalsInduction, WellFoundedInduction, FiniteSetTheorems, TLAPS

\* The word and the bit a number is kept in.
Place(bit) == bit \div WORD + 1
Bit(bit)   == bit % WORD

\* How far the sets can grow.
Steps == 1 .. 1 + Max(Bits) \div (WORD * DEFWORDS)
Allowed == {k * DEFWORDS : k \in Steps}
IsSet(x) == /\ DOMAIN x = {"map", "compl"} /\ x.compl \in BOOLEAN
            /\ \E n \in Allowed : x.map \in [1 .. n -> Word]

SetsInv ==
  /\ s = [n \in Sets |-> s[n]] /\ \A n \in Sets : IsSet(s[n])
  /\ lastSet \in Sets \cup {NONE} /\ current_member \in Nat

-----------------------------------------------------------------------------
(* Arithmetic of words and bits. *)

\* A number is so many whole words and a bit of the next.
LEMMA Division ==
  ASSUME NEW b \in Nat, NEW w \in Nat \ {0}
  PROVE  /\ b \div w \in Nat /\ b % w \in 0 .. w - 1
         /\ b = (b \div w) * w + (b % w)
OBVIOUS

\* There is only one way to say so.
LEMMA Quotient ==
  ASSUME NEW q \in Nat, NEW w \in Nat \ {0}, NEW r \in 0 .. w - 1
  PROVE  (q * w + r) \div w = q /\ (q * w + r) % w = r
OBVIOUS

\* Multiples are as far apart as what they are multiples of.
LEMMA Multiples ==
  ASSUME NEW p \in Nat, NEW q \in Nat, NEW w \in Nat \ {0}
  PROVE  /\ p * w \in Nat /\ q * w \in Nat
         /\ p < q => p * w + w <= q * w
         /\ p <= q => p * w <= q * w
OBVIOUS

\* A number lies within the first n words when its word is one of them.
LEMMA Within ==
  ASSUME NEW b \in Nat, NEW w \in Nat \ {0}, NEW n \in Nat
  PROVE  b < n * w <=> b \div w < n
<1>1. PICK q \in Nat, r \in 0 .. w - 1 : q = b \div w /\ b = q * w + r
  BY Division
<1>2. CASE q < n
  BY <1>1, <1>2, Multiples
<1>3. CASE n <= q
  BY <1>1, <1>3, Multiples
<1> QED BY <1>1, <1>2, <1>3

\* Dividing twice is dividing by the product.
LEMMA TwiceDivided ==
  ASSUME NEW b \in Nat, NEW w \in Nat \ {0}, NEW d \in Nat \ {0}
  PROVE  (b \div w) \div d = b \div (w * d)
<1>1. PICK q \in Nat, r \in 0 .. w - 1 : q = b \div w /\ b = q * w + r
  BY Division
<1>2. PICK p \in Nat, t \in 0 .. d - 1 : p = q \div d /\ q = p * d + t
  BY Division
<1>3. PICK v \in Nat \ {0} : v = w * d
  OBVIOUS
<1>4. b = p * v + (t * w + r)
  <2>1. p * d * w = p * v
    BY <1>3
  <2>2. (p * d + t) * w = p * d * w + t * w
    OBVIOUS
  <2>3. p * v \in Nat /\ t * w \in Nat
    BY <1>3
  <2>4. q * w = p * v + t * w
    BY <1>2, <2>1, <2>2
  <2>5. PICK i : i = p * v
    OBVIOUS
  <2>6. PICK j : j = t * w
    OBVIOUS
  <2>7. PICK k : k = q * w
    OBVIOUS
  <2>8. i \in Nat /\ j \in Nat /\ k = i + j /\ b = k + r
    BY <1>1, <2>3, <2>4, <2>5, <2>6, <2>7
  <2> QED BY <2>5, <2>6, <2>8
<1>5. t * w + r \in 0 .. v - 1
  <2>1. (t + 1) * w <= d * w
    BY Multiples
  <2> QED BY <1>3, <2>1
<1>6. (p * v + (t * w + r)) \div v = p
  BY <1>3, <1>5, Quotient
<1> QED BY <1>1, <1>2, <1>3, <1>4, <1>6

\* A number rounded up to whole steps of d words of w bits.
LEMMA RoundedUp ==
  ASSUME NEW b \in Nat, NEW w \in Nat \ {0}, NEW d \in Nat \ {0}
  PROVE  /\ ((b \div w + d) \div d) * d = (b \div (w * d) + 1) * d
         /\ b \div (w * d) \in Nat
         /\ b \div w + 1 <= (b \div (w * d) + 1) * d
<1>1. PICK q \in Nat : q = b \div w
  BY Division
<1>2. PICK p \in Nat, t \in 0 .. d - 1 : p = q \div d /\ q = p * d + t
  BY Division
<1>3. p = b \div (w * d)
  <2>1. (b \div w) \div d = b \div (w * d)
    BY TwiceDivided, Zenon
  <2>2. p = (b \div w) \div d
    BY <1>1, <1>2
  <2> QED BY <2>1, <2>2
<1>4. PICK i \in Nat : i = p * d
  OBVIOUS
<1>5. (p + 1) * d = i + d /\ p + 1 \in Nat
  BY <1>4
<1>6. q + d = (p + 1) * d + t
  BY <1>2, <1>4, <1>5
<1>7. ((p + 1) * d + t) \div d = p + 1
  BY <1>5, Quotient
<1>8. q + 1 <= (p + 1) * d
  BY <1>2, <1>4, <1>5
<1> QED BY <1>1, <1>3, <1>6, <1>7, <1>8

\* A smaller number has no more whole steps.
LEMMA Ordered ==
  ASSUME NEW a \in Nat, NEW b \in Nat, a <= b, NEW w \in Nat \ {0}, NEW d \in Nat \ {0}
  PROVE  a \div (w * d) <= b \div (w * d) /\ b \div (w * d) \in Nat
<1>1. PICK v \in Nat \ {0} : v = w * d
  OBVIOUS
<1>2. PICK p \in Nat, r \in 0 .. v - 1 : p = a \div v /\ a = p * v + r
  BY Division
<1>3. PICK k \in Nat, o \in 0 .. v - 1 : k = b \div v /\ b = k * v + o
  BY Division
<1>4. k < p => k * v + v <= p * v
  BY Multiples
<1>5. PICK i \in Nat : i = k * v
  OBVIOUS
<1>6. PICK j \in Nat : j = p * v
  OBVIOUS
<1>7. j + r <= i + o
  BY <1>2, <1>3, <1>5, <1>6
<1>8. p <= k
  BY <1>4, <1>5, <1>6, <1>7
<1> QED BY <1>1, <1>2, <1>3, <1>8

\* What is assumed of the sizes, in the form the proofs use.
LEMMA Constants ==
  /\ WORD \in Nat \ {0} /\ DEFWORDS \in Nat \ {0} /\ WORD * DEFWORDS \in Nat \ {0}
  /\ Max(Bits) \in Bits /\ Bits \subseteq Nat /\ \A c \in Bits : c <= Max(Bits)
  /\ NONE \notin Sets /\ NONE \notin Int
<1>1. WORD \in Nat \ {0} /\ DEFWORDS \in Nat \ {0}
  BY SizesAssumption
<1>2. WORD * DEFWORDS \in Nat \ {0}
  BY <1>1
<1>3. \E x \in Bits : \A y \in Bits : x >= y
  BY SizesAssumption
<1>4. Max(Bits) \in Bits /\ \A y \in Bits : Max(Bits) >= y
  BY <1>3 DEF Max
<1> QED BY <1>1, <1>2, <1>4, SizesAssumption

-----------------------------------------------------------------------------
(* What a set keeps. *)

\* A set has words 1 .. nwords(x), as many as some whole steps.
LEMMA Shape ==
  ASSUME NEW x, IsSet(x)
  PROVE  /\ nwords(x) \in Allowed /\ nwords(x) \in Nat \ {0}
         /\ DOMAIN x.map = 1 .. nwords(x) /\ x.map \in [1 .. nwords(x) -> Word]
         /\ \A i \in 1 .. nwords(x) : x.map[i] \subseteq 0 .. WORD - 1
<1>1. PICK n \in Allowed : x.map \in [1 .. n -> Word]
  BY DEF IsSet
<1>2. n \in Nat \ {0}
  <2>1. PICK k \in Steps : n = k * DEFWORDS
    BY DEF Allowed
  <2>2. k \in Nat \ {0}
    BY DEF Steps
  <2> QED BY <2>1, <2>2, Constants
<1>3. Cardinality(1 .. n) = n
  BY <1>2, FS_Interval
<1>4. DOMAIN x.map = 1 .. n /\ nwords(x) = n
  BY <1>1, <1>3 DEF nwords
<1> QED BY <1>1, <1>2, <1>4 DEF Word

\* A number lies within n words when its place is one of them.
LEMMA PlaceIs ==
  ASSUME NEW bit \in Nat
  PROVE  /\ Place(bit) \in Nat \ {0} /\ Bit(bit) \in 0 .. WORD - 1
         /\ \A n \in Nat : bit < n * WORD <=> Place(bit) <= n
<1>1. bit \div WORD \in Nat /\ bit % WORD \in 0 .. WORD - 1
  BY Constants, Division
<1>2. ASSUME NEW n \in Nat PROVE bit < n * WORD <=> bit \div WORD < n
  BY Constants, Within
<1> QED BY <1>1, <1>2 DEF Place, Bit

\* A number is the only one in its place.
LEMMA PlacesApart ==
  ASSUME NEW a \in Nat, NEW c \in Nat, Place(a) = Place(c), Bit(a) = Bit(c)
  PROVE  a = c
<1>1. /\ a = (a \div WORD) * WORD + (a % WORD) /\ a \div WORD \in Nat
      /\ c = (c \div WORD) * WORD + (c % WORD) /\ c \div WORD \in Nat
  BY Constants, Division
<1>2. a \div WORD = c \div WORD /\ a % WORD = c % WORD
  BY <1>1 DEF Place, Bit
<1> QED BY <1>1, <1>2

\* Every place is that of a number.
LEMMA PlaceTaken ==
  ASSUME NEW i \in Nat \ {0}, NEW r \in 0 .. WORD - 1
  PROVE  \E bit \in Nat : Place(bit) = i /\ Bit(bit) = r
<1>1. PICK q \in Nat : q = i - 1
  OBVIOUS
<1>2. q * WORD + r \in Nat
  BY Constants
<1>3. (q * WORD + r) \div WORD = q /\ (q * WORD + r) % WORD = r
  BY Constants, Quotient
<1> QED BY <1>1, <1>2, <1>3 DEF Place, Bit

\* SET_MEMBER() (set.h): a number is kept when its bit is in its word.
LEMMA KeptIs ==
  ASSUME NEW x, IsSet(x), NEW bit
  PROVE  bit \in Kept(x) <=> bit \in Nat /\ Bit(bit) \in WordOf(x, Place(bit))
<1>1. nwords(x) \in Nat /\ nbits(x) = nwords(x) * WORD /\ nbits(x) \in Nat
  BY Shape, Constants DEF nbits
<1>2. CASE bit \notin Nat
  BY <1>1, <1>2 DEF Kept
<1>3. CASE bit \in Nat
  <2>1. bit < nbits(x) <=> Place(bit) <= nwords(x)
    BY <1>1, <1>3, PlaceIs
  <2>2. bit \in Kept(x) <=> bit < nbits(x) /\ Bit(bit) \in x.map[Place(bit)]
    BY <1>1, <1>3 DEF Kept, SET_MEMBER, Place, Bit
  <2>3. Bit(bit) \in WordOf(x, Place(bit)) <=>
          Place(bit) <= nwords(x) /\ Bit(bit) \in x.map[Place(bit)]
    BY DEF WordOf
  <2> QED BY <1>3, <2>1, <2>2, <2>3
<1> QED BY <1>2, <1>3

\* No set keeps a number beyond its words.
LEMMA KeptNat ==
  ASSUME NEW x, IsSet(x)
  PROVE  /\ Kept(x) \subseteq Nat /\ nbits(x) \in Nat
         /\ \A bit \in Kept(x) : bit < nbits(x)
<1>1. nbits(x) \in Nat
  BY Shape, Constants DEF nbits
<1> QED BY <1>1 DEF Kept

\* The words of a set say what it keeps.
LEMMA WordIs ==
  ASSUME NEW x, IsSet(x), NEW i \in Nat \ {0}
  PROVE  WordOf(x, i) \subseteq 0 .. WORD - 1
BY Shape DEF WordOf

-----------------------------------------------------------------------------
(* The functions of set.c: the sets they leave, word by word. *)

\* A record with words of an allowed number is a set.
LEMMA SetMade ==
  ASSUME NEW x, DOMAIN x = {"map", "compl"}, x.compl \in BOOLEAN, NEW n \in Allowed,
         DOMAIN x.map = 1 .. n, x.map = [i \in 1 .. n |-> x.map[i]],
         \A i \in 1 .. n : x.map[i] \subseteq 0 .. WORD - 1
  PROVE  IsSet(x) /\ nwords(x) = n
<1>1. x.map \in [1 .. n -> Word]
  BY DEF Word
<1>2. IsSet(x)
  BY <1>1 DEF IsSet
<1>3. n \in Nat
  <2>1. PICK k \in Steps : n = k * DEFWORDS
    BY DEF Allowed
  <2> QED BY <2>1, Constants DEF Steps
<1>4. nwords(x) = n
  BY <1>3, FS_Interval DEF nwords
<1> QED BY <1>2, <1>4

\* enlarge() (set.c) gives a set room and leaves every word as it was.
LEMMA Enlarged ==
  ASSUME NEW x, IsSet(x), NEW need \in Allowed, NEW e, e = enlarge(x, need)
  PROVE  /\ IsSet(e) /\ e.compl = x.compl
         /\ need <= nwords(e) /\ nwords(x) <= nwords(e)
         /\ \A i \in Nat \ {0} : WordOf(e, i) = WordOf(x, i)
<1>1. /\ nwords(x) \in Nat \ {0} /\ DOMAIN x.map = 1 .. nwords(x)
      /\ DOMAIN x = {"map", "compl"} /\ x.compl \in BOOLEAN
      /\ \A i \in 1 .. nwords(x) : x.map[i] \subseteq 0 .. WORD - 1
  BY Shape DEF IsSet
<1>2. need \in Nat
  <2>1. PICK k \in Steps : need = k * DEFWORDS
    BY DEF Allowed
  <2> QED BY <2>1, Constants DEF Steps
<1>3. CASE need <= nwords(x)
  BY <1>1, <1>3 DEF enlarge
<1>4. CASE nwords(x) < need
  <2>1. PICK m : m = [i \in 1 .. need |-> WordOf(x, i)]
    OBVIOUS
  <2>2. e = [x EXCEPT !.map = m]
    BY <1>1, <1>2, <1>4, <2>1 DEF enlarge
  <2>3. DOMAIN e = {"map", "compl"} /\ e.compl = x.compl /\ e.map = m
    BY <1>1, <2>2
  <2>4. ASSUME NEW i \in 1 .. need PROVE m[i] \subseteq 0 .. WORD - 1
    BY <1>1, <1>2, <2>1, WordIs
  <2>5. DOMAIN m = 1 .. need /\ m = [i \in 1 .. need |-> m[i]]
    BY <2>1
  <2>6. IsSet(e) /\ nwords(e) = need
    BY <1>1, <2>3, <2>4, <2>5, SetMade
  <2>7. ASSUME NEW i \in Nat \ {0} PROVE WordOf(e, i) = WordOf(x, i)
    <3>1. CASE i <= need
      <4>1. i \in 1 .. need
        BY <1>2, <3>1
      <4>2. WordOf(e, i) = m[i]
        BY <2>3, <2>6, <3>1 DEF WordOf
      <4> QED BY <2>1, <4>1, <4>2
    <3>2. CASE need < i
      BY <1>1, <1>2, <1>4, <2>6, <3>2 DEF WordOf
    <3> QED BY <1>2, <3>1, <3>2
  <2> QED BY <1>1, <1>2, <1>4, <2>3, <2>6, <2>7
<1> QED BY <1>1, <1>2, <1>3, <1>4

\* New words for those a set has.
LEMMA Rewritten ==
  ASSUME NEW x, IsSet(x), NEW m, m = [i \in DOMAIN x.map |-> m[i]],
         \A i \in 1 .. nwords(x) : m[i] \subseteq 0 .. WORD - 1,
         NEW h, h = [x EXCEPT !.map = m]
  PROVE  /\ IsSet(h) /\ h.compl = x.compl /\ nwords(h) = nwords(x)
         /\ \A i \in Nat \ {0} : WordOf(h, i) = IF i <= nwords(x) THEN m[i] ELSE {}
<1>1. /\ nwords(x) \in Allowed /\ DOMAIN x.map = 1 .. nwords(x)
      /\ DOMAIN x = {"map", "compl"} /\ x.compl \in BOOLEAN
  BY Shape DEF IsSet
<1>2. DOMAIN h = {"map", "compl"} /\ h.compl = x.compl /\ h.map = m
  BY <1>1
<1>3. DOMAIN m = 1 .. nwords(x) /\ m = [i \in 1 .. nwords(x) |-> m[i]]
  BY <1>1
<1>4. IsSet(h) /\ nwords(h) = nwords(x)
  BY <1>1, <1>2, <1>3, SetMade
<1> QED BY <1>2, <1>4 DEF WordOf

\* SET_ADD() makes room by whole steps of words, never beyond the greatest number
\* by more than one step (set_add(), set.c).
LEMMA RoundIs ==
  ASSUME NEW bit \in Bits
  PROVE  bit \in Nat /\ ROUND(bit) \in Allowed /\ Place(bit) <= ROUND(bit)
<1>1. bit \in Nat /\ bit <= Max(Bits) /\ Max(Bits) \in Nat
  BY Constants
<1>2. PICK w \in Nat \ {0}, d \in Nat \ {0} : w = WORD /\ d = DEFWORDS
  BY Constants
<1>3. PICK most \in Nat : most = Max(Bits) /\ bit <= most
  BY <1>1
<1>4. /\ ROUND(bit) = (bit \div (w * d) + 1) * d /\ bit \div (w * d) \in Nat
      /\ bit \div w + 1 <= (bit \div (w * d) + 1) * d
  <2>1. ROUND(bit) = ((bit \div w + d) \div d) * d
    BY <1>2 DEF ROUND
  <2>2. bit \in Nat
    BY <1>1
  <2> QED BY <2>1, <2>2, RoundedUp
<1>5. bit \div (w * d) <= most \div (w * d) /\ most \div (w * d) \in Nat
  BY <1>1, <1>3, <1>2, Ordered
<1>6. bit \div (w * d) + 1 \in Steps
  BY <1>2, <1>3, <1>4, <1>5 DEF Steps
<1> QED BY <1>1, <1>2, <1>4, <1>6 DEF Allowed, Place

\* SET_ADD() adds its number and no other.
LEMMA Added ==
  ASSUME NEW x, IsSet(x), NEW bit \in Bits, NEW h, h = SET_ADD(x, bit)
  PROVE  IsSet(h) /\ h.compl = x.compl /\ Kept(h) = Kept(x) \cup {bit}
<1>1. PICK e : e = enlarge(x, ROUND(bit))
  OBVIOUS
<1>2. /\ bit \in Nat /\ IsSet(e) /\ e.compl = x.compl /\ Place(bit) <= nwords(e)
      /\ Place(bit) \in Nat \ {0} /\ Bit(bit) \in 0 .. WORD - 1 /\ nwords(e) \in Nat
      /\ \A i \in Nat \ {0} : WordOf(e, i) = WordOf(x, i)
  <2>1. bit \in Nat /\ ROUND(bit) \in Allowed /\ Place(bit) <= ROUND(bit)
    BY RoundIs
  <2>2. ROUND(bit) \in Nat
    <3>1. PICK k \in Steps : ROUND(bit) = k * DEFWORDS
      BY <2>1 DEF Allowed
    <3> QED BY <3>1, Constants DEF Steps
  <2>3. /\ IsSet(e) /\ e.compl = x.compl /\ ROUND(bit) <= nwords(e)
        /\ \A i \in Nat \ {0} : WordOf(e, i) = WordOf(x, i)
    BY <1>1, <2>1, Enlarged
  <2>4. nwords(e) \in Nat
    BY <2>3, Shape
  <2>5. Place(bit) \in Nat \ {0} /\ Bit(bit) \in 0 .. WORD - 1
    BY <2>1, PlaceIs
  <2> QED BY <2>1, <2>2, <2>3, <2>4, <2>5
<1>3. PICK m : m = [e.map EXCEPT ![Place(bit)] = @ \cup {Bit(bit)}]
  OBVIOUS
<1>4. h = [e EXCEPT !.map = m]
  BY <1>1, <1>3 DEF SET_ADD, Place, Bit
<1>5. DOMAIN e.map = 1 .. nwords(e) /\ \A i \in 1 .. nwords(e) : e.map[i] \subseteq 0 .. WORD - 1
  BY <1>2, Shape
<1>6. m = [i \in DOMAIN e.map |-> m[i]]
  BY <1>3
<1>7. \A i \in 1 .. nwords(e) :
        m[i] = IF i = Place(bit) THEN e.map[i] \cup {Bit(bit)} ELSE e.map[i]
  BY <1>3, <1>5
<1>8. \A i \in 1 .. nwords(e) : m[i] \subseteq 0 .. WORD - 1
  BY <1>2, <1>5, <1>7
<1>9. /\ IsSet(h) /\ h.compl = x.compl
      /\ \A i \in Nat \ {0} : WordOf(h, i) = IF i <= nwords(e) THEN m[i] ELSE {}
  BY <1>2, <1>4, <1>6, <1>8, Rewritten
<1>10. ASSUME NEW i \in Nat \ {0}
       PROVE  WordOf(h, i) = WordOf(x, i) \cup (IF i = Place(bit) THEN {Bit(bit)} ELSE {})
  <2>1. WordOf(x, i) = IF i <= nwords(e) THEN e.map[i] ELSE {}
    BY <1>2 DEF WordOf
  <2>2. CASE i <= nwords(e)
    <3>1. i \in 1 .. nwords(e)
      BY <1>2, <2>2
    <3> QED BY <1>7, <1>9, <2>1, <2>2, <3>1
  <2>3. CASE ~(i <= nwords(e))
    BY <1>2, <1>9, <2>1, <2>3
  <2> QED BY <2>2, <2>3
<1>11. ASSUME NEW a PROVE a \in Kept(h) <=> a \in Kept(x) \cup {bit}
  <2>1. CASE a \in Nat
    <3>1. Place(a) \in Nat \ {0}
      BY <2>1, PlaceIs
    <3>2. a \in Kept(h) <=> Bit(a) \in WordOf(h, Place(a))
      BY <1>9, <2>1, KeptIs
    <3>3. a \in Kept(x) <=> Bit(a) \in WordOf(x, Place(a))
      BY <2>1, KeptIs
    <3>4. Place(a) = Place(bit) /\ Bit(a) = Bit(bit) => a = bit
      BY <1>2, <2>1, PlacesApart
    <3>5. a = bit => Place(a) = Place(bit) /\ Bit(a) = Bit(bit)
      OBVIOUS
    <3>6. WordOf(h, Place(a))
            = WordOf(x, Place(a)) \cup (IF Place(a) = Place(bit) THEN {Bit(bit)} ELSE {})
      BY <1>10, <3>1
    <3> QED BY <3>2, <3>3, <3>4, <3>5, <3>6, Zenon
  <2>2. CASE a \notin Nat
    BY <1>2, <1>9, <2>2, KeptIs
  <2> QED BY <2>1, <2>2
<1> QED BY <1>9, <1>11

\* Two sets keep what their words say: the form the following lemmas use.
LEMMA KeptFrom ==
  ASSUME NEW x, IsSet(x), NEW K, K \subseteq Nat,
         \A bit \in Nat : bit \in K <=> Bit(bit) \in WordOf(x, Place(bit))
  PROVE  Kept(x) = K
<1>1. ASSUME NEW bit PROVE bit \in Kept(x) <=> bit \in K
  BY KeptIs
<1> QED BY <1>1

\* The numbers in the words a set has.
LEMMA InWords ==
  ASSUME NEW x, IsSet(x), NEW bit \in Nat
  PROVE  /\ Place(bit) \in Nat \ {0} /\ Bit(bit) \in 0 .. WORD - 1
         /\ Place(bit) <= nwords(x) <=> bit \in 0 .. nbits(x) - 1
<1>1. nwords(x) \in Nat /\ nbits(x) = nwords(x) * WORD /\ nbits(x) \in Nat
  BY Shape, Constants DEF nbits
<1>2. bit < nwords(x) * WORD <=> Place(bit) <= nwords(x)
  BY <1>1, PlaceIs
<1> QED BY <1>1, <1>2, PlaceIs

\* SET_REMOVE() takes out its number and no other.
LEMMA Removed ==
  ASSUME NEW x, IsSet(x), NEW bit \in Bits, NEW h, h = SET_REMOVE(x, bit)
  PROVE  IsSet(h) /\ h.compl = x.compl /\ Kept(h) = Kept(x) \ {bit}
<1>1. bit \in Nat /\ nbits(x) \in Nat /\ \A a \in Kept(x) : a < nbits(x)
  BY Constants, KeptNat
<1>2. CASE bit >= nbits(x)
  <2>1. bit \notin Kept(x) /\ h = x
    BY <1>1, <1>2 DEF SET_REMOVE
  <2> QED BY <2>1
<1>3. CASE ~(bit >= nbits(x))
  <2>1. PICK m : m = [x.map EXCEPT ![Place(bit)] = @ \ {Bit(bit)}]
    OBVIOUS
  <2>2. h = [x EXCEPT !.map = m]
    BY <1>3, <2>1 DEF SET_REMOVE, Place, Bit
  <2>3. /\ DOMAIN x.map = 1 .. nwords(x) /\ nwords(x) \in Nat
        /\ \A i \in 1 .. nwords(x) : x.map[i] \subseteq 0 .. WORD - 1
    BY Shape
  <2>4. m = [i \in DOMAIN x.map |-> m[i]]
    BY <2>1
  <2>5. \A i \in 1 .. nwords(x) :
          m[i] = IF i = Place(bit) THEN x.map[i] \ {Bit(bit)} ELSE x.map[i]
    BY <2>1, <2>3
  <2>6. \A i \in 1 .. nwords(x) : m[i] \subseteq 0 .. WORD - 1
    BY <2>3, <2>5
  <2>7. /\ IsSet(h) /\ h.compl = x.compl
        /\ \A i \in Nat \ {0} : WordOf(h, i) = IF i <= nwords(x) THEN m[i] ELSE {}
    BY <2>2, <2>4, <2>6, Rewritten
  <2>8. ASSUME NEW i \in Nat \ {0}
        PROVE  WordOf(h, i) = WordOf(x, i) \ (IF i = Place(bit) THEN {Bit(bit)} ELSE {})
    <3>1. i <= nwords(x) => i \in 1 .. nwords(x)
      BY <2>3
    <3> QED BY <2>5, <2>7, <3>1 DEF WordOf
  <2>9. ASSUME NEW a \in Nat
        PROVE  a \in Kept(x) \ {bit} <=> Bit(a) \in WordOf(h, Place(a))
    <3>1. Place(a) \in Nat \ {0}
      BY PlaceIs
    <3>2. a \in Kept(x) <=> Bit(a) \in WordOf(x, Place(a))
      BY KeptIs
    <3>3. Place(a) = Place(bit) /\ Bit(a) = Bit(bit) => a = bit
      BY <1>1, PlacesApart
    <3>4. a = bit => Place(a) = Place(bit) /\ Bit(a) = Bit(bit)
      OBVIOUS
    <3>5. WordOf(h, Place(a))
            = WordOf(x, Place(a)) \ (IF Place(a) = Place(bit) THEN {Bit(bit)} ELSE {})
      BY <2>8, <3>1
    <3> QED BY <3>2, <3>3, <3>4, <3>5, Zenon
  <2>10. Kept(x) \ {bit} \subseteq Nat
    BY KeptNat
  <2> QED BY <2>7, <2>9, <2>10, KeptFrom
<1> QED BY <1>2, <1>3

\* A set all of whose words are empty keeps nothing.
LEMMA Emptied ==
  ASSUME NEW x, DOMAIN x = {"map", "compl"}, x.compl \in BOOLEAN,
         NEW n \in Allowed, x.map = Zeros(n)
  PROVE  IsSet(x) /\ Kept(x) = {}
<1>1. IsSet(x) /\ nwords(x) = n
  BY SetMade DEF Zeros
<1>2. ASSUME NEW a PROVE a \notin Kept(x)
  <2>1. a \in Nat => Place(a) \in Nat \ {0}
    BY PlaceIs
  <2>2. a \in Nat => WordOf(x, Place(a)) = {}
    BY <1>1, <2>1, Shape DEF WordOf, Zeros
  <2> QED BY <1>1, <2>2, KeptIs
<1> QED BY <1>1, <1>2

\* A set may have one step of words.
LEMMA OneStep == DEFWORDS \in Allowed
<1>1. PICK v \in Nat \ {0} : v = WORD * DEFWORDS
  BY Constants
<1>2. PICK most \in Nat : most = Max(Bits)
  BY Constants
<1>3. most \div v \in Nat
  BY Division
<1>4. 1 \in Steps
  BY <1>1, <1>2, <1>3 DEF Steps
<1>5. DEFWORDS = 1 * DEFWORDS
  BY Constants
<1> QED BY <1>4, <1>5 DEF Allowed

\* set_new() makes an empty set, not complemented.
LEMMA Fresh == IsSet(set_new) /\ Kept(set_new) = {} /\ set_new.compl = FALSE
<1>1. DEFWORDS \in Allowed
  BY OneStep
<1>2. /\ DOMAIN set_new = {"map", "compl"} /\ set_new.compl = FALSE
      /\ set_new.map = Zeros(DEFWORDS)
  BY DEF set_new
<1> QED BY <1>1, <1>2, Emptied

\* SET_CLEAR() and set_truncate() leave nothing.
LEMMA Cleared ==
  ASSUME NEW x, IsSet(x), NEW h, h = SET_CLEAR(x) \/ h = set_truncate(x)
  PROVE  IsSet(h) /\ h.compl = x.compl /\ Kept(h) = {}
<1>1. DOMAIN x = {"map", "compl"} /\ x.compl \in BOOLEAN /\ nwords(x) \in Allowed
  BY Shape DEF IsSet
<1>2. DEFWORDS \in Allowed
  BY OneStep
<1>3. PICK n \in Allowed : h = [x EXCEPT !.map = Zeros(n)]
  BY <1>1, <1>2 DEF SET_CLEAR, set_truncate
<1>4. DOMAIN h = {"map", "compl"} /\ h.compl = x.compl /\ h.map = Zeros(n)
  BY <1>1, <1>3
<1> QED BY <1>1, <1>4, Emptied

\* SET_FILL() leaves every number there is room for.
LEMMA Filled ==
  ASSUME NEW x, IsSet(x), NEW h, h = SET_FILL(x)
  PROVE  IsSet(h) /\ h.compl = x.compl /\ Kept(h) = 0 .. nbits(x) - 1
<1>1. PICK m : m = [i \in DOMAIN x.map |-> 0 .. WORD - 1]
  OBVIOUS
<1>2. h = [x EXCEPT !.map = m] /\ DOMAIN x.map = 1 .. nwords(x) /\ nwords(x) \in Nat
  BY <1>1, Shape DEF SET_FILL
<1>3. m = [i \in DOMAIN x.map |-> m[i]] /\ \A i \in 1 .. nwords(x) : m[i] = 0 .. WORD - 1
  BY <1>1, <1>2
<1>4. /\ IsSet(h) /\ h.compl = x.compl
      /\ \A i \in Nat \ {0} : WordOf(h, i) = IF i <= nwords(x) THEN m[i] ELSE {}
  BY <1>2, <1>3, Rewritten
<1>5. ASSUME NEW a \in Nat
      PROVE  a \in 0 .. nbits(x) - 1 <=> Bit(a) \in WordOf(h, Place(a))
  <2>1. /\ Place(a) \in Nat \ {0} /\ Bit(a) \in 0 .. WORD - 1
        /\ Place(a) <= nwords(x) <=> a \in 0 .. nbits(x) - 1
    BY InWords
  <2>2. Place(a) <= nwords(x) => m[Place(a)] = 0 .. WORD - 1
    BY <1>2, <1>3, <2>1
  <2> QED BY <1>4, <2>1, <2>2
<1>6. 0 .. nbits(x) - 1 \subseteq Nat
  OBVIOUS
<1> QED BY <1>4, <1>5, <1>6, KeptFrom

\* set_invert() leaves the numbers there is room for and that were not kept.
LEMMA Inverted ==
  ASSUME NEW x, IsSet(x), NEW h, h = set_invert(x)
  PROVE  IsSet(h) /\ h.compl = x.compl /\ Kept(h) = (0 .. nbits(x) - 1) \ Kept(x)
<1>1. PICK m : m = [i \in DOMAIN x.map |-> (0 .. WORD - 1) \ x.map[i]]
  OBVIOUS
<1>2. h = [x EXCEPT !.map = m] /\ DOMAIN x.map = 1 .. nwords(x) /\ nwords(x) \in Nat
  BY <1>1, Shape DEF set_invert
<1>3. /\ m = [i \in DOMAIN x.map |-> m[i]]
      /\ \A i \in 1 .. nwords(x) : m[i] = (0 .. WORD - 1) \ x.map[i]
  BY <1>1, <1>2
<1>4. /\ IsSet(h) /\ h.compl = x.compl
      /\ \A i \in Nat \ {0} : WordOf(h, i) = IF i <= nwords(x) THEN m[i] ELSE {}
  <2>1. \A i \in 1 .. nwords(x) : m[i] \subseteq 0 .. WORD - 1
    BY <1>3
  <2> QED BY <1>2, <1>3, <2>1, Rewritten
<1>5. ASSUME NEW a \in Nat
      PROVE  a \in (0 .. nbits(x) - 1) \ Kept(x) <=> Bit(a) \in WordOf(h, Place(a))
  <2>1. /\ Place(a) \in Nat \ {0} /\ Bit(a) \in 0 .. WORD - 1
        /\ Place(a) <= nwords(x) <=> a \in 0 .. nbits(x) - 1
    BY InWords
  <2>2. Place(a) <= nwords(x) => m[Place(a)] = (0 .. WORD - 1) \ WordOf(x, Place(a))
    BY <1>2, <1>3, <2>1 DEF WordOf
  <2>3. a \in Kept(x) <=> Bit(a) \in WordOf(x, Place(a))
    BY KeptIs
  <2> QED BY <1>4, <2>1, <2>2, <2>3
<1>6. (0 .. nbits(x) - 1) \ Kept(x) \subseteq Nat
  OBVIOUS
<1> QED BY <1>4, <1>5, <1>6, KeptFrom

\* What set_op() does to the words, and to the numbers.
Ops == {"UNION", "INTERSECT", "DIFFERENCE", "ASSIGN"}
Merge(op, X, Y) ==
  CASE op = "UNION"      -> X \cup Y
    [] op = "INTERSECT"  -> X \cap Y
    [] op = "DIFFERENCE" -> (X \ Y) \cup (Y \ X)
    [] op = "ASSIGN"     -> Y

\* Beyond the words of the source, as among them, words are merged.
LEMMA Combined ==
  ASSUME NEW op \in Ops, NEW x, IsSet(x), NEW y, IsSet(y), NEW h, h = set_op(op, x, y)
  PROVE  IsSet(h) /\ h.compl = x.compl /\ Kept(h) = Merge(op, Kept(x), Kept(y))
<1>1. PICK d : d = enlarge(x, nwords(y))
  OBVIOUS
<1>2. /\ nwords(y) \in Allowed /\ nwords(y) \in Nat \ {0}
      /\ \A i \in 1 .. nwords(y) : y.map[i] \subseteq 0 .. WORD - 1
  BY Shape
<1>3. /\ IsSet(d) /\ d.compl = x.compl /\ nwords(y) <= nwords(d)
      /\ \A i \in Nat \ {0} : WordOf(d, i) = WordOf(x, i)
  BY <1>1, <1>2, Enlarged
<1>4. /\ nwords(d) \in Nat /\ DOMAIN d.map = 1 .. nwords(d)
      /\ \A i \in 1 .. nwords(d) : d.map[i] \subseteq 0 .. WORD - 1
  BY <1>3, Shape
<1>5. PICK m : m = [i \in DOMAIN d.map |->
                      IF i > nwords(y)
                      THEN IF op \in {"INTERSECT", "ASSIGN"} THEN {} ELSE d.map[i]
                      ELSE Merge(op, d.map[i], y.map[i])]
  OBVIOUS
<1>6. h = [d EXCEPT !.map = m]
  <2>1. DOMAIN d = {"map", "compl"}
    BY <1>3 DEF IsSet
  <2> QED BY <1>1, <1>5, <2>1 DEF set_op, Merge
<1>7. ASSUME NEW i \in 1 .. nwords(d)
      PROVE  m[i] = Merge(op, WordOf(x, i), WordOf(y, i)) /\ m[i] \subseteq 0 .. WORD - 1
  <2>1. i \in Nat \ {0} /\ d.map[i] = WordOf(x, i) /\ d.map[i] \subseteq 0 .. WORD - 1
    BY <1>3, <1>4 DEF WordOf
  <2>2. m[i] = IF i > nwords(y)
               THEN IF op \in {"INTERSECT", "ASSIGN"} THEN {} ELSE d.map[i]
               ELSE Merge(op, d.map[i], y.map[i])
    BY <1>4, <1>5
  <2>3. CASE i > nwords(y)
    <3>1. WordOf(y, i) = {}
      BY <1>2, <2>1, <2>3 DEF WordOf
    <3>2. m[i] = IF op \in {"INTERSECT", "ASSIGN"} THEN {} ELSE d.map[i]
      BY <2>2, <2>3
    <3> QED BY <2>1, <3>1, <3>2 DEF Merge, Ops
  <2>4. CASE ~(i > nwords(y))
    <3>1. WordOf(y, i) = y.map[i] /\ y.map[i] \subseteq 0 .. WORD - 1
      BY <1>2, <2>1, <2>4 DEF WordOf
    <3>2. m[i] = Merge(op, WordOf(x, i), WordOf(y, i))
      BY <2>1, <2>2, <2>4, <3>1
    <3> QED BY <2>1, <3>1, <3>2 DEF Merge, Ops
  <2> QED BY <2>3, <2>4
<1>8. m = [i \in DOMAIN d.map |-> m[i]]
  BY <1>5
<1>9. /\ IsSet(h) /\ h.compl = x.compl
      /\ \A i \in Nat \ {0} : WordOf(h, i) = IF i <= nwords(d) THEN m[i] ELSE {}
  BY <1>3, <1>6, <1>7, <1>8, Rewritten
<1>10. ASSUME NEW i \in Nat \ {0}
       PROVE  WordOf(h, i) = Merge(op, WordOf(x, i), WordOf(y, i))
  <2>1. CASE i <= nwords(d)
    <3>1. i \in 1 .. nwords(d)
      BY <1>4, <2>1
    <3> QED BY <1>7, <1>9, <2>1, <3>1
  <2>2. CASE ~(i <= nwords(d))
    <3>1. WordOf(x, i) = {} /\ WordOf(y, i) = {} /\ WordOf(h, i) = {}
      <4>1. WordOf(d, i) = {}
        BY <2>2 DEF WordOf
      <4>2. ~(i <= nwords(y))
        BY <1>2, <1>3, <1>4, <2>2
      <4> QED BY <1>3, <1>9, <2>2, <4>1, <4>2 DEF WordOf
    <3> QED BY <3>1 DEF Merge, Ops
  <2> QED BY <2>1, <2>2
<1>11. Kept(x) \subseteq Nat /\ Kept(y) \subseteq Nat
  BY KeptNat
<1>12. Merge(op, Kept(x), Kept(y)) \subseteq Nat
  BY <1>11 DEF Merge, Ops
<1>13. ASSUME NEW a \in Nat
       PROVE  a \in Merge(op, Kept(x), Kept(y)) <=> Bit(a) \in WordOf(h, Place(a))
  <2>1. Place(a) \in Nat \ {0}
    BY PlaceIs
  <2>2. WordOf(h, Place(a)) = Merge(op, WordOf(x, Place(a)), WordOf(y, Place(a)))
    BY <1>10, <2>1
  <2>3. /\ a \in Kept(x) <=> Bit(a) \in WordOf(x, Place(a))
        /\ a \in Kept(y) <=> Bit(a) \in WordOf(y, Place(a))
    BY KeptIs
  <2> QED BY <2>2, <2>3 DEF Merge, Ops
<1> QED BY <1>9, <1>12, <1>13, KeptFrom

-----------------------------------------------------------------------------
(* Iteration. *)

\* A set of numbers has a least one.
LEMMA MinIs ==
  ASSUME NEW T, T \subseteq Nat, T # {}
  PROVE  Min(T) \in T /\ \A a \in T : Min(T) <= a
<1>1. IsWellFoundedOn(OpToRel(<, Nat), Nat)
  BY NatLessThanWellFounded
<1>2. PICK m \in T : \A k \in T : ~(<<k, m>> \in OpToRel(<, Nat))
  BY <1>1, WFMin
<1>3. \A k \in T : m <= k
  <2> TAKE k \in T
  <2>1. ~(k < m)
    BY <1>2 DEF OpToRel
  <2> QED BY <2>1
<1> QED BY <1>3 DEF Min

\* Where an iteration begins, there is nothing before: set_next_member() skips
\* only words of zeros (set.c:329-335).
LEMMA NothingBefore ==
  ASSUME NEW x, IsSet(x)
  PROVE  FirstWord(x) \in Nat /\ \A a \in Kept(x) : FirstWord(x) <= a
<1>1. nwords(x) \in Nat \ {0} /\ DOMAIN x.map = 1 .. nwords(x)
  BY Shape
<1>2. PICK used : used = {i \in DOMAIN x.map : x.map[i] # {}}
  OBVIOUS
<1>3. FirstWord(x) = WORD * (IF used = {} THEN nwords(x) ELSE Min(used) - 1)
  BY <1>2 DEF FirstWord
<1>4. used # {} => Min(used) \in Nat \ {0} /\ \A i \in used : Min(used) <= i
  <2>1. used \subseteq Nat \ {0}
    BY <1>1, <1>2
  <2> QED BY <2>1, MinIs
<1>5. PICK k \in Nat : FirstWord(x) = WORD * k /\ \A i \in used : k < i
  <2>1. CASE used = {}
    BY <1>1, <1>3, <2>1
  <2>2. CASE used # {}
    <3>1. Min(used) - 1 \in Nat /\ FirstWord(x) = WORD * (Min(used) - 1)
      BY <1>3, <1>4, <2>2
    <3>2. ASSUME NEW i \in used PROVE Min(used) - 1 < i
      <4>1. i \in Nat
        BY <1>1, <1>2
      <4>2. PICK m \in Nat : m = Min(used)
        BY <1>4, <2>2
      <4>3. m <= i
        BY <1>4, <2>2, <4>2
      <4> QED BY <4>1, <4>2, <4>3
    <3> QED BY <3>1, <3>2
  <2> QED BY <2>1, <2>2
<1>6. ASSUME NEW a \in Kept(x) PROVE FirstWord(x) <= a
  <2>1. a \in Nat /\ Bit(a) \in WordOf(x, Place(a))
    BY KeptIs
  <2>2. Place(a) \in used
    <3>1. Place(a) \in Nat \ {0}
      BY <2>1, PlaceIs
    <3>2. Place(a) <= nwords(x) /\ x.map[Place(a)] # {}
      BY <2>1 DEF WordOf
    <3> QED BY <1>1, <1>2, <3>1, <3>2
  <2>3. PICK q \in Nat, r \in 0 .. WORD - 1 : Place(a) = q + 1 /\ a = q * WORD + r
    <3>1. /\ a \div WORD \in Nat /\ a % WORD \in 0 .. WORD - 1
          /\ a = (a \div WORD) * WORD + (a % WORD)
      BY <2>1, Constants, Division
    <3> QED BY <3>1 DEF Place
  <2>4. k <= q
    BY <1>5, <2>2, <2>3
  <2>5. k * WORD <= q * WORD /\ k * WORD = WORD * k
    BY <2>4, Constants, Multiples
  <2>6. PICK i \in Nat : i = q * WORD
    BY Constants
  <2> QED BY <1>5, <2>3, <2>5, <2>6, Constants
<1>7. FirstWord(x) \in Nat
  BY <1>5, Constants
<1> QED BY <1>6, <1>7

-----------------------------------------------------------------------------
(* The steps, each that of the abstract sets. *)

Elems == [n \in Sets |-> Kept(s[n])]
Co    == [n \in Sets |-> s[n].compl]
Rooms == {k * WORD * DEFWORDS : k \in Steps}

\* The words a set has are those of a size clients may see.
LEMMA RoomIs ==
  ASSUME NEW x, IsSet(x)
  PROVE  nbits(x) \in Rooms /\ Kept(x) \subseteq 0 .. nbits(x) - 1
<1>1. PICK k \in Steps : nwords(x) = k * DEFWORDS
  BY Shape DEF Allowed
<1>2. nbits(x) = k * WORD * DEFWORDS
  <2>1. k \in Nat
    BY <1>1 DEF Steps
  <2>2. PICK w \in Nat, d \in Nat : w = WORD /\ d = DEFWORDS
    BY Constants
  <2>3. (k * d) * w = k * w * d
    BY <2>1
  <2> QED BY <1>1, <2>2, <2>3 DEF nbits
<1>3. ASSUME NEW bit \in Kept(x) PROVE bit \in 0 .. nbits(x) - 1
  BY KeptNat
<1> QED BY <1>1, <1>2, <1>3 DEF Rooms

\* Another set in the place of one.
LEMMA Kept1 ==
  ASSUME SetsInv, NEW n \in Sets, NEW x, IsSet(x), s' = [s EXCEPT ![n] = x]
  PROVE  /\ s' = [m \in Sets |-> s'[m]] /\ \A m \in Sets : IsSet(s'[m])
         /\ Elems' = [Elems EXCEPT ![n] = Kept(x)]
         /\ Co' = [Co EXCEPT ![n] = x.compl]
<1>1. s = [m \in Sets |-> s[m]]
  BY DEF SetsInv
<1>2. \A m \in Sets : s'[m] = IF m = n THEN x ELSE s[m]
  BY <1>1
<1>3. s' = [m \in Sets |-> s'[m]] /\ \A m \in Sets : IsSet(s'[m])
  BY <1>1, <1>2 DEF SetsInv
<1>4. Elems' = [Elems EXCEPT ![n] = Kept(x)]
  <2>1. Elems' = [m \in Sets |-> Kept(s'[m])] /\ Elems = [m \in Sets |-> Kept(s[m])]
    BY DEF Elems
  <2>2. \A m \in Sets : Kept(s'[m]) = IF m = n THEN Kept(x) ELSE Kept(s[m])
    BY <1>2
  <2> QED BY <2>1, <2>2
<1>5. Co' = [Co EXCEPT ![n] = x.compl]
  <2>1. Co' = [m \in Sets |-> s'[m].compl] /\ Co = [m \in Sets |-> s[m].compl]
    BY DEF Co
  <2>2. \A m \in Sets : s'[m].compl = IF m = n THEN x.compl ELSE s[m].compl
    BY <1>2
  <2> QED BY <2>1, <2>2
<1> QED BY <1>3, <1>4, <1>5

\* What follows once one set has become another (Becomes).
LEMMA Becoming ==
  ASSUME SetsInv, NEW n \in Sets, NEW x, IsSet(x), x.compl = s[n].compl, Becomes(n, x)
  PROVE  /\ SetsInv' /\ Elems' = [Elems EXCEPT ![n] = Kept(x)] /\ Co' = Co
         /\ ret' = NONE /\ lastSet' = lastSet /\ current_member' = current_member
<1>1. /\ s' = [s EXCEPT ![n] = x] /\ ret' = NONE
      /\ lastSet' = lastSet /\ current_member' = current_member
  BY DEF Becomes, iteration
<1>2. /\ s' = [m \in Sets |-> s'[m]] /\ \A m \in Sets : IsSet(s'[m])
      /\ Elems' = [Elems EXCEPT ![n] = Kept(x)]
      /\ Co' = [Co EXCEPT ![n] = x.compl]
  BY <1>1, Kept1
<1>3. Co' = Co
  BY <1>2 DEF Co
<1>4. SetsInv'
  BY <1>1, <1>2 DEF SetsInv
<1> QED BY <1>1, <1>2, <1>3, <1>4

\* What the abstract sets may become in one step.
LEMMA AbstractChange ==
  ASSUME NEW n \in Sets, NEW e, Elems' = [Elems EXCEPT ![n] = e], Co' = Co,
         ret' = NONE, lastSet' = lastSet, current_member' = current_member,
         \/ \E m \in Bits : e = Elems[n] \cup {m} \/ e = Elems[n] \ {m}
         \/ e = {}
         \/ \E k \in Rooms : \/ e = 0 .. k - 1
                             \/ Elems[n] \subseteq 0 .. k - 1 /\ e = (0 .. k - 1) \ Elems[n]
         \/ \E m \in Sets : \E op \in Ops : e = Merge(op, Elems[n], Elems[m])
  PROVE  Abstract!Next
<1>1. Abstract!Change(n)
  <2>1. CASE \/ \E m \in Bits : e = Elems[n] \cup {m} \/ e = Elems[n] \ {m}
             \/ e = {}
             \/ \E k \in Rooms :
                  \/ e = 0 .. k - 1
                  \/ Elems[n] \subseteq 0 .. k - 1 /\ e = (0 .. k - 1) \ Elems[n]
    BY <2>1, Zenon DEF Abstract!Change, Abstract!Keep, Abstract!iteration, Elems, Co, Rooms, Steps
  <2>2. CASE \E m \in Sets : \E op \in Ops : e = Merge(op, Elems[n], Elems[m])
    <3>1. PICK m \in Sets :
            \/ e = Elems[n] \cup Elems[m] \/ e = Elems[n] \cap Elems[m]
            \/ e = (Elems[n] \ Elems[m]) \cup (Elems[m] \ Elems[n]) \/ e = Elems[m]
      BY <2>2 DEF Merge, Ops
    <3> QED BY <3>1, Zenon DEF Abstract!Change, Abstract!Keep, Abstract!iteration, Elems, Co
  <2> QED BY <2>1, <2>2
<1> QED BY <1>1 DEF Abstract!Next

\* What is known of each set.
LEMMA SetOf ==
  ASSUME SetsInv, NEW n \in Sets
  PROVE  IsSet(s[n]) /\ Elems[n] = Kept(s[n]) /\ Co[n] = s[n].compl /\ s[n].compl \in BOOLEAN
BY DEF SetsInv, Elems, Co, IsSet

\* Each operation on one set, or on a set and another, is one of IntSets.
LEMMA ChangeStep ==
  ASSUME SetsInv, NEW n \in Sets,
         \/ Add(n) \/ Remove(n) \/ Clear(n) \/ Fill(n) \/ Invert(n) \/ Truncate(n)
         \/ \E m \in Sets : Combine(n, m)
  PROVE  SetsInv' /\ Abstract!Next
<1>1. IsSet(s[n]) /\ Elems[n] = Kept(s[n])
  BY SetOf
<1>2. ASSUME NEW x, Becomes(n, x), IsSet(x), x.compl = s[n].compl,
             \/ \E m \in Bits : Kept(x) = Elems[n] \cup {m} \/ Kept(x) = Elems[n] \ {m}
             \/ Kept(x) = {}
             \/ \E k \in Rooms :
                  \/ Kept(x) = 0 .. k - 1
                  \/ Elems[n] \subseteq 0 .. k - 1 /\ Kept(x) = (0 .. k - 1) \ Elems[n]
             \/ \E m \in Sets : \E op \in Ops : Kept(x) = Merge(op, Elems[n], Elems[m])
      PROVE  SetsInv' /\ Abstract!Next
  <2>1. /\ SetsInv' /\ Elems' = [Elems EXCEPT ![n] = Kept(x)] /\ Co' = Co
        /\ ret' = NONE /\ lastSet' = lastSet /\ current_member' = current_member
    BY <1>2, Becoming
  <2>2. PICK e : e = Kept(x)
    OBVIOUS
  <2> QED BY <1>2, <2>1, <2>2, AbstractChange, Zenon
<1>3. CASE Add(n)
  <2>1. PICK bit \in Bits : Becomes(n, SET_ADD(s[n], bit))
    BY <1>3 DEF Add
  <2>2. PICK x : x = SET_ADD(s[n], bit)
    OBVIOUS
  <2>3. IsSet(x) /\ x.compl = s[n].compl /\ Kept(x) = Elems[n] \cup {bit}
    BY <1>1, <2>2, Added
  <2>4. Becomes(n, x)
    BY <2>1, <2>2, Zenon
  <2> QED BY <1>2, <2>3, <2>4, Zenon
<1>4. CASE Remove(n)
  <2>1. PICK bit \in Bits : Becomes(n, SET_REMOVE(s[n], bit))
    BY <1>4 DEF Remove
  <2>2. PICK x : x = SET_REMOVE(s[n], bit)
    OBVIOUS
  <2>3. IsSet(x) /\ x.compl = s[n].compl /\ Kept(x) = Elems[n] \ {bit}
    BY <1>1, <2>2, Removed
  <2>4. Becomes(n, x)
    BY <2>1, <2>2, Zenon
  <2> QED BY <1>2, <2>3, <2>4, Zenon
<1>5. CASE Clear(n) \/ Truncate(n)
  <2>1. PICK x : (x = SET_CLEAR(s[n]) \/ x = set_truncate(s[n])) /\ Becomes(n, x)
    BY <1>5 DEF Clear, Truncate
  <2>2. IsSet(x) /\ x.compl = s[n].compl /\ Kept(x) = {}
    BY <1>1, <2>1, Cleared
  <2> QED BY <1>2, <2>1, <2>2, Zenon
<1>6. CASE Fill(n)
  <2>1. PICK x : x = SET_FILL(s[n]) /\ Becomes(n, x)
    BY <1>6 DEF Fill
  <2>2. IsSet(x) /\ x.compl = s[n].compl /\ Kept(x) = 0 .. nbits(s[n]) - 1
    BY <1>1, <2>1, Filled
  <2>3. nbits(s[n]) \in Rooms
    BY <1>1, RoomIs
  <2> QED BY <1>2, <2>1, <2>2, <2>3, Zenon
<1>7. CASE Invert(n)
  <2>1. PICK x : x = set_invert(s[n]) /\ Becomes(n, x)
    BY <1>7 DEF Invert
  <2>2. /\ IsSet(x) /\ x.compl = s[n].compl
        /\ Kept(x) = (0 .. nbits(s[n]) - 1) \ Elems[n]
    BY <1>1, <2>1, Inverted
  <2>3. nbits(s[n]) \in Rooms /\ Elems[n] \subseteq 0 .. nbits(s[n]) - 1
    BY <1>1, RoomIs
  <2> QED BY <1>2, <2>1, <2>2, <2>3, Zenon
<1>8. ASSUME NEW m \in Sets, Combine(n, m) PROVE SetsInv' /\ Abstract!Next
  <2>1. PICK op \in Ops : Becomes(n, set_op(op, s[n], s[m]))
    BY <1>8 DEF Combine, Ops
  <2>2. PICK x : x = set_op(op, s[n], s[m])
    OBVIOUS
  <2>3. IsSet(s[m]) /\ Elems[m] = Kept(s[m])
    BY SetOf
  <2>4. IsSet(x) /\ x.compl = s[n].compl /\ Kept(x) = Merge(op, Elems[n], Elems[m])
    BY <1>1, <2>2, <2>3, Combined
  <2>5. Becomes(n, x)
    BY <2>1, <2>2, Zenon
  <2> QED BY <1>2, <2>4, <2>5, Zenon
<1> QED BY <1>3, <1>4, <1>5, <1>6, <1>7, <1>8

\* SET_COMPLEMENT() changes how a set is read and not what it keeps.
LEMMA ComplementStep ==
  ASSUME SetsInv, NEW n \in Sets, SET_COMPLEMENT(n)
  PROVE  SetsInv' /\ Abstract!Next
<1>1. PICK x : x = [s[n] EXCEPT !.compl = ~@]
  OBVIOUS
<1>2. /\ s' = [s EXCEPT ![n] = x] /\ ret' = NONE
      /\ lastSet' = lastSet /\ current_member' = current_member
  BY <1>1 DEF SET_COMPLEMENT, Becomes, iteration
<1>3. /\ IsSet(s[n]) /\ DOMAIN s[n] = {"map", "compl"}
      /\ Elems[n] = Kept(s[n]) /\ Co[n] = s[n].compl
  BY SetOf DEF IsSet
<1>4. x.map = s[n].map /\ DOMAIN x = {"map", "compl"} /\ x.compl = ~s[n].compl
  BY <1>1, <1>3
<1>5. IsSet(x)
  BY <1>3, <1>4 DEF IsSet
<1>6. Kept(x) = Kept(s[n])
  BY <1>4 DEF Kept, nbits, nwords, SET_MEMBER
<1>7. /\ s' = [m \in Sets |-> s'[m]] /\ \A m \in Sets : IsSet(s'[m])
      /\ Elems' = [Elems EXCEPT ![n] = Kept(x)] /\ Co' = [Co EXCEPT ![n] = x.compl]
  BY <1>2, <1>5, Kept1
<1>8. Elems' = Elems
  BY <1>3, <1>6, <1>7 DEF Elems
<1>9. Co' = [Co EXCEPT ![n] = ~@]
  BY <1>3, <1>4, <1>7
<1>10. Abstract!Complement(n)
  BY <1>2, <1>8, <1>9, Zenon DEF Abstract!Complement, Abstract!iteration, Elems, Co
<1>11. SetsInv'
  BY <1>2, <1>7 DEF SetsInv
<1> QED BY <1>10, <1>11 DEF Abstract!Next

\* A set deleted, and a new one or a duplicate in its place.
LEMMA ReplaceStep ==
  ASSUME SetsInv, NEW n \in Sets, Replace(n)
  PROVE  SetsInv' /\ Abstract!Next
<1>1. PICK x : x \in {set_new} \cup {s[m] : m \in Sets} /\ s' = [s EXCEPT ![n] = x]
  BY DEF Replace
<1>2. /\ lastSet' \in {lastSet} \cup (IF lastSet = n THEN {NONE} ELSE {})
      /\ ret' = NONE /\ current_member' = current_member
  BY DEF Replace
<1>3. /\ IsSet(x)
      /\ \/ Kept(x) = {} /\ x.compl = FALSE
         \/ \E m \in Sets : Kept(x) = Elems[m] /\ x.compl = Co[m]
  BY <1>1, Fresh, SetOf
<1>4. /\ s' = [m \in Sets |-> s'[m]] /\ \A m \in Sets : IsSet(s'[m])
      /\ Elems' = [Elems EXCEPT ![n] = Kept(x)] /\ Co' = [Co EXCEPT ![n] = x.compl]
  BY <1>1, <1>3, Kept1
<1>5. \/ Elems' = [Elems EXCEPT ![n] = {}] /\ Co' = [Co EXCEPT ![n] = FALSE]
      \/ \E m \in Sets :
           Elems' = [Elems EXCEPT ![n] = Elems[m]] /\ Co' = [Co EXCEPT ![n] = Co[m]]
  BY <1>3, <1>4, Zenon
<1>6. Abstract!Replace(n)
  BY <1>2, <1>5, Zenon DEF Abstract!Replace, Abstract!Keep, Elems, Co
<1>7. SetsInv'
  BY <1>2, <1>4 DEF SetsInv
<1> QED BY <1>6, <1>7 DEF Abstract!Next

\* Making a set as large as another leaves what it keeps.
LEMMA EnlargedKeeps ==
  ASSUME NEW x, IsSet(x), NEW y, IsSet(y), NEW e, e = enlarge(x, nwords(y))
  PROVE  IsSet(e) /\ Kept(e) = Kept(x) /\ e.compl = x.compl
<1>1. nwords(y) \in Allowed
  BY Shape
<1>2. /\ IsSet(e) /\ e.compl = x.compl
      /\ \A i \in Nat \ {0} : WordOf(e, i) = WordOf(x, i)
  BY <1>1, Enlarged
<1>3. ASSUME NEW a \in Nat PROVE a \in Kept(x) <=> Bit(a) \in WordOf(e, Place(a))
  <2>1. Place(a) \in Nat \ {0}
    BY PlaceIs
  <2>2. a \in Kept(x) <=> Bit(a) \in WordOf(x, Place(a))
    BY KeptIs
  <2> QED BY <1>2, <2>1, <2>2
<1>4. Kept(x) \subseteq Nat
  BY KeptNat
<1> QED BY <1>2, <1>3, <1>4, KeptFrom

\* Looking at two sets of different sizes changes words, never numbers.
LEMMA TestStep ==
  ASSUME SetsInv, NEW m \in Sets, NEW n \in Sets, SetTest(m, n)
  PROVE  SetsInv' /\ Abstract!Next
<1>1. /\ s' = [[s EXCEPT ![m] = enlarge(@, nwords(s[n]))]
                  EXCEPT ![n] = enlarge(@, nwords(s[m]))]
      /\ ret' = NONE /\ lastSet' = lastSet /\ current_member' = current_member
  BY DEF SetTest, iteration
<1>2. PICK x : x = enlarge(s[m], nwords(s[n]))
  OBVIOUS
<1>3. PICK y : y = enlarge(IF m = n THEN x ELSE s[n], nwords(s[m]))
  OBVIOUS
<1>4. s = [k \in Sets |-> s[k]] /\ IsSet(s[m]) /\ IsSet(s[n])
  BY DEF SetsInv
<1>5. IsSet(x) /\ Kept(x) = Kept(s[m]) /\ x.compl = s[m].compl
  BY <1>2, <1>4, EnlargedKeeps
<1>6. IsSet(y) /\ Kept(y) = Kept(s[n]) /\ y.compl = s[n].compl
  <2>1. CASE m = n
    BY <1>3, <1>4, <1>5, <2>1, EnlargedKeeps
  <2>2. CASE m # n
    BY <1>3, <1>4, <2>2, EnlargedKeeps
  <2> QED BY <2>1, <2>2
<1>7. s' = [[s EXCEPT ![m] = x] EXCEPT ![n] = y]
  <2>1. PICK t : t = [s EXCEPT ![m] = x]
    OBVIOUS
  <2>2. t = [s EXCEPT ![m] = enlarge(@, nwords(s[n]))]
    BY <1>2, <2>1, Zenon
  <2>3. s' = [t EXCEPT ![n] = enlarge(t[n], nwords(s[m]))]
    BY <1>1, <2>2, Zenon
  <2>4. t[n] = IF m = n THEN x ELSE s[n]
    BY <1>4, <2>1
  <2>5. s' = [t EXCEPT ![n] = y]
    BY <1>3, <2>3, <2>4, Zenon
  <2> QED BY <2>1, <2>5, Zenon
<1>8. /\ s' = [k \in Sets |-> s'[k]]
      /\ \A k \in Sets : s'[k] = IF k = n THEN y ELSE IF k = m THEN x ELSE s[k]
  BY <1>4, <1>7
<1>9. \A k \in Sets : IsSet(s'[k]) /\ Kept(s'[k]) = Kept(s[k]) /\ s'[k].compl = s[k].compl
  BY <1>5, <1>6, <1>8 DEF SetsInv
<1>10. SetsInv'
  BY <1>1, <1>8, <1>9 DEF SetsInv
<1>11. Elems' = Elems /\ Co' = Co
  <2>1. Elems' = [k \in Sets |-> Kept(s'[k])] /\ Co' = [k \in Sets |-> s'[k].compl]
    BY DEF Elems, Co
  <2> QED BY <1>9, <2>1 DEF Elems, Co
<1>12. Elems' = [Elems EXCEPT ![n] = Elems[n]]
  BY <1>11 DEF Elems
<1>13. "ASSIGN" \in Ops /\ Merge("ASSIGN", Elems[n], Elems[n]) = Elems[n]
  BY DEF Ops, Merge
<1>14. PICK e : e = Elems[n]
  OBVIOUS
<1>15. Abstract!Next
  BY <1>1, <1>11, <1>12, <1>13, <1>14, AbstractChange, Zenon
<1> QED BY <1>10, <1>15

\* The least of a set is the same in both modules.
LEMMA SameMin == ASSUME NEW A PROVE Abstract!Min(A) = Min(A)
BY DEF Abstract!Min, Min

\* The next member is the least that is left: nothing is left out and nothing is
\* returned twice, whatever was added, removed or enlarged on the way.
LEMMA MemberStep ==
  ASSUME SetsInv, NEW n \in Sets, set_next_member(n)
  PROVE  SetsInv' /\ Abstract!Next
<1>1. PICK x : x = s[n]
  OBVIOUS
<1>2. PICK from : from = IF lastSet = n THEN current_member ELSE FirstWord(x)
  OBVIOUS
<1>3. PICK start : start = IF lastSet = n THEN current_member ELSE 0
  OBVIOUS
<1>4. PICK left : left = {bit \in from .. nbits(x) - 1 : SET_TEST(x, bit)}
  OBVIOUS
<1>5. /\ lastSet' = n /\ s' = s /\ ret' = (IF left = {} THEN -1 ELSE Min(left))
      /\ current_member' = 1 + (IF left # {} THEN Min(left)
                                ELSE IF from > nbits(x) THEN from ELSE nbits(x))
  BY <1>1, <1>2, <1>4 DEF set_next_member
<1>6. /\ IsSet(x) /\ Elems[n] = Kept(x) /\ Co[n] = x.compl /\ x.compl \in BOOLEAN
      /\ nbits(x) \in Nat /\ Kept(x) \subseteq 0 .. nbits(x) - 1 /\ current_member \in Nat
  BY <1>1, SetOf, RoomIs, KeptNat DEF SetsInv
<1>7. from \in Nat /\ start \in Nat /\ start <= from
  BY <1>2, <1>3, <1>6, NothingBefore
<1>8. \A a \in Kept(x) : a >= start => a >= from
  BY <1>2, <1>3, <1>6, <1>7, NothingBefore
<1>9. \A a \in 0 .. nbits(x) - 1 : SET_TEST(x, a) <=> (a \in Kept(x)) # x.compl
  BY <1>6 DEF SET_TEST, Kept, SET_MEMBER
<1>10. left \subseteq Nat /\ (left # {} => Min(left) \in left /\ \A a \in left : Min(left) <= a)
  BY <1>4, <1>7, MinIs
<1>11. /\ Elems' = Elems /\ Co' = Co /\ SetsInv'
  <2>1. Elems' = Elems /\ Co' = Co
    BY <1>5 DEF Elems, Co
  <2>2. current_member' \in Nat
    <3>1. CASE left = {}
      BY <1>5, <1>6, <1>7, <3>1
    <3>2. CASE left # {}
      <4>1. Min(left) \in Nat /\ current_member' = 1 + Min(left)
        BY <1>5, <1>10, <3>2
      <4> QED BY <4>1
    <3> QED BY <3>1, <3>2
  <2> QED BY <1>5, <2>1, <2>2 DEF SetsInv
<1>12. IF ret' = -1 THEN \A a \in Kept(x) : a < current_member'
                    ELSE current_member' = ret' + 1
  <2>1. CASE left = {}
    BY <1>5, <1>6, <1>7, <2>1
  <2>2. CASE left # {}
    <3>1. Min(left) \in Nat /\ ret' = Min(left) /\ current_member' = 1 + Min(left)
      BY <1>5, <1>10, <2>2
    <3> QED BY <3>1
  <2> QED BY <2>1, <2>2
<1>13. CASE x.compl
  <2>1. ret' = -1 \/ (ret' # NONE /\ ret' >= start /\ ret' \notin Kept(x))
    <3>1. CASE left = {}
      BY <1>5, <3>1
    <3>2. CASE left # {}
      <4>1. /\ Min(left) \in Nat /\ from <= Min(left) /\ Min(left) \in 0 .. nbits(x) - 1
            /\ SET_TEST(x, Min(left)) /\ ret' = Min(left)
        BY <1>4, <1>5, <1>6, <1>7, <1>10, <3>2
      <4>2. Min(left) \notin Kept(x)
        BY <1>9, <1>13, <4>1
      <4> QED BY <1>7, <4>1, <4>2, Constants
    <3> QED BY <3>1, <3>2
  <2>2. Abstract!Next_member(n)
    BY <1>3, <1>5, <1>6, <1>11, <1>12, <1>13, <2>1 DEF Abstract!Next_member, Elems, Co
  <2> QED BY <1>11, <2>2 DEF Abstract!Next
<1>14. CASE ~x.compl
  <2>1. left = {a \in Elems[n] : a >= start}
    <3>1. ASSUME NEW a PROVE a \in left <=> a \in Kept(x) /\ a >= start
      BY <1>4, <1>6, <1>7, <1>8, <1>9, <1>14
    <3> QED BY <1>6, <3>1
  <2>2. /\ start = IF lastSet = n THEN current_member ELSE 0
        /\ ret' = IF {a \in Elems[n] : a >= start} = {} THEN -1
                   ELSE Min({a \in Elems[n] : a >= start})
        /\ IF ret' = -1 THEN \A a \in Elems[n] : a < current_member'
                        ELSE current_member' = ret' + 1
    BY <1>3, <1>5, <1>6, <1>12, <2>1, Zenon
  <2>3. ~Co[n] /\ lastSet' = n /\ Elems' = Elems /\ Co' = Co
    BY <1>5, <1>6, <1>11, <1>14
  <2>4. Abstract!Next_member(n)
    BY <2>2, <2>3, SameMin, Zenon DEF Abstract!Next_member, Elems, Co
  <2> QED BY <1>11, <2>4 DEF Abstract!Next
<1> QED BY <1>6, <1>13, <1>14

-----------------------------------------------------------------------------
(* The theorem. *)

\* At the start all sets are empty, in the words as in IntSets.
LEMMA InitSets == Init => SetsInv /\ Abstract!Init
<1> SUFFICES ASSUME Init PROVE SetsInv /\ Abstract!Init
  OBVIOUS
<1>1. /\ s = [n \in Sets |-> set_new]
      /\ lastSet = NONE /\ current_member = 0 /\ ret = NONE
  BY DEF Init
<1>2. SetsInv
  BY <1>1, Fresh DEF SetsInv
<1>3. Elems = [n \in Sets |-> {}] /\ Co = [n \in Sets |-> FALSE]
  BY <1>1, Fresh DEF Elems, Co
<1>4. Abstract!Init
  BY <1>1, <1>3, Zenon DEF Abstract!Init, Elems, Co
<1> QED BY <1>2, <1>4

\* Every step keeps the sets sets, and is a step of IntSets or none.
LEMMA StepSets ==
  ASSUME SetsInv, [Next]_vars
  PROVE  SetsInv' /\ [Abstract!Next]_<<Elems, Co, <<lastSet, current_member>>, ret>>
<1>1. CASE ResetIteration
  <2>1. s' = s /\ lastSet' = NONE /\ ret' = NONE /\ current_member' = current_member
    BY <1>1 DEF ResetIteration
  <2>2. SetsInv'
    BY <2>1 DEF SetsInv
  <2>3. Elems' = Elems /\ Co' = Co
    BY <2>1 DEF Elems, Co
  <2>4. Abstract!Reset
    BY <2>1, <2>3, Zenon DEF Abstract!Reset, Elems, Co
  <2> QED BY <2>2, <2>4 DEF Abstract!Next
<1>2. ASSUME NEW n \in Sets,
             \/ Add(n) \/ Remove(n) \/ Clear(n) \/ Fill(n) \/ Invert(n) \/ Truncate(n)
             \/ SET_COMPLEMENT(n) \/ Replace(n) \/ set_next_member(n)
             \/ \E m \in Sets : Combine(n, m) \/ SetTest(n, m)
      PROVE  SetsInv' /\ Abstract!Next
  BY <1>2, ChangeStep, ComplementStep, ReplaceStep, MemberStep, TestStep, Zenon
<1>3. CASE UNCHANGED vars
  <2>1. s' = s /\ lastSet' = lastSet /\ current_member' = current_member /\ ret' = ret
    BY <1>3 DEF vars
  <2>2. Elems' = Elems /\ Co' = Co
    BY <2>1 DEF Elems, Co
  <2> QED BY <2>1, <2>2 DEF SetsInv
<1> QED BY <1>1, <1>2, <1>3, Zenon DEF Next

\* The words of set.c implement sets of numbers (ImplementsIntSets), for every
\* size of word and step of growth.
THEOREM WordsImplementSets == Spec => ImplementsIntSets
<1>1. SetsInv /\ [Next]_vars => SetsInv'
  BY StepSets
<1>2. SetsInv /\ [Next]_vars => [Abstract!Next]_<<Elems, Co, Abstract!iteration, ret>>
  BY StepSets DEF Abstract!iteration
<1>3. Spec => []SetsInv
  BY InitSets, <1>1, PTL DEF Spec
<1> QED BY InitSets, <1>2, <1>3, PTL DEF Spec, ImplementsIntSets, Abstract!Spec, Elems, Co
-----------------------------------------------------------------------------
(* The functions that only look. *)

\* The words common to two sets are those up to the size of the smaller.
LEMMA CommonIs ==
  ASSUME NEW x, IsSet(x), NEW y, IsSet(y)
  PROVE  Common(x, y) = DOMAIN x.map \cap DOMAIN y.map
<1>1. /\ nwords(x) \in Nat /\ DOMAIN x.map = 1 .. nwords(x)
      /\ nwords(y) \in Nat /\ DOMAIN y.map = 1 .. nwords(y)
  BY Shape
<1>2. PICK p \in Nat, q \in Nat : p = nwords(x) /\ q = nwords(y)
  BY <1>1
<1>3. Common(x, y) = 1 .. (IF p < q THEN p ELSE q)
  BY <1>2 DEF Common
<1>4. 1 .. (IF p < q THEN p ELSE q) = (1 .. p) \cap (1 .. q)
  OBVIOUS
<1> QED BY <1>1, <1>2, <1>3, <1>4

\* Numbers are kept in both places or in neither, whatever has been made larger.
LEMMA ByWords ==
  ASSUME NEW x, IsSet(x), NEW y, IsSet(y)
  PROVE  /\ Kept(x) \subseteq Kept(y) <=> \A i \in Nat \ {0} : WordOf(x, i) \subseteq WordOf(y, i)
         /\ \A i \in Nat \ {0} :
              WordOf(x, i) \cap WordOf(y, i) # {} => Kept(x) \cap Kept(y) # {}
<1>1. ASSUME NEW i \in Nat \ {0}, NEW r, r \in WordOf(x, i)
      PROVE  \E a \in Kept(x) : Place(a) = i /\ Bit(a) = r
  <2>1. r \in 0 .. WORD - 1
    BY <1>1, WordIs
  <2>2. PICK a \in Nat : Place(a) = i /\ Bit(a) = r
    BY <2>1, PlaceTaken
  <2> QED BY <1>1, <2>2, KeptIs
<1>2. ASSUME Kept(x) \subseteq Kept(y), NEW i \in Nat \ {0}
      PROVE  WordOf(x, i) \subseteq WordOf(y, i)
  <2>1. ASSUME NEW r \in WordOf(x, i) PROVE r \in WordOf(y, i)
    <3>1. PICK a \in Kept(x) : Place(a) = i /\ Bit(a) = r
      BY <1>1
    <3> QED BY <1>2, <3>1, KeptIs
  <2> QED BY <2>1
<1>3. ASSUME \A i \in Nat \ {0} : WordOf(x, i) \subseteq WordOf(y, i), NEW a \in Kept(x)
      PROVE  a \in Kept(y)
  <2>1. a \in Nat /\ Bit(a) \in WordOf(x, Place(a))
    BY KeptIs
  <2>2. Place(a) \in Nat \ {0}
    BY <2>1, PlaceIs
  <2>3. Bit(a) \in WordOf(y, Place(a))
    BY <1>3, <2>1, <2>2
  <2> QED BY <2>1, <2>3, KeptIs
<1>4. ASSUME NEW i \in Nat \ {0}, NEW r, r \in WordOf(x, i), r \in WordOf(y, i)
      PROVE  Kept(x) \cap Kept(y) # {}
  <2>1. PICK a \in Kept(x) : Place(a) = i /\ Bit(a) = r
    BY <1>1, <1>4
  <2>2. a \in Nat
    BY <2>1, KeptNat
  <2>3. a \in Kept(y)
    BY <1>4, <2>1, <2>2, KeptIs
  <2> QED BY <2>1, <2>3
<1> QED BY <1>2, <1>3, <1>4

\* Sets keep the same when their words are the same.
LEMMA SameWords ==
  ASSUME NEW x, IsSet(x), NEW y, IsSet(y)
  PROVE  Kept(x) = Kept(y) <=> \A i \in Nat \ {0} : WordOf(x, i) = WordOf(y, i)
<1>1. /\ Kept(x) \subseteq Kept(y) <=> \A i \in Nat \ {0} : WordOf(x, i) \subseteq WordOf(y, i)
      /\ Kept(y) \subseteq Kept(x) <=> \A i \in Nat \ {0} : WordOf(y, i) \subseteq WordOf(x, i)
  BY ByWords
<1> QED BY <1>1

\* set_compare() is 0 for sets that keep the same, and set_subset() is inclusion.
LEMMA Compared ==
  ASSUME NEW x, IsSet(x), NEW y, IsSet(y)
  PROVE  /\ Kept(x) = Kept(y) => set_compare(x, y) = 0
         /\ set_subset(x, y) <=> Kept(y) \subseteq Kept(x)
<1>1. /\ DOMAIN x.map \subseteq Nat \ {0} /\ DOMAIN y.map \subseteq Nat \ {0}
      /\ \A i \in Nat \ {0} : WordOf(x, i) = IF i \in DOMAIN x.map THEN x.map[i] ELSE {}
      /\ \A i \in Nat \ {0} : WordOf(y, i) = IF i \in DOMAIN y.map THEN y.map[i] ELSE {}
  BY Shape DEF WordOf
<1>2. Common(x, y) = DOMAIN x.map \cap DOMAIN y.map /\ Common(y, x) = Common(x, y)
  BY CommonIs
<1>3. ASSUME Kept(x) = Kept(y) PROVE set_compare(x, y) = 0
  <2>1. \A i \in Nat \ {0} : WordOf(x, i) = WordOf(y, i)
    BY <1>3, SameWords
  <2>2. Differing(x, y) = {}
    BY <1>1, <1>2, <2>1 DEF Differing
  <2>3. ~Beyond(x, y) /\ ~Beyond(y, x)
    BY <1>1, <1>2, <2>1 DEF Beyond
  <2> QED BY <2>2, <2>3 DEF set_compare
<1>4. set_subset(x, y) <=> \A i \in Nat \ {0} : WordOf(y, i) \subseteq WordOf(x, i)
  BY <1>1, <1>2 DEF set_subset, Beyond
<1> QED BY <1>3, <1>4, ByWords

\* set_test() recognises sets that keep the same, and does not say of disjoint
\* sets that they intersect (set.c:145-153).
LEMMA Tested ==
  ASSUME NEW x, IsSet(x), NEW y, IsSet(y),
         NEW e, e = enlarge(x, nwords(y)), NEW f, f = enlarge(y, nwords(x))
  PROVE  /\ set_test(e, f) = "EQUIV" <=> Kept(x) = Kept(y)
         /\ set_test(e, f) = "INTER" => Kept(x) \cap Kept(y) # {}
<1>1. /\ IsSet(e) /\ IsSet(f) /\ Kept(e) = Kept(x) /\ Kept(f) = Kept(y)
  BY EnlargedKeeps
<1>2. nwords(e) = nwords(f)
  <2>1. /\ nwords(x) \in Allowed /\ nwords(y) \in Allowed
        /\ nwords(x) \in Nat /\ nwords(y) \in Nat
    BY Shape
  <2>2. ASSUME NEW a, IsSet(a), NEW b, IsSet(b)
        PROVE  nwords(enlarge(a, nwords(b))) = IF nwords(b) <= nwords(a) THEN nwords(a) ELSE nwords(b)
    <3>1. nwords(b) \in Nat /\ DOMAIN a = {"map", "compl"}
      BY <2>2, Shape DEF IsSet
    <3>2. CASE nwords(b) <= nwords(a)
      BY <3>2 DEF enlarge
    <3>3. CASE ~(nwords(b) <= nwords(a))
      <4>1. enlarge(a, nwords(b)) = [a EXCEPT !.map = [i \in 1 .. nwords(b) |-> WordOf(a, i)]]
        BY <3>3 DEF enlarge
      <4>2. DOMAIN enlarge(a, nwords(b)).map = 1 .. nwords(b)
        BY <3>1, <4>1
      <4> QED BY <3>1, <3>3, <4>2, FS_Interval DEF nwords
    <3> QED BY <3>2, <3>3
  <2>3. /\ nwords(e) = IF nwords(y) <= nwords(x) THEN nwords(x) ELSE nwords(y)
        /\ nwords(f) = IF nwords(x) <= nwords(y) THEN nwords(y) ELSE nwords(x)
    BY <2>2
  <2> QED BY <2>1, <2>3
<1>3. /\ DOMAIN e.map = DOMAIN f.map /\ DOMAIN e.map \subseteq Nat \ {0}
      /\ \A i \in Nat \ {0} : WordOf(e, i) = IF i \in DOMAIN e.map THEN e.map[i] ELSE {}
      /\ \A i \in Nat \ {0} : WordOf(f, i) = IF i \in DOMAIN e.map THEN f.map[i] ELSE {}
  BY <1>1, <1>2, Shape DEF WordOf
<1>4. Differing(e, f) = {i \in DOMAIN e.map : e.map[i] # f.map[i]}
  BY <1>1, <1>3, CommonIs DEF Differing
<1>5. Differing(e, f) = {} <=> Kept(e) = Kept(f)
  <2>1. Differing(e, f) = {} <=> \A i \in Nat \ {0} : WordOf(e, i) = WordOf(f, i)
    BY <1>3, <1>4
  <2> QED BY <1>1, <2>1, SameWords
<1>6. ASSUME set_test(e, f) = "INTER" PROVE Kept(e) \cap Kept(f) # {}
  <2>1. PICK i \in Differing(e, f) : e.map[i] \cap f.map[i] # {}
    BY <1>6 DEF set_test
  <2>2. i \in Nat \ {0} /\ WordOf(e, i) \cap WordOf(f, i) # {}
    BY <1>3, <1>4, <2>1
  <2> QED BY <1>1, <2>2, ByWords
<1>7. set_test(e, f) = "EQUIV" <=> Differing(e, f) = {}
  BY DEF set_test
<1> QED BY <1>1, <1>5, <1>6, <1>7

\* What the functions that look at words answer (AnswersByWords, the part of
\* AnswersByMembers that takes no sum) is about the numbers kept: set_subset()
\* is inclusion, set_test() recognises equal sets and never says that disjoint
\* ones intersect, and equal sets compare as 0, whatever words each has.
THEOREM WordsAnswer == Spec => []\A m, n \in Sets : AnswersByWords(s[m], s[n])
<1>1. SetsInv => \A m, n \in Sets : AnswersByWords(s[m], s[n])
  <2> SUFFICES ASSUME SetsInv, NEW m \in Sets, NEW n \in Sets
               PROVE  AnswersByWords(s[m], s[n])
    OBVIOUS
  <2>1. IsSet(s[m]) /\ IsSet(s[n])
    BY DEF SetsInv
  <2> QED BY <2>1, Compared, Tested DEF AnswersByWords
<1>2. Spec => []SetsInv
  BY InitSets, StepSets, PTL DEF Spec
<1> QED BY <1>1, <1>2, PTL
==============================================================================
