---------------------------- MODULE Occs_proofs -----------------------------
(***************************************************************************)
(* The actions of a parser made by occs see their symbols, for every       *)
(* grammar file and every stream of tokens.                                *)
(*                                                                         *)
(* ActionsSeeTheirSymbols says what is on top of the stacks.  It holds     *)
(* because of what lr() has made, so that the invariant, ByStage, goes     *)
(* back to the grammar file.  While it is read and after, the productions  *)
(* are made of symbols, and only the first is one of the goal (Reading,    *)
(* Ready); yypatch.c makes an action inside a nonterminal that stands in   *)
(* one place only (Patched).  The machine lr() works on is a right one at  *)
(* every step: an item in the kernel of a state has come there from one    *)
(* with the dot further to the left, over the symbol that leads there; a   *)
(* reduction is that of a complete item; and a state that is closed has    *)
(* somewhere to go on every nonterminal it closes over (Machine).  What a  *)
(* state closes over is the least set that do_close() cannot add to        *)
(* (Closure); the stages of lr() say how far it has come (Covers, Moving). *)
(* In the parser every state on the stack is where its symbol leads from   *)
(* the state below (Stacked), from which it follows, by induction on the   *)
(* dot, that an item in the kernel of the top has its symbols there.       *)
(***************************************************************************)
EXTENDS Occs, Grammar_proofs

-----------------------------------------------------------------------------
(* The actions are taken out, yypatch.c. *)

\* A production of symbols alone.
Words == (1 .. Len(terms)) \cup (MINNONTERM .. MINACT - 1)
IsRule(p) ==
  /\ p.lhs \in MINNONTERM .. MINACT - 1 /\ IsSeq(p.rhs)
  /\ \A i \in 1 .. Len(p.rhs) : p.rhs[i] \in Words

\* An action is done at the end of its own production, or by an empty production, not the
\* first, whose left-hand side is in one place only.
WhereFrom(n) ==
  LET d == does[n]
  IN /\ d.in \in 1 .. Len(prods) /\ d.size \in 0 .. Len(prods[d.in].rhs)
     /\ d.in = n => d.size = 0 \/ d.size = Len(prods[n].rhs)
     /\ d.in # n =>
          /\ n # 1 /\ Len(prods[n].rhs) = 0
          /\ \A m \in 1 .. Len(prods) : \A i \in 1 .. Len(prods[m].rhs) :
               prods[m].rhs[i] = prods[n].lhs => m = d.in /\ i = d.size + 1

Patched ==
  /\ file \in Files
  /\ IsSeq(prods) /\ \A n \in 1 .. Len(prods) : IsRule(prods[n]) /\ WhereFrom(n)
  /\ Len(prods) > 0 => prods[1].lhs = goal
  /\ Len(prods) = 0 => goal = NONE

\* The productions while the grammar is read, as yypatch.c finds them.
LEMMA ReadyProds ==
  ASSUME Ready
  PROVE  /\ IsSeq(prods) /\ Len(prods) \in Nat /\ DOMAIN prods = 1 .. Len(prods)
         /\ Len(nonterms) \in Nat /\ Len(terms) \in 0 .. MINNONTERM - 2
         /\ \A n \in 1 .. Len(prods) :
              /\ DOMAIN prods[n] = {"lhs", "rhs", "prec"}
              /\ prods[n].lhs \in NT(Len(nonterms)) /\ IsSeq(prods[n].rhs)
              /\ Len(prods[n].rhs) \in 0 .. MAXRHS /\ DOMAIN prods[n].rhs = 1 .. Len(prods[n].rhs)
              /\ \A i \in 1 .. Len(prods[n].rhs) : prods[n].rhs[i] \in Vocabulary(Len(nonterms))
<1>1. /\ IsSeq(prods) /\ IsSeq(nonterms) /\ file \in Files
      /\ \A n \in 1 .. Len(prods) : IsProduction(prods[n], Len(nonterms))
  BY DEF Ready, WellBuilt, Built
<1>2. /\ Len(prods) \in Nat /\ DOMAIN prods = 1 .. Len(prods) /\ Len(nonterms) \in Nat
      /\ Len(terms) \in 0 .. MINNONTERM - 2
  BY <1>1, SeqIs, TermsCount
<1>3. ASSUME NEW n \in 1 .. Len(prods)
      PROVE  /\ DOMAIN prods[n] = {"lhs", "rhs", "prec"}
             /\ prods[n].lhs \in NT(Len(nonterms)) /\ IsSeq(prods[n].rhs)
             /\ Len(prods[n].rhs) \in 0 .. MAXRHS
             /\ DOMAIN prods[n].rhs = 1 .. Len(prods[n].rhs)
             /\ \A i \in 1 .. Len(prods[n].rhs) : prods[n].rhs[i] \in Vocabulary(Len(nonterms))
  <2>1. IsProduction(prods[n], Len(nonterms))
    BY <1>1
  <2>2. IsSeq(prods[n].rhs)
    BY <2>1 DEF IsProduction
  <2>3. Len(prods[n].rhs) \in Nat /\ DOMAIN prods[n].rhs = 1 .. Len(prods[n].rhs)
    BY <2>2, SeqIs
  <2> QED BY <2>1, <2>2, <2>3, NumbersAssumption DEF IsProduction
<1> QED BY <1>1, <1>2, <1>3

\* The bucket of a production's left-hand side.
LEMMA BucketIs ==
  ASSUME Ready, NEW n \in 1 .. Len(prods)
  PROVE  Bucket(n) \in Int
<1>1. Len(nonterms) \in Nat /\ prods[n].lhs \in NT(Len(nonterms))
  BY ReadyProds
<1>2. prods[n].lhs \in Nonterms
  <2>1. PICK i : i = prods[n].lhs - MINNONTERM + 1
    OBVIOUS
  <2>2. i \in 1 .. Len(nonterms) /\ prods[n].lhs = Val(i)
    BY <1>1, <2>1, NumbersAssumption DEF NT, Val
  <2> QED BY <2>2 DEF Nonterms
<1>3. \E k \in DOMAIN order : order[k] = prods[n].lhs
  BY <1>2 DEF Ready
<1>4. Bucket(n) \in DOMAIN order
  BY <1>3 DEF Bucket
<1>5. DOMAIN order = 1 .. Len(order) /\ Len(order) \in Nat
  BY SeqIs DEF Ready
<1> QED BY <1>4, <1>5

\* The actions inside are numbered from 1, each its own number.
LEMMA InsideNumbers ==
  ASSUME Ready
  PROVE  /\ Cardinality(Inside) \in Nat
         /\ \A x \in Inside : Number(x) \in 1 .. Cardinality(Inside)
         /\ \A x, y \in Inside : x # y => Number(x) # Number(y)
         /\ \A k \in 1 .. Cardinality(Inside) : \E x \in Inside : Number(x) = k
<1>1. Len(prods) \in Nat /\ DOMAIN prods = 1 .. Len(prods)
  BY ReadyProds
<1>2. IsFiniteSet(Inside)
  <2>1. IsFiniteSet(1 .. Len(prods)) /\ IsFiniteSet(1 .. MAXRHS)
    BY <1>1, FS_Interval, NumbersAssumption
  <2>2. IsFiniteSet((1 .. Len(prods)) \X (1 .. MAXRHS))
    BY <2>1, FS_Product
  <2>3. Inside \subseteq (1 .. Len(prods)) \X (1 .. MAXRHS)
    BY <1>1 DEF Inside
  <2> QED BY <2>2, <2>3, FS_Subset
<1>3. \A x \in Inside : x = <<x[1], x[2]>> /\ x[1] \in 1 .. Len(prods) /\ x[1] \in Int /\ x[2] \in Int
  BY <1>1, NumbersAssumption DEF Inside
<1>4. \A x \in Inside : Bucket(x[1]) \in Int
  BY <1>3, BucketIs
<1> DEFINE R == {p \in Inside \X Inside : Met(p[1], p[2])}
<1>5. \A x, y \in Inside : <<x, y>> \in R <=> Met(x, y)
  OBVIOUS
<1>6. ASSUME NEW x \in Inside, NEW y \in Inside
      PROVE  Met(x, y) <=> \/ Bucket(x[1]) < Bucket(y[1])
                           \/ /\ Bucket(x[1]) = Bucket(y[1])
                              /\ x[1] > y[1] \/ (x[1] = y[1] /\ x[2] > y[2])
  BY DEF Met
<1> HIDE DEF R
<1>7. \A x \in Inside : <<x, x>> \notin R
  BY <1>3, <1>4, <1>5, <1>6
<1>8. \A x, y \in Inside : x # y => <<x, y>> \in R \/ <<y, x>> \in R
  <2> SUFFICES ASSUME NEW x \in Inside, NEW y \in Inside, x # y
               PROVE  Met(x, y) \/ Met(y, x)
    BY <1>5
  <2>1. x[1] # y[1] \/ x[2] # y[2]
    BY <1>3, Zenon
  <2> QED BY <1>3, <1>4, <1>6, <2>1
<1>9. \A x, y, z \in Inside : <<x, y>> \in R /\ <<y, z>> \in R => <<x, z>> \in R
  <2> SUFFICES ASSUME NEW x \in Inside, NEW y \in Inside, NEW z \in Inside, Met(x, y), Met(y, z)
               PROVE  Met(x, z)
    BY <1>5
  <2> QED BY <1>3, <1>4, <1>6
<1>10. \A x \in Inside : Number(x) = RankIn(Inside, R, x)
  <2> TAKE x \in Inside
  <2>1. {y \in Inside : <<y, x>> \in R} = {y \in Inside : Met(y, x)}
    BY <1>5
  <2> QED BY <2>1 DEF Number, RankIn
<1> QED BY <1>2, <1>7, <1>8, <1>9, <1>10, Ranked

\* An action that is not at the end is inside.
LEMMA InsideIs ==
  ASSUME Ready, NEW n \in 1 .. Len(prods), NEW i \in 1 .. Len(prods[n].rhs)
  PROVE  /\ EndsInAction(n) <=> Len(prods[n].rhs) > 0 /\ ISACT(prods[n].rhs[Len(prods[n].rhs)])
         /\ ISACT(prods[n].rhs[i]) /\ i < Len(prods[n].rhs) => <<n, i>> \in Inside
<1>1. /\ DOMAIN prods = 1 .. Len(prods) /\ IsSeq(prods[n].rhs)
      /\ Len(prods[n].rhs) \in 0 .. MAXRHS /\ MAXRHS \in Nat
  BY ReadyProds, NumbersAssumption
<1>2. prods[n].rhs # <<>> <=> Len(prods[n].rhs) > 0
  BY <1>1, SeqIs
<1>3. EndsInAction(n) <=> Len(prods[n].rhs) > 0 /\ ISACT(prods[n].rhs[Len(prods[n].rhs)])
  BY <1>2 DEF EndsInAction, Last
<1>4. ASSUME ISACT(prods[n].rhs[i]), i < Len(prods[n].rhs) PROVE <<n, i>> \in Inside
  <2>1. n \in DOMAIN prods /\ i \in 1 .. MAXRHS
    BY <1>1
  <2> QED BY <1>4, <2>1 DEF Inside
<1> QED BY <1>3, <1>4

\* What is left of a right-hand side without the action at its end.
Cut(n) == IF EndsInAction(n) THEN Front(prods[n].rhs) ELSE prods[n].rhs
LEMMA CutIs ==
  ASSUME Ready, NEW n \in 1 .. Len(prods), NEW c, c = Cut(n)
  PROVE  /\ Len(c) \in Nat /\ DOMAIN c = 1 .. Len(c)
         /\ EndsInAction(n) => Len(c) = Len(prods[n].rhs) - 1
         /\ ~EndsInAction(n) => Len(c) = Len(prods[n].rhs)
         /\ \A i \in 1 .. Len(c) :
              /\ i \in 1 .. Len(prods[n].rhs) /\ c[i] = prods[n].rhs[i]
              /\ c[i] \in Vocabulary(Len(nonterms))
              /\ ISACT(c[i]) => <<n, i>> \in Inside
<1>1. /\ IsSeq(prods[n].rhs) /\ Len(prods[n].rhs) \in Nat
      /\ DOMAIN prods[n].rhs = 1 .. Len(prods[n].rhs)
      /\ \A i \in 1 .. Len(prods[n].rhs) : prods[n].rhs[i] \in Vocabulary(Len(nonterms))
  BY ReadyProds
<1>2. CASE EndsInAction(n)
  <2>1. prods[n].rhs # <<>> /\ c = SubSeq(prods[n].rhs, 1, Len(prods[n].rhs) - 1)
    BY <1>2 DEF EndsInAction, Front, Cut
  <2>2. Len(prods[n].rhs) > 0
    BY <1>1, <2>1, SeqIs
  <2>3. PICK S : prods[n].rhs \in Seq(S)
    BY <1>1 DEF IsSeq
  <2>4. /\ Len(c) = Len(prods[n].rhs) - 1 /\ DOMAIN c = 1 .. Len(c)
        /\ \A i \in 1 .. Len(c) : c[i] = prods[n].rhs[i]
    BY <1>1, <2>1, <2>2, <2>3
  <2>5. \A i \in 1 .. Len(c) : i \in 1 .. Len(prods[n].rhs) /\ i < Len(prods[n].rhs)
    BY <1>1, <2>4
  <2>6. \A i \in 1 .. Len(c) : ISACT(c[i]) => <<n, i>> \in Inside
    BY <2>4, <2>5, InsideIs
  <2> QED BY <1>1, <1>2, <2>2, <2>4, <2>5, <2>6
<1>3. CASE ~EndsInAction(n)
  <2>1. c = prods[n].rhs
    BY <1>3 DEF Cut
  <2>2. ASSUME NEW i \in 1 .. Len(c), ISACT(c[i]) PROVE <<n, i>> \in Inside
    <3>1. i # Len(prods[n].rhs)
      <4>1. /\ Len(prods[n].rhs) > 0
            /\ EndsInAction(n) <=> /\ Len(prods[n].rhs) > 0
                                  /\ ISACT(prods[n].rhs[Len(prods[n].rhs)])
        <5>1. i \in 1 .. Len(prods[n].rhs)
          BY <2>1
        <5>2. Len(prods[n].rhs) > 0
          BY <1>1, <5>1
        <5> QED BY <5>1, <5>2, InsideIs
      <4> QED BY <1>3, <2>1, <2>2, <4>1
    <3>2. i < Len(prods[n].rhs)
      BY <1>1, <2>1, <3>1
    <3> QED BY <2>1, <2>2, <3>2, InsideIs
  <2> QED BY <1>1, <1>3, <2>1, <2>2
<1> QED BY <1>2, <1>3

\* The right-hand side that is made of it, and where the new nonterminals come from.
Remade(n) ==
  LET rhs == Cut(n)
  IN [i \in DOMAIN rhs |-> IF ISACT(rhs[i]) THEN Val(Len(nonterms) + Number(<<n, i>>))
                           ELSE rhs[i]]
Origin(k) == CHOOSE x \in Inside : Number(x) = k

\* What patch makes, one by one.
PatchMade ==
  LET K == Cardinality(Inside)
  IN /\ IsSeq(prods') /\ Len(prods') = Len(prods) + K
     /\ \A n \in 1 .. Len(prods) :
          /\ prods'[n].lhs = prods[n].lhs /\ prods'[n].rhs = Remade(n)
          /\ does'[n] = IF EndsInAction(n) THEN Does(n, Len(prods[n].rhs))
                        ELSE [act |-> NONE, in |-> n, size |-> 0]
     /\ \A k \in 1 .. K :
          /\ prods'[Len(prods) + k].lhs = Val(Len(nonterms) + k)
          /\ prods'[Len(prods) + k].rhs = <<>>
          /\ does'[Len(prods) + k] = Does(Origin(k)[1], Origin(k)[2])

\* patch as an assignment of what PatchMade names (yypatch.c:92-145).
LEMMA PatchIs ==
  ASSUME Ready, patch, at' # "fatal"
  PROVE  /\ at' = "patched" /\ file' = file /\ goal' = goal
         /\ Len(nonterms) + Cardinality(Inside) <= MINACT - MINNONTERM
         /\ PatchMade
<1>1. /\ Len(prods) \in Nat /\ DOMAIN prods = 1 .. Len(prods) /\ Len(nonterms) \in Nat
      /\ \A n \in 1 .. Len(prods) : DOMAIN prods[n] = {"lhs", "rhs", "prec"}
  BY ReadyProds
<1>2. PICK K \in Nat : K = Cardinality(Inside)
  BY InsideNumbers
<1> DEFINE inner == [k \in 1 .. Cardinality(Inside) |-> CHOOSE x \in Inside : Number(x) = k]
           patched(n) ==
             LET rhs == IF EndsInAction(n) THEN Front(prods[n].rhs) ELSE prods[n].rhs
             IN [i \in DOMAIN rhs |-> IF ISACT(rhs[i]) THEN Val(Len(nonterms) + Number(<<n, i>>))
                                      ELSE rhs[i]]
           done(n) == IF EndsInAction(n) THEN Does(n, Len(prods[n].rhs))
                      ELSE [act |-> NONE, in |-> n, size |-> 0]
<1>4. inner = [k \in 1 .. K |-> Origin(k)]
  BY <1>2, Zenon DEF Origin
<1>5. /\ ~(Len(nonterms) + Len(inner) > MINACT - MINNONTERM)
      /\ prods' = [n \in DOMAIN prods |-> [prods[n] EXCEPT !.rhs = patched(n)]]
                  \o [k \in DOMAIN inner |->
                        [lhs |-> Val(Len(nonterms) + k), rhs |-> <<>>, prec |-> 0]]
      /\ does' = [n \in DOMAIN prods |-> done(n)]
                 \o [k \in DOMAIN inner |-> Does(inner[k][1], inner[k][2])]
      /\ at' = "patched" /\ file' = file /\ goal' = goal
  <2>1. ~(Len(nonterms) + Len(inner) > MINACT - MINNONTERM)
    BY Zenon DEF patch
  <2>2. prods' = [n \in DOMAIN prods |-> [prods[n] EXCEPT !.rhs = patched(n)]]
                   \o [k \in DOMAIN inner |->
                         [lhs |-> Val(Len(nonterms) + k), rhs |-> <<>>, prec |-> 0]]
    BY <2>1, Zenon DEF patch
  <2>3. does' = [n \in DOMAIN prods |-> done(n)]
                  \o [k \in DOMAIN inner |-> Does(inner[k][1], inner[k][2])]
    BY <2>1, Zenon DEF patch
  <2>4. at' = "patched" /\ file' = file /\ goal' = goal
    BY <2>1, Zenon DEF patch
  <2> QED BY <2>1, <2>2, <2>3, <2>4
<1>6. \A n : patched(n) = Remade(n)
  BY Zenon DEF Remade, Cut
<1>7. \A n : done(n) = IF EndsInAction(n) THEN Does(n, Len(prods[n].rhs))
                       ELSE [act |-> NONE, in |-> n, size |-> 0]
  OBVIOUS
<1> HIDE DEF inner, patched, done
<1>8. DOMAIN inner = 1 .. K /\ Len(inner) = K
  <2>1. inner = [k \in 1 .. K |-> inner[k]] /\ DOMAIN inner = 1 .. K
    BY <1>4
  <2> QED BY <2>1, SeqFunction
<1>9. PICK A : A = [n \in DOMAIN prods |-> [prods[n] EXCEPT !.rhs = patched(n)]]
  OBVIOUS
<1>10. PICK B : B = [k \in DOMAIN inner |->
                      [lhs |-> Val(Len(nonterms) + k), rhs |-> <<>>, prec |-> 0]]
  OBVIOUS
<1>11. PICK C : C = [n \in DOMAIN prods |-> done(n)]
  OBVIOUS
<1>12. PICK D : D = [k \in DOMAIN inner |-> Does(inner[k][1], inner[k][2])]
  OBVIOUS
<1>13. prods' = A \o B /\ does' = C \o D
  BY <1>5, <1>9, <1>10, <1>11, <1>12, Zenon
<1>14. IsSeq(A) /\ Len(A) = Len(prods) /\ IsSeq(C) /\ Len(C) = Len(prods)
  <2>1. A = [n \in 1 .. Len(prods) |-> A[n]] /\ C = [n \in 1 .. Len(prods) |-> C[n]]
    BY <1>1, <1>9, <1>11
  <2> QED BY <1>1, <2>1, SeqFunction
<1>15. IsSeq(B) /\ Len(B) = K /\ IsSeq(D) /\ Len(D) = K
  <2>1. B = [k \in 1 .. K |-> B[k]] /\ D = [k \in 1 .. K |-> D[k]]
    BY <1>8, <1>10, <1>12
  <2> QED BY <1>2, <2>1, SeqFunction
<1>16. ASSUME NEW n \in 1 .. Len(prods)
       PROVE  A[n].lhs = prods[n].lhs /\ A[n].rhs = Remade(n) /\ C[n] = done(n)
  BY <1>1, <1>6, <1>9, <1>11
<1>17. ASSUME NEW k \in 1 .. K
       PROVE  /\ B[k].lhs = Val(Len(nonterms) + k) /\ B[k].rhs = <<>>
              /\ D[k] = Does(Origin(k)[1], Origin(k)[2])
  <2>1. D[k] = Does(inner[k][1], inner[k][2])
    BY <1>8, <1>12
  <2>2. B[k] = [lhs |-> Val(Len(nonterms) + k), rhs |-> <<>>, prec |-> 0]
    BY <1>8, <1>10
  <2> QED BY <1>4, <2>1, <2>2
<1>18. /\ IsSeq(prods') /\ Len(prods') = Len(prods) + K
       /\ \A n \in 1 .. Len(prods) : prods'[n] = A[n]
       /\ \A k \in 1 .. K : prods'[Len(prods) + k] = B[k]
  <2>1. /\ IsSeq(A \o B) /\ Len(A \o B) = Len(A) + Len(B)
        /\ \A n \in 1 .. Len(A) : (A \o B)[n] = A[n]
        /\ \A k \in 1 .. Len(B) : (A \o B)[Len(A) + k] = B[k]
    <3>1. IsSeq(A) /\ IsSeq(B)
      BY <1>14, <1>15
    <3> QED BY <3>1, SeqConcat
  <2> QED BY <1>13, <1>14, <1>15, <2>1
<1>19. /\ \A n \in 1 .. Len(prods) : does'[n] = C[n]
       /\ \A k \in 1 .. K : does'[Len(prods) + k] = D[k]
  <2>1. /\ \A n \in 1 .. Len(C) : (C \o D)[n] = C[n]
        /\ \A k \in 1 .. Len(D) : (C \o D)[Len(C) + k] = D[k]
    <3>1. IsSeq(C) /\ IsSeq(D)
      BY <1>14, <1>15
    <3> QED BY <3>1, SeqConcat
  <2> QED BY <1>13, <1>14, <1>15, <2>1
<1>20. Len(nonterms) + K <= MINACT - MINNONTERM
  BY <1>1, <1>2, <1>5, <1>8, NumbersAssumption
<1>21. PatchMade
  <2>1. ASSUME NEW n \in 1 .. Len(prods)
        PROVE  /\ prods'[n].lhs = prods[n].lhs /\ prods'[n].rhs = Remade(n)
               /\ does'[n] = IF EndsInAction(n) THEN Does(n, Len(prods[n].rhs))
                             ELSE [act |-> NONE, in |-> n, size |-> 0]
    <3>1. prods'[n] = A[n] /\ does'[n] = C[n]
      BY <1>18, <1>19, Zenon
    <3> QED BY <1>7, <1>16, <3>1, Zenon
  <2>2. ASSUME NEW k \in 1 .. K
        PROVE  /\ prods'[Len(prods) + k].lhs = Val(Len(nonterms) + k)
               /\ prods'[Len(prods) + k].rhs = <<>>
               /\ does'[Len(prods) + k] = Does(Origin(k)[1], Origin(k)[2])
    <3>1. prods'[Len(prods) + k] = B[k] /\ does'[Len(prods) + k] = D[k]
      BY <1>18, <1>19, Zenon
    <3> QED BY <1>17, <3>1, Zenon
  <2> QED BY <1>2, <1>18, <2>1, <2>2, Zenon DEF PatchMade
<1> QED BY <1>2, <1>5, <1>20, <1>21

\* A right-hand side remade: where a nonterminal of an action inside is, that action was.
LEMMA RemadeIs ==
  ASSUME Ready, Len(nonterms) + Cardinality(Inside) <= MINACT - MINNONTERM,
         NEW n \in 1 .. Len(prods), NEW r, r = Remade(n)
  PROVE  /\ IsSeq(r) /\ Len(r) \in Nat
         /\ EndsInAction(n) => Len(r) = Len(prods[n].rhs) - 1
         /\ ~EndsInAction(n) => Len(r) = Len(prods[n].rhs)
         /\ \A i \in 1 .. Len(r) :
              /\ r[i] \in Words /\ i \in 1 .. Len(prods[n].rhs)
              /\ ISACT(prods[n].rhs[i]) => <<n, i>> \in Inside
              /\ \A k \in 1 .. Cardinality(Inside) :
                   r[i] = Val(Len(nonterms) + k) =>
                     <<n, i>> \in Inside /\ Number(<<n, i>>) = k
<1>1. PICK c : c = Cut(n)
  OBVIOUS
<1>2. /\ Len(c) \in Nat /\ DOMAIN c = 1 .. Len(c)
      /\ EndsInAction(n) => Len(c) = Len(prods[n].rhs) - 1
      /\ ~EndsInAction(n) => Len(c) = Len(prods[n].rhs)
      /\ \A i \in 1 .. Len(c) :
           /\ i \in 1 .. Len(prods[n].rhs) /\ c[i] = prods[n].rhs[i]
           /\ c[i] \in Vocabulary(Len(nonterms))
           /\ ISACT(c[i]) => <<n, i>> \in Inside
  BY <1>1, CutIs
<1>3. r = [i \in 1 .. Len(c) |-> IF ISACT(c[i]) THEN Val(Len(nonterms) + Number(<<n, i>>))
                                 ELSE c[i]]
  BY <1>1, <1>2, Zenon DEF Remade
<1>4. IsSeq(r) /\ Len(r) = Len(c)
  <2>1. r = [i \in 1 .. Len(c) |-> r[i]]
    BY <1>3
  <2> QED BY <1>2, <2>1, SeqFunction
<1>5. PICK L \in Nat : L = Len(nonterms)
  BY ReadyProds
<1>6. PICK K \in Nat : K = Cardinality(Inside)
  BY InsideNumbers
<1>7. Len(terms) \in 0 .. MINNONTERM - 2 /\ L + K <= MINACT - MINNONTERM
  BY <1>5, <1>6, ReadyProds
<1>8. ASSUME NEW i \in 1 .. Len(r)
      PROVE  /\ r[i] \in Words /\ i \in 1 .. Len(prods[n].rhs)
             /\ ISACT(prods[n].rhs[i]) => <<n, i>> \in Inside
             /\ \A k \in 1 .. K :
                  r[i] = Val(L + k) => <<n, i>> \in Inside /\ Number(<<n, i>>) = k
  <2>1. /\ i \in 1 .. Len(prods[n].rhs) /\ c[i] = prods[n].rhs[i]
        /\ c[i] \in Vocabulary(L)
        /\ ISACT(c[i]) => <<n, i>> \in Inside
    BY <1>2, <1>4, <1>5
  <2>2. r[i] = IF ISACT(c[i]) THEN Val(L + Number(<<n, i>>)) ELSE c[i]
    BY <1>3, <1>4, <1>5
  <2>3. CASE ISACT(c[i])
    <3>1. PICK m \in 1 .. K : m = Number(<<n, i>>)
      BY <1>6, <2>1, <2>3, InsideNumbers
    <3>2. r[i] = MINNONTERM - 1 + L + m
      BY <2>2, <2>3, <3>1, NumbersAssumption DEF Val
    <3>3. r[i] \in Words
      BY <1>7, <3>2, NumbersAssumption DEF Words
    <3>4. \A k \in 1 .. K : r[i] = Val(L + k) => m = k
      BY <3>2, NumbersAssumption DEF Val
    <3> QED BY <2>1, <2>3, <3>1, <3>3, <3>4
  <2>4. CASE ~ISACT(c[i])
    <3>1. r[i] = c[i]
      BY <2>2, <2>4
    <3>2. c[i] \in 1 .. Len(terms) \/ c[i] \in MINNONTERM .. MINNONTERM + L - 1
      BY <2>1, <2>4 DEF Vocabulary, NT, ISACT
    <3>3. c[i] \in Words
      BY <1>7, <3>2, NumbersAssumption DEF Words
    <3>4. \A k \in 1 .. K : c[i] # Val(L + k)
      BY <1>7, <3>2, NumbersAssumption DEF Val
    <3> QED BY <2>1, <2>4, <3>1, <3>3, <3>4
  <2> QED BY <2>3, <2>4
<1> QED BY <1>2, <1>4, <1>5, <1>6, <1>8

\* The place an action inside comes from.
LEMMA OriginIs ==
  ASSUME Ready, NEW k \in 1 .. Cardinality(Inside), NEW o, o = Origin(k)
  PROVE  /\ o \in Inside /\ Number(o) = k /\ o = <<o[1], o[2]>>
         /\ o[1] \in 1 .. Len(prods) /\ o[2] \in Nat /\ o[2] > 0
         /\ o[2] < Len(prods[o[1]].rhs)
<1>1. o \in Inside /\ Number(o) = k
  BY InsideNumbers DEF Origin
<1>2. DOMAIN prods = 1 .. Len(prods)
  BY ReadyProds
<1> QED BY <1>1, <1>2, NumbersAssumption DEF Inside

\* Nothing but the file and the grammar is in it.
LEMMA SameRules ==
  ASSUME file' = file
  PROVE  Words' = Words /\ \A p : IsRule(p)' <=> IsRule(p)
BY DEF Words, IsRule, terms

\* After yypatch.c the productions are of symbols, and an action sees as many of them as
\* there were to its left.
LEMMA PatchStep ==
  ASSUME Ready, patch
  PROVE  at' = "fatal" \/ (at' = "patched" /\ Patched')
<1> SUFFICES ASSUME at' # "fatal" PROVE at' = "patched" /\ Patched'
  OBVIOUS
<1>1. /\ at' = "patched" /\ file' = file /\ goal' = goal /\ PatchMade
      /\ Len(nonterms) + Cardinality(Inside) <= MINACT - MINNONTERM
  BY PatchIs
<1>2. PICK N \in Nat : N = Len(prods)
  BY ReadyProds
<1>3. PICK L \in Nat : L = Len(nonterms)
  BY ReadyProds
<1>4. PICK K \in Nat : K = Cardinality(Inside)
  BY InsideNumbers
<1>5. /\ IsSeq(prods') /\ Len(prods') = N + K
      /\ \A n \in 1 .. N :
           /\ prods'[n].lhs = prods[n].lhs /\ prods'[n].rhs = Remade(n)
           /\ does'[n] = IF EndsInAction(n) THEN Does(n, Len(prods[n].rhs))
                         ELSE [act |-> NONE, in |-> n, size |-> 0]
      /\ \A k \in 1 .. K :
           /\ prods'[N + k].lhs = Val(L + k)
           /\ prods'[N + k].rhs = <<>>
           /\ does'[N + k] = Does(Origin(k)[1], Origin(k)[2])
  BY <1>1, <1>2, <1>3, <1>4 DEF PatchMade
<1>6. L + K <= MINACT - MINNONTERM
  BY <1>1, <1>3, <1>4
<1>7. ASSUME NEW n \in 1 .. N
      PROVE  /\ prods[n].lhs \in MINNONTERM .. MINNONTERM + L - 1
             /\ IsSeq(prods'[n].rhs) /\ Len(prods'[n].rhs) \in Nat
             /\ EndsInAction(n) => Len(prods'[n].rhs) = Len(prods[n].rhs) - 1
             /\ ~EndsInAction(n) => Len(prods'[n].rhs) = Len(prods[n].rhs)
             /\ Len(prods[n].rhs) \in Nat
  <2>1. prods'[n].rhs = Remade(n)
    BY <1>5
  <2>2. PICK r : r = Remade(n)
    OBVIOUS
  <2>3. /\ IsSeq(r) /\ Len(r) \in Nat
        /\ EndsInAction(n) => Len(r) = Len(prods[n].rhs) - 1
        /\ ~EndsInAction(n) => Len(r) = Len(prods[n].rhs)
    BY <1>1, <1>2, <2>2, RemadeIs
  <2>4. prods[n].lhs \in MINNONTERM .. MINNONTERM + L - 1 /\ Len(prods[n].rhs) \in Nat
    BY <1>2, <1>3, ReadyProds DEF NT
  <2> QED BY <2>1, <2>2, <2>3, <2>4
<1>8. ASSUME NEW n \in 1 .. N, NEW i \in 1 .. Len(prods'[n].rhs)
      PROVE  /\ prods'[n].rhs[i] \in Words
             /\ \A k \in 1 .. K : prods'[n].rhs[i] = Val(L + k) =>
                  <<n, i>> \in Inside /\ Number(<<n, i>>) = k
  <2>1. PICK r : r = Remade(n)
    OBVIOUS
  <2>2. prods'[n].rhs = r
    BY <1>5, <2>1
  <2> QED BY <1>1, <1>2, <1>3, <1>4, <1>8, <2>1, <2>2, RemadeIs
<1>9. \A m \in 1 .. Len(prods') : m \in 1 .. N \/ \E k \in 1 .. K : m = N + k
  <2> TAKE m \in 1 .. Len(prods')
  <2>1. m \notin 1 .. N => m - N \in 1 .. K /\ m = N + (m - N)
    BY <1>5
  <2> QED BY <2>1
<1>10. Len(<<>>) = 0 /\ IsSeq(<<>>)
  <2>1. <<>> \in Seq({})
    OBVIOUS
  <2> QED BY <2>1 DEF IsSeq
<1>11. ASSUME NEW m \in 1 .. Len(prods') PROVE IsRule(prods'[m])
  <2>1. CASE m \in 1 .. N
    <3>1. prods'[m].lhs \in MINNONTERM .. MINACT - 1
      <4>1. prods[m].lhs \in MINNONTERM .. MINNONTERM + L - 1 /\ prods'[m].lhs = prods[m].lhs
        BY <1>5, <1>7, <2>1
      <4> QED BY <1>6, <4>1, NumbersAssumption
    <3> QED BY <1>7, <1>8, <2>1, <3>1 DEF IsRule
  <2>2. CASE m \notin 1 .. N
    <3>1. PICK k \in 1 .. K : m = N + k
      BY <1>9, <2>2
    <3>2. prods'[m].lhs = Val(L + k) /\ prods'[m].rhs = <<>>
      BY <1>5, <3>1
    <3>3. prods'[m].lhs \in MINNONTERM .. MINACT - 1
      BY <1>6, <3>2, NumbersAssumption DEF Val
    <3> QED BY <1>10, <3>2, <3>3 DEF IsRule
  <2> QED BY <2>1, <2>2
<1>12. ASSUME NEW n \in 1 .. N PROVE WhereFrom(n)'
  <2>1. does'[n] = IF EndsInAction(n) THEN Does(n, Len(prods[n].rhs))
                   ELSE [act |-> NONE, in |-> n, size |-> 0]
    BY <1>5
  <2>2. PICK d : d = does'[n]
    OBVIOUS
  <2>3. d.in = n /\ (d.size = 0 \/ d.size = Len(prods'[n].rhs)) /\ Len(prods'[n].rhs) \in Nat
    <3>1. CASE EndsInAction(n)
      <4>1. d = [act |-> prods[n].rhs[Len(prods[n].rhs)], in |-> n, size |-> Len(prods[n].rhs) - 1]
        BY <2>1, <2>2, <3>1 DEF Does
      <4> QED BY <1>7, <3>1, <4>1
    <3>2. CASE ~EndsInAction(n)
      BY <1>7, <2>1, <2>2, <3>2
    <3> QED BY <3>1, <3>2
  <2>4. n \in 1 .. Len(prods')
    BY <1>5
  <2>5. d.size \in 0 .. Len(prods'[n].rhs)
    BY <2>3
  <2> QED BY <2>2, <2>3, <2>4, <2>5 DEF WhereFrom
<1>13. ASSUME NEW k \in 1 .. K PROVE WhereFrom(N + k)'
  <2>1. PICK o : o = Origin(k)
    OBVIOUS
  <2>2. /\ o \in Inside /\ Number(o) = k /\ o = <<o[1], o[2]>>
        /\ o[1] \in 1 .. N /\ o[2] \in Nat /\ o[2] > 0
        /\ o[2] < Len(prods[o[1]].rhs)
    BY <1>2, <1>4, <2>1, OriginIs
  <2>3. PICK d : d = does'[N + k]
    OBVIOUS
  <2>4. d.in = o[1] /\ d.size = o[2] - 1
    <3>1. d = Does(o[1], o[2])
      BY <1>5, <2>1, <2>3
    <3> QED BY <3>1 DEF Does
  <2>5. prods'[N + k].rhs = <<>> /\ prods'[N + k].lhs = Val(L + k)
    BY <1>5
  <2>6. d.in \in 1 .. Len(prods') /\ d.in # N + k /\ N + k # 1
    BY <1>5, <2>2, <2>4
  <2>7. d.size \in 0 .. Len(prods'[d.in].rhs)
    <3>1. Len(prods'[o[1]].rhs) >= Len(prods[o[1]].rhs) - 1
      BY <1>7, <2>2
    <3>2. PICK a : a = Len(prods'[o[1]].rhs)
      OBVIOUS
    <3>3. PICK b : b = Len(prods[o[1]].rhs)
      OBVIOUS
    <3>6. PICK c : c = o[2]
      OBVIOUS
    <3>4. a \in Nat /\ b \in Nat /\ a >= b - 1
      BY <1>7, <2>2, <3>1, <3>2, <3>3
    <3>7. c \in Nat /\ c > 0 /\ c < b /\ d.size = c - 1
      BY <2>2, <2>4, <3>3, <3>6, Zenon
    <3>5. d.size \in 0 .. a
      BY <3>4, <3>7
    <3> QED BY <2>4, <3>2, <3>5, Zenon
  <2>8. ASSUME NEW m \in 1 .. Len(prods'), NEW i \in 1 .. Len(prods'[m].rhs),
               prods'[m].rhs[i] = prods'[N + k].lhs
        PROVE  m = d.in /\ i = d.size + 1
    <3>1. m \in 1 .. N
      <4>1. SUFFICES ASSUME NEW j \in 1 .. K, m = N + j PROVE FALSE
        BY <1>9
      <4>2. Len(prods'[m].rhs) = 0
        BY <1>5, <1>10, <4>1
      <4> QED BY <4>2
    <3>2. <<m, i>> \in Inside /\ Number(<<m, i>>) = k
      BY <1>8, <2>5, <2>8, <3>1
    <3>3. <<m, i>> = o
      BY <2>2, <3>2, InsideNumbers
    <3>4. m = o[1] /\ i = o[2]
      BY <3>3
    <3> QED BY <2>2, <2>4, <3>4
  <2> QED BY <1>10, <2>3, <2>5, <2>6, <2>7, <2>8 DEF WhereFrom
<1>14. \A m \in 1 .. Len(prods') : WhereFrom(m)'
  BY <1>9, <1>12, <1>13
<1>15. Len(prods') > 0 => prods'[1].lhs = goal'
  <2> SUFFICES ASSUME Len(prods') > 0 PROVE prods'[1].lhs = goal'
    OBVIOUS
  <2>1. N > 0
    <3> SUFFICES ASSUME N = 0 PROVE FALSE
      OBVIOUS
    <3>1. 1 \in 1 .. K
      BY <1>5
    <3>2. Origin(1)[1] \in 1 .. N
      BY <1>2, <1>4, <3>1, OriginIs
    <3> QED BY <3>2
  <2>2. prods[1].lhs = goal
    BY <1>2, <2>1 DEF Ready, WellBuilt, Built
  <2>3. prods'[1].lhs = prods[1].lhs
    <3>1. 1 \in 1 .. N
      BY <2>1
    <3> QED BY <1>5, <3>1
  <2>4. goal' = goal
    BY <1>1
  <2> QED BY <2>2, <2>3, <2>4
<1>16. Len(prods') = 0 => goal' = NONE
  <2>1. Len(prods') = 0 => N = 0
    BY <1>5
  <2> QED BY <1>1, <1>2, <2>1 DEF Ready
<1>17. ASSUME NEW m \in 1 .. Len(prods') PROVE IsRule(prods[m])'
  <2>1. PICK p : p = prods'[m]
    OBVIOUS
  <2>2. IsRule(p)'
    <3>1. IsRule(p)
      BY <1>11, <2>1
    <3> QED BY <1>1, <3>1, SameRules
  <2> QED BY <2>1, <2>2 DEF IsRule
<1>18. file' \in Files
  BY <1>1 DEF Ready
<1> QED BY <1>1, <1>5, <1>14, <1>15, <1>16, <1>17, <1>18 DEF Patched

-----------------------------------------------------------------------------
(* Cores: items without their lookaheads, and what a state closes over. *)

\* The symbol right of the dot of a core <<production, dot>>, 0 at the end.
Ahead(c) ==
  LET rhs == prods[c[1]].rhs IN IF c[2] < Len(rhs) THEN rhs[c[2] + 1] ELSE 0
IsCore(c) == c[1] \in 1 .. Len(prods) /\ c[2] \in 0 .. Len(prods[c[1]].rhs) /\ c = <<c[1], c[2]>>

\* Productions that come in with the symbols right of the dot in C and of their own.
IsClosed(C, T) ==
  \A n \in 1 .. Len(prods) :
    (\E c \in C : Ahead(c) = prods[n].lhs) \/ (\E m \in T : Ahead(<<m, 0>>) = prods[n].lhs)
      => n \in T
\* The least such set.
Closure(C) ==
  {n \in 1 .. Len(prods) : \A T \in SUBSET (1 .. Len(prods)) : IsClosed(C, T) => n \in T}

\* What a set of cores closes over is closed itself.
LEMMA ClosureIsClosed == \A C : IsClosed(C, Closure(C))
<1> SUFFICES ASSUME NEW C, NEW n \in 1 .. Len(prods),
                    \/ \E c \in C : Ahead(c) = prods[n].lhs
                    \/ \E m \in Closure(C) : Ahead(<<m, 0>>) = prods[n].lhs,
                    NEW T \in SUBSET (1 .. Len(prods)), IsClosed(C, T)
             PROVE  n \in T
  BY DEF IsClosed, Closure
<1>1. CASE \E c \in C : Ahead(c) = prods[n].lhs
  BY <1>1 DEF IsClosed
<1>2. CASE \E m \in Closure(C) : Ahead(<<m, 0>>) = prods[n].lhs
  <2>1. PICK m \in Closure(C) : Ahead(<<m, 0>>) = prods[n].lhs
    BY <1>2
  <2>2. m \in T
    BY <2>1 DEF Closure
  <2> QED BY <2>1, <2>2 DEF IsClosed
<1> QED BY <1>1, <1>2

\* And in every closed set.
LEMMA ClosureIsLeast ==
  ASSUME NEW C, NEW T \in SUBSET (1 .. Len(prods)), IsClosed(C, T)
  PROVE  Closure(C) \subseteq T
BY DEF Closure

\* A production is there because something goes on with its left-hand side.
LEMMA ClosureHasReason ==
  ASSUME NEW C, NEW n \in Closure(C)
  PROVE  \/ \E c \in C : Ahead(c) = prods[n].lhs
         \/ \E m \in Closure(C) : Ahead(<<m, 0>>) = prods[n].lhs
<1>1. PICK T : T = {k \in Closure(C) : \/ \E c \in C : Ahead(c) = prods[k].lhs
                                      \/ \E m \in Closure(C) : Ahead(<<m, 0>>) = prods[k].lhs}
  OBVIOUS
<1>2. T \in SUBSET (1 .. Len(prods)) /\ T \subseteq Closure(C)
  BY <1>1 DEF Closure
<1>3. IsClosed(C, T)
  <2> SUFFICES ASSUME NEW k \in 1 .. Len(prods),
                      \/ \E c \in C : Ahead(c) = prods[k].lhs
                      \/ \E m \in T : Ahead(<<m, 0>>) = prods[k].lhs
               PROVE  k \in T
    BY DEF IsClosed
  <2>1. \/ \E c \in C : Ahead(c) = prods[k].lhs
        \/ \E m \in Closure(C) : Ahead(<<m, 0>>) = prods[k].lhs
    BY <1>2
  <2>2. k \in Closure(C)
    BY <2>1, ClosureIsClosed DEF IsClosed
  <2> QED BY <1>1, <2>1, <2>2
<1>4. n \in T
  BY <1>2, <1>3, ClosureIsLeast
<1> QED BY <1>1, <1>4

-----------------------------------------------------------------------------
(* What the loops of yystate.c over its items leave. *)

\* The sort is one: nothing is lost and nothing comes in.
Sortable(seq) ==
  \A i \in 1 .. Len(seq) :
    right_of_dot(seq[i]) \in Int /\ seq[i].prod \in Int /\ seq[i].dot \in Int
SameElements(r, seq) ==
  /\ IsSeq(r) /\ Len(r) = Len(seq)
  /\ \A j \in 1 .. Len(r) : \E i \in 1 .. Len(seq) : r[j] = seq[i]
  /\ \A i \in 1 .. Len(seq) : \E j \in 1 .. Len(r) : r[j] = seq[i]
LEMMA SortedIs ==
  ASSUME NEW seq, IsSeq(seq), Sortable(seq), NEW stay \in BOOLEAN, NEW r,
         r = Sorted(seq, stay)
  PROVE  SameElements(r, seq)
<1>1. Len(seq) \in Nat /\ DOMAIN seq = 1 .. Len(seq)
  BY SeqIs
<1>2. PICK S : S = 1 .. Len(seq)
  OBVIOUS
<1>3. PICK R : R = {p \in S \X S : Precedes(seq, stay, p[1], p[2])}
  OBVIOUS
<1>4. PICK a : a = [i \in S |-> right_of_dot(seq[i])]
  OBVIOUS
<1>5. PICK b : b = [i \in S |-> seq[i].prod]
  OBVIOUS
<1>6. PICK c : c = [i \in S |-> seq[i].dot]
  OBVIOUS
<1>21. PICK d : d = [i \in S |-> Tie(stay, i)]
  OBVIOUS
<1>22. ASSUME NEW i \in S PROVE d[i] = Tie(stay, i) /\ (d[i] = i \/ d[i] = -i)
  BY <1>21, Zenon DEF Tie
<1>23. /\ \A i \in S : d[i] \in Int
       /\ \A i, j \in S : i # j => d[i] # d[j]
  <2>1. \A i \in S : i \in Int
    BY <1>1, <1>2
  <2>2. (\A i \in S : d[i] = i) \/ (\A i \in S : d[i] = -i)
    BY <1>22, Zenon DEF Tie
  <2> QED BY <2>1, <2>2
<1>7. \A i \in S : a[i] \in Int /\ b[i] \in Int /\ c[i] \in Int /\ d[i] \in Int
  <2> TAKE i \in S
  <2>1. a[i] = right_of_dot(seq[i]) /\ b[i] = seq[i].prod /\ c[i] = seq[i].dot
    BY <1>4, <1>5, <1>6, Zenon
  <2>2. /\ d[i] \in Int
        /\ right_of_dot(seq[i]) \in Int /\ seq[i].prod \in Int /\ seq[i].dot \in Int
    BY <1>1, <1>2, <1>23 DEF Sortable
  <2> QED BY <2>1, <2>2
<1>8. ASSUME NEW i \in S, NEW j \in S
      PROVE  item_less(seq[i], seq[j]) <=>
               \/ a[i] < a[j]
               \/ a[i] = a[j] /\ b[i] < b[j]
               \/ a[i] = a[j] /\ b[i] = b[j] /\ c[i] < c[j]
  <2>1. /\ a[i] = right_of_dot(seq[i]) /\ b[i] = seq[i].prod /\ c[i] = seq[i].dot
        /\ a[j] = right_of_dot(seq[j]) /\ b[j] = seq[j].prod /\ c[j] = seq[j].dot
    BY <1>4, <1>5, <1>6, Zenon
  <2> QED BY <2>1, Zenon DEF item_less
<1>9. ASSUME NEW i \in S, NEW j \in S
      PROVE  <<i, j>> \in R <=>
               \/ a[i] < a[j]
               \/ a[i] = a[j] /\ b[i] < b[j]
               \/ a[i] = a[j] /\ b[i] = b[j] /\ c[i] < c[j]
               \/ a[i] = a[j] /\ b[i] = b[j] /\ c[i] = c[j] /\ d[i] < d[j]
  <2>1. <<i, j>> \in R <=> Precedes(seq, stay, i, j)
    BY <1>3
  <2>2. <<i, j>> \in R <=> \/ item_less(seq[i], seq[j])
                           \/ ~item_less(seq[j], seq[i]) /\ d[i] < d[j]
    BY <1>22, <2>1, Zenon DEF Precedes
  <2> QED BY <1>7, <1>8, <2>2
<1>10. \A i \in S : <<i, i>> \notin R
  BY <1>7, <1>9
<1>11. \A i, j \in S : i # j => <<i, j>> \in R \/ <<j, i>> \in R
  BY <1>7, <1>9, <1>23
<1>12. \A i, j, k \in S : <<i, j>> \in R /\ <<j, k>> \in R => <<i, k>> \in R
  <2> SUFFICES ASSUME NEW i \in S, NEW j \in S, NEW k \in S, <<i, j>> \in R, <<j, k>> \in R
               PROVE  <<i, k>> \in R
    OBVIOUS
  <2> QED BY <1>7, <1>9
<1>13. IsFiniteSet(S) /\ Cardinality(S) = Len(seq)
  <2>1. PICK n \in Nat : n = Len(seq)
    BY <1>1
  <2>2. IsFiniteSet(1 .. n) /\ Cardinality(1 .. n) = n
    BY FS_Interval
  <2> QED BY <1>2, <2>1, <2>2
<1>14. \A i \in S : RankIn(S, R, i) = Place(seq, stay, i)
  <2> TAKE i \in S
  <2>1. {j \in S : <<j, i>> \in R} = {j \in DOMAIN seq : Precedes(seq, stay, j, i)}
    BY <1>1, <1>2, <1>3
  <2> QED BY <2>1 DEF RankIn, Place
<1>15. /\ \A i \in S : RankIn(S, R, i) \in 1 .. Cardinality(S)
       /\ \A i, j \in S : i # j => RankIn(S, R, i) # RankIn(S, R, j)
       /\ \A k \in 1 .. Cardinality(S) : \E i \in S : RankIn(S, R, i) = k
  BY <1>10, <1>11, <1>12, <1>13, Ranked
<1>16. /\ \A i \in S : Place(seq, stay, i) \in S
       /\ \A i, j \in S : i # j => Place(seq, stay, i) # Place(seq, stay, j)
       /\ \A k \in S : \E i \in S : Place(seq, stay, i) = k
  BY <1>2, <1>13, <1>14, <1>15
<1>17. r = [k \in DOMAIN seq |-> seq[CHOOSE i \in DOMAIN seq : Place(seq, stay, i) = k]]
  BY DEF Sorted
<1>18. IsSeq(r) /\ Len(r) = Len(seq)
  <2>1. r = [k \in 1 .. Len(seq) |-> r[k]]
    BY <1>1, <1>17
  <2> QED BY <1>1, <2>1, SeqFunction
<1>19. ASSUME NEW k \in S PROVE \E i \in S : r[k] = seq[i]
  <2>1. PICK i : i = CHOOSE j \in DOMAIN seq : Place(seq, stay, j) = k
    OBVIOUS
  <2>2. i \in S
    BY <1>1, <1>2, <1>16, <2>1
  <2>3. r[k] = seq[i]
    BY <1>1, <1>2, <1>17, <2>1
  <2> QED BY <2>2, <2>3
<1>20. ASSUME NEW i \in S PROVE \E k \in S : r[k] = seq[i]
  <2>1. PICK k \in S : k = Place(seq, stay, i)
    BY <1>16
  <2>2. PICK h : h = CHOOSE j \in DOMAIN seq : Place(seq, stay, j) = k
    OBVIOUS
  <2>3. h \in S /\ Place(seq, stay, h) = k
    BY <1>1, <1>2, <1>16, <2>2
  <2>4. h = i
    BY <1>16, <2>1, <2>3
  <2>5. r[k] = seq[h]
    BY <1>1, <1>2, <1>17, <2>2
  <2> QED BY <2>4, <2>5
<1> QED BY <1>2, <1>18, <1>19, <1>20 DEF SameElements

\* What an item says without its lookaheads, and what a kernel does.
IsItem(it) ==
  /\ DOMAIN it = {"prod", "dot", "la"}
  /\ it.prod \in 1 .. Len(prods) /\ it.dot \in 0 .. Len(prods[it.prod].rhs)
CoresOf(kernel) == {<<kernel[k].prod, kernel[k].dot>> : k \in 1 .. Len(kernel)}

\* A production can be reduced in a state of these cores.
Reduces(C, n) ==
  /\ n \in 1 .. Len(prods)
  /\ <<n, Len(prods[n].rhs)>> \in C \/ (n \in Closure(C) /\ Len(prods[n].rhs) = 0)
\* Such reductions have been put into r.
Reducing(A, C, r) ==
  \A t \in DOMAIN r : (t \in DOMAIN A /\ r[t] = A[t]) \/ \E n \in 1 .. Len(prods) :
                                                            r[t] = 1 - n /\ Reduces(C, n)

\* Of two reductions the earlier production has the greater entry (yystate.c:949-966).
LEMMA MaxOfTwo ==
  ASSUME NEW a \in Int, NEW b \in Int
  PROVE  Max({a, b}) = a \/ Max({a, b}) = b
<1>1. \E x \in {a, b} : \A y \in {a, b} : x >= y
  <2>1. a >= b \/ b >= a
    OBVIOUS
  <2>2. a >= a /\ b >= b
    OBVIOUS
  <2> QED BY <2>1, <2>2, Zenon
<1>2. Max({a, b}) \in {a, b}
  BY <1>1, Zenon DEF Max
<1> QED BY <1>2

\* One item puts in its own reduction or leaves what there is.
LEMMA ReduceOne ==
  ASSUME Len(prods) \in Nat, NEW A, \A t \in DOMAIN A : A[t] \in Int, NEW C,
         NEW r, Reducing(A, C, r.acts),
         NEW item, right_of_dot(item) = 0 => Reduces(C, item.prod),
         NEW h, h = reduce_one_item(r, item)
  PROVE  Reducing(A, C, h.acts)
<1>1. CASE right_of_dot(item) # 0
  BY <1>1 DEF reduce_one_item
<1>2. CASE right_of_dot(item) = 0
  <2>1. PICK n : n = item.prod
    OBVIOUS
  <2>2. n \in 1 .. Len(prods) /\ Reduces(C, n) /\ n \in Int
    BY <1>2, <2>1 DEF Reduces
  <2>3. PICK a : a = r.acts
    OBVIOUS
  <2>4. PICK new : new = [t \in item.la \cup DOMAIN a |->
                            IF t \notin item.la THEN a[t]
                            ELSE IF t \in item.la \cap DOMAIN a THEN resolve(a[t], n, t)
                            ELSE 1 - n]
    OBVIOUS
  <2>5. h.acts = new
    BY <1>2, <2>1, <2>3, <2>4 DEF reduce_one_item
  <2>6. \A t \in DOMAIN a : a[t] \in Int
    <3> SUFFICES ASSUME NEW t \in DOMAIN a PROVE a[t] \in Int
      OBVIOUS
    <3>1. (t \in DOMAIN A /\ a[t] = A[t]) \/ \E k \in 1 .. Len(prods) : a[t] = 1 - k
      BY <2>3 DEF Reducing
    <3>2. CASE t \in DOMAIN A /\ a[t] = A[t]
      BY <3>2
    <3>3. CASE \E k \in 1 .. Len(prods) : a[t] = 1 - k
      BY <3>3
    <3> QED BY <3>1, <3>2, <3>3
  <2>7. ASSUME NEW t \in DOMAIN a, t \in item.la
        PROVE  resolve(a[t], n, t) = 1 - n \/ resolve(a[t], n, t) = a[t]
    <3>1. PICK v \in Int : v = a[t]
      BY <2>6, <2>7
    <3>2. PICK w \in Int : w = 1 - n
      BY <2>2
    <3>3. Max({v, w}) = v \/ Max({v, w}) = w
      BY MaxOfTwo
    <3>4. resolve(v, n, t) = v \/ resolve(v, n, t) = w
      BY <3>2, <3>3, Zenon DEF resolve
    <3> QED BY <3>1, <3>2, <3>4, Zenon
  <2>10. ASSUME NEW t \in DOMAIN new
         PROVE  new[t] = 1 - n \/ (t \in DOMAIN a /\ new[t] = a[t])
    <3>1. t \in item.la \cup DOMAIN a
      BY <2>4, <2>10
    <3>2. CASE t \notin item.la
      BY <2>4, <3>1, <3>2
    <3>3. CASE t \in item.la /\ t \notin DOMAIN a
      <4>1. t \notin item.la \cap DOMAIN a
        BY <3>3
      <4> QED BY <2>4, <3>1, <3>3, <4>1
    <3>4. CASE t \in item.la /\ t \in DOMAIN a
      <4>1. t \in item.la \cap DOMAIN a
        BY <3>4
      <4>2. new[t] = resolve(a[t], n, t)
        BY <2>4, <3>1, <3>4, <4>1
      <4> QED BY <2>7, <3>4, <4>2, Zenon
    <3> QED BY <3>2, <3>3, <3>4
  <2>11. Reducing(A, C, a)
    BY <2>3
  <2>12. Reducing(A, C, new)
    <3> SUFFICES ASSUME NEW t \in DOMAIN new
                 PROVE  \/ t \in DOMAIN A /\ new[t] = A[t]
                        \/ \E k \in 1 .. Len(prods) : new[t] = 1 - k /\ Reduces(C, k)
      BY Zenon DEF Reducing
    <3>1. CASE new[t] = 1 - n
      BY <2>2, <3>1, Zenon
    <3>2. CASE t \in DOMAIN a /\ new[t] = a[t]
      BY <2>11, <3>2, Zenon DEF Reducing
    <3> QED BY <2>10, <3>1, <3>2, Zenon
  <2> QED BY <2>5, <2>12
<1> QED BY <1>1, <1>2

IsReduced(f, A, seq, n) ==
  f = [k \in 0 .. n |-> IF k = 0 THEN [acts |-> A, conflicts |-> conflicts]
                        ELSE reduce_one_item(f[k - 1], seq[k])]

\* The recursive function of Reductions, entry by entry.
LEMMA ReducedIs ==
  ASSUME NEW f, NEW A, NEW seq, NEW n \in Nat
  PROVE  IsReduced(f, A, seq, n) <=>
           /\ f = [k \in 0 .. n |-> f[k]] /\ f[0] = [acts |-> A, conflicts |-> conflicts]
           /\ \A k \in 1 .. n : f[k] = reduce_one_item(f[k - 1], seq[k])
<1> DEFINE E(k) == IF k = 0 THEN [acts |-> A, conflicts |-> conflicts]
                   ELSE reduce_one_item(f[k - 1], seq[k])
<1>1. IsReduced(f, A, seq, n) <=> f = [k \in 0 .. n |-> E(k)]
  BY Zenon DEF IsReduced
<1>2. /\ E(0) = [acts |-> A, conflicts |-> conflicts] /\ 0 \in 0 .. n
      /\ \A k \in 1 .. n : k \in 0 .. n
  OBVIOUS
<1>3. \A k \in 1 .. n : E(k) = reduce_one_item(f[k - 1], seq[k])
  <2>1. \A k \in 1 .. n : k # 0
    OBVIOUS
  <2> QED BY <2>1, Zenon
<1>4. \A k \in 0 .. n : k = 0 \/ k \in 1 .. n
  OBVIOUS
<1> HIDE DEF E
<1>5. f = [k \in 0 .. n |-> E(k)] <=> f = [k \in 0 .. n |-> f[k]] /\ \A k \in 0 .. n : f[k] = E(k)
  OBVIOUS
<1> QED BY <1>1, <1>2, <1>3, <1>4, <1>5, Zenon

\* There is such a function, by induction on the length.
LEMMA ReducedExist ==
  ASSUME NEW A, NEW seq
  PROVE  \A n \in Nat : \E f : IsReduced(f, A, seq, n)
<1> DEFINE N == {n \in Nat : \E f : IsReduced(f, A, seq, n)}
<1>1. 0 \in N
  <2>1. PICK f : f = [k \in 0 .. 0 |-> [acts |-> A, conflicts |-> conflicts]]
    OBVIOUS
  <2>2. f = [k \in 0 .. 0 |-> f[k]] /\ f[0] = [acts |-> A, conflicts |-> conflicts]
    <3>1. PICK b : b = [acts |-> A, conflicts |-> conflicts]
      OBVIOUS
    <3>2. f = [k \in 0 .. 0 |-> b]
      BY <2>1, <3>1
    <3>3. f = [k \in 0 .. 0 |-> f[k]] /\ f[0] = b
      BY <3>2
    <3> QED BY <3>1, <3>3, Zenon
  <2>3. IsReduced(f, A, seq, 0)
    <3>1. PICK m \in Nat : m = 0
      OBVIOUS
    <3>2. /\ f = [k \in 0 .. m |-> f[k]] /\ f[0] = [acts |-> A, conflicts |-> conflicts]
          /\ \A k \in 1 .. m : f[k] = reduce_one_item(f[k - 1], seq[k])
      <4>1. \A k \in 1 .. m : FALSE
        BY <3>1
      <4> QED BY <2>2, <3>1, <4>1, Zenon
    <3>3. IsReduced(f, A, seq, m)
      BY <3>2, ReducedIs, Zenon
    <3> QED BY <3>1, <3>3
  <2> QED BY <2>3
<1>2. ASSUME NEW n \in Nat, n \in N PROVE n + 1 \in N
  <2>1. PICK f : IsReduced(f, A, seq, n)
    BY <1>2
  <2>2. /\ f = [k \in 0 .. n |-> f[k]] /\ f[0] = [acts |-> A, conflicts |-> conflicts]
        /\ \A k \in 1 .. n : f[k] = reduce_one_item(f[k - 1], seq[k])
    BY <2>1, ReducedIs
  <2>3. PICK x : x = reduce_one_item(f[n], seq[n + 1])
    OBVIOUS
  <2>4. PICK h : h = [k \in 0 .. n + 1 |-> IF k = n + 1 THEN x ELSE f[k]]
    OBVIOUS
  <2>5. /\ h[n + 1] = x /\ \A k \in 0 .. n : h[k] = f[k]
        /\ h = [k \in 0 .. n + 1 |-> h[k]]
    BY <2>4
  <2>6. ASSUME NEW k \in 1 .. n + 1 PROVE h[k] = reduce_one_item(h[k - 1], seq[k])
    <3>1. CASE k = n + 1
      <4>1. h[k - 1] = f[n]
        BY <2>5, <3>1
      <4> QED BY <2>3, <2>5, <3>1, <4>1
    <3>2. CASE k # n + 1
      <4>1. k \in 1 .. n /\ k - 1 \in 0 .. n /\ k \in 0 .. n
        BY <3>2
      <4>2. h[k] = f[k] /\ h[k - 1] = f[k - 1]
        BY <2>5, <4>1
      <4> QED BY <2>2, <4>1, <4>2
    <3> QED BY <3>1, <3>2
  <2>7. h[0] = [acts |-> A, conflicts |-> conflicts]
    <3>1. 0 \in 0 .. n
      OBVIOUS
    <3>2. h[0] = f[0]
      BY <2>5, <3>1, Zenon
    <3> QED BY <2>2, <3>2, Zenon
  <2>8. IsReduced(h, A, seq, n + 1)
    <3>1. PICK m \in Nat : m = n + 1
      OBVIOUS
    <3>2. /\ h = [k \in 0 .. m |-> h[k]] /\ h[0] = [acts |-> A, conflicts |-> conflicts]
          /\ \A k \in 1 .. m : h[k] = reduce_one_item(h[k - 1], seq[k])
      BY <2>5, <2>6, <2>7, <3>1
    <3>3. IsReduced(h, A, seq, m)
      BY <3>2, ReducedIs
    <3> QED BY <3>1, <3>3
  <2> QED BY <2>8
<1> HIDE DEF N
<1>3. Nat \subseteq N
  BY <1>1, <1>2, EveryNat
<1> QED BY <1>3 DEF N

\* Reductions is its last entry.
LEMMA ReductionsDone ==
  ASSUME NEW A, NEW seq, Len(seq) \in Nat
  PROVE  \E f : IsReduced(f, A, seq, Len(seq)) /\ Reductions(A, seq) = f[Len(seq)]
<1> DEFINE done == CHOOSE f : f = [k \in 0 .. Len(seq) |->
                     IF k = 0 THEN [acts |-> A, conflicts |-> conflicts]
                     ELSE reduce_one_item(f[k - 1], seq[k])]
<1>1. \E f : f = [k \in 0 .. Len(seq) |->
                     IF k = 0 THEN [acts |-> A, conflicts |-> conflicts]
                     ELSE reduce_one_item(f[k - 1], seq[k])]
  <2>1. PICK f : IsReduced(f, A, seq, Len(seq))
    BY ReducedExist
  <2> QED BY <2>1, Zenon DEF IsReduced
<1>2. done = [k \in 0 .. Len(seq) |->
                     IF k = 0 THEN [acts |-> A, conflicts |-> conflicts]
                     ELSE reduce_one_item(done[k - 1], seq[k])]
  BY <1>1, Zenon
<1>3. Reductions(A, seq) = done[Len(seq)]
  BY Zenon DEF Reductions
<1> QED BY <1>2, <1>3, Zenon DEF IsReduced

\* What add_reductions() puts into a row are reductions of the state's items.
LEMMA ReductionsAre ==
  ASSUME Len(prods) \in Nat, NEW A, \A t \in DOMAIN A : A[t] \in Int, NEW C,
         NEW seq, IsSeq(seq),
         \A k \in 1 .. Len(seq) : right_of_dot(seq[k]) = 0 => Reduces(C, seq[k].prod)
  PROVE  Reducing(A, C, Reductions(A, seq).acts)
<1>1. Len(seq) \in Nat
  BY SeqIs
<1>2. PICK f : IsReduced(f, A, seq, Len(seq)) /\ Reductions(A, seq) = f[Len(seq)]
  BY <1>1, ReductionsDone
<1>3. /\ f[0] = [acts |-> A, conflicts |-> conflicts]
      /\ \A k \in 1 .. Len(seq) : f[k] = reduce_one_item(f[k - 1], seq[k])
  BY <1>1, <1>2, ReducedIs
<1> DEFINE M == {k \in Nat : k <= Len(seq) => Reducing(A, C, f[k].acts)}
<1>4. 0 \in M
  <2>1. f[0].acts = A
    BY <1>3
  <2>2. Reducing(A, C, A)
    BY DEF Reducing
  <2> QED BY <2>1, <2>2
<1>5. ASSUME NEW n \in Nat, n \in M PROVE n + 1 \in M
  <2> SUFFICES ASSUME n + 1 <= Len(seq) PROVE Reducing(A, C, f[n + 1].acts)
    OBVIOUS
  <2>1. n + 1 \in 1 .. Len(seq) /\ (n + 1) - 1 = n
    BY <1>1
  <2>2. Reducing(A, C, f[n].acts)
    BY <1>1, <1>5
  <2>3. f[n + 1] = reduce_one_item(f[n], seq[n + 1])
    BY <1>3, <2>1
  <2>4. PICK r : r = f[n]
    OBVIOUS
  <2>5. PICK item : item = seq[n + 1]
    OBVIOUS
  <2>6. Reducing(A, C, r.acts) /\ (right_of_dot(item) = 0 => Reduces(C, item.prod))
    BY <2>1, <2>2, <2>4, <2>5
  <2>7. PICK h : h = reduce_one_item(r, item)
    OBVIOUS
  <2>8. Reducing(A, C, h.acts)
    BY <2>6, <2>7, ReduceOne
  <2> QED BY <2>3, <2>4, <2>5, <2>7, <2>8
<1> HIDE DEF M
<1>6. Nat \subseteq M
  BY <1>4, <1>5, EveryNat
<1> QED BY <1>1, <1>2, <1>6 DEF M

-----------------------------------------------------------------------------
(* The machine: what is in its states and where its tables lead. *)

\* The kernel D is reached from the cores C over x: an item has come there with the dot one
\* to the left, from the kernel or from what is closed over.
GoesTo(C, x, D) ==
  \A d \in D : /\ d[2] >= 1 /\ Ahead(<<d[1], d[2] - 1>>) = x
               /\ <<d[1], d[2] - 1>> \in C \/ (d[2] = 1 /\ d[1] \in Closure(C))

CoresAt(L) == [s \in 1 .. Len(L) |-> CoresOf(L[s].kernel)]
ActOK(S, s, x, a) ==
  /\ a \in Int
  /\ a > 0 => ISTERM(x) /\ a + 1 \in DOMAIN S /\ GoesTo(S[s], x, S[a + 1])
  /\ a <= 0 => Reduces(S[s], 1 - a)
GotoOK(S, s, x, a) == a \in Int /\ a + 1 \in DOMAIN S /\ GoesTo(S[s], x, S[a + 1])

\* Items of empty productions that C closes over.
AreEps(C, e) ==
  /\ IsSeq(e)
  /\ \A k \in 1 .. Len(e) : /\ IsItem(e[k]) /\ e[k].dot = 0 /\ e[k].prod \in Closure(C)
                            /\ Len(prods[e[k].prod].rhs) = 0
StateOK(st, s) ==
  /\ DOMAIN st = {"kernel", "epsilon", "closed"}
  /\ IsSeq(st.kernel) /\ \A k \in 1 .. Len(st.kernel) : IsItem(st.kernel[k])
  /\ s = 1 => CoresOf(st.kernel) = {<<1, 0>>}
  /\ s # 1 => \A k \in 1 .. Len(st.kernel) : st.kernel[k].dot >= 1
  /\ AreEps(CoresOf(st.kernel), st.epsilon)

\* The states L, their rows A and G, and those unfinished.
Machine(L, A, G, U) ==
  /\ IsSeq(L) /\ Len(L) > 0 /\ Len(L) <= MAXSTATE /\ U \subseteq 1 .. Len(L)
  /\ IsSeq(A) /\ Len(A) = Len(L) /\ IsSeq(G) /\ Len(G) = Len(L)
  /\ \A s \in 1 .. Len(L) :
       /\ StateOK(L[s], s)
       /\ \A x \in DOMAIN A[s] : ActOK(CoresAt(L), s, x, A[s][x])
       /\ \A x \in DOMAIN G[s] : GotoOK(CoresAt(L), s, x, G[s][x])
       /\ L[s].closed => \A n \in Closure(CoresAt(L)[s]) : prods[n].lhs \in DOMAIN G[s]

\* No state is forgotten.
Waiting(L, U, c) == \A s \in 1 .. Len(L) : L[s].closed \/ s \in U \/ s = c

\* While the cores C are closed over, T is among what they close over, and has at least
\* what they bring in themselves.
Covers(C, T) ==
  /\ T \subseteq Closure(C)
  /\ \A n \in 1 .. Len(prods) : (\E c \in C : Ahead(c) = prods[n].lhs) => n \in T

IsMoving(C, it) ==
  /\ IsItem(it)
  /\ (it.dot = 0 /\ it.prod \in Closure(C))
       \/ (<<it.prod, it.dot>> \in C /\ Ahead(<<it.prod, it.dot>>) # 0)
\* The items that will move, with the nonterminals on which the state goes somewhere.
Moving(C, q, row) ==
  /\ IsSeq(q) /\ \A k \in 1 .. Len(q) : IsMoving(C, q[k])
  /\ \A n \in Closure(C) : \/ prods[n].lhs \in row
                           \/ \E k \in 1 .. Len(q) : Ahead(<<q[k].prod, q[k].dot>>) = prods[n].lhs

\* The machine in the variables, and what more there is at the stages of lr().
Tables == Machine(lrstates, actions, gotos, unfinished)
CurCores == CoresAt(lrstates)[cur_state]
AtLr    == Patched /\ Tables /\ Waiting(lrstates, unfinished, NONE)
Busy    == /\ Patched /\ Tables /\ Waiting(lrstates, unfinished, cur_state)
           /\ cur_state \in 1 .. Len(lrstates)
AtClose == /\ Busy /\ Covers(CurCores, DOMAIN items)
           /\ ~did => IsClosed(CurCores, DOMAIN items)
AtSort  == Busy /\ Moving(CurCores, items, {})
AtShift == /\ Busy /\ Moving(CurCores, items, DOMAIN gotos[cur_state])
           /\ \A k \in 1 .. Len(items) : Ahead(<<items[k].prod, items[k].dot>>) # 0
AtMade  == Patched /\ Tables /\ \A s \in 1 .. Len(lrstates) : lrstates[s].closed

\* The right-hand sides are sequences of symbols, so that what is ahead is one or 0.
LEMMA PatchedIs ==
  ASSUME Patched
  PROVE  /\ Len(prods) \in Nat /\ Len(terms) \in 0 .. MINNONTERM - 2
         /\ \A n \in 1 .. Len(prods) :
              /\ prods[n].lhs \in MINNONTERM .. MINACT - 1 /\ Len(prods[n].rhs) \in Nat
              /\ IsSeq(prods[n].rhs)
              /\ \A i \in 1 .. Len(prods[n].rhs) :
                   prods[n].rhs[i] \in Words /\ prods[n].rhs[i] \in Nat /\ prods[n].rhs[i] # 0
<1>1. IsSeq(prods) /\ file \in Files /\ \A n \in 1 .. Len(prods) : IsRule(prods[n])
  BY DEF Patched
<1>2. Len(prods) \in Nat /\ Len(terms) \in 0 .. MINNONTERM - 2
  BY <1>1, SeqIs, TermsCount
<1>3. \A w \in Words : w \in Nat /\ w # 0
  <2> TAKE w \in Words
  <2>1. w \in 1 .. Len(terms) \/ w \in MINNONTERM .. MINACT - 1
    BY DEF Words
  <2> QED BY <1>2, <2>1, NumbersAssumption
<1>4. ASSUME NEW n \in 1 .. Len(prods)
      PROVE  /\ prods[n].lhs \in MINNONTERM .. MINACT - 1 /\ Len(prods[n].rhs) \in Nat
             /\ IsSeq(prods[n].rhs)
             /\ \A i \in 1 .. Len(prods[n].rhs) : prods[n].rhs[i] \in Words
  <2>1. IsRule(prods[n])
    BY <1>1
  <2>2. IsSeq(prods[n].rhs)
    BY <2>1 DEF IsRule
  <2>3. Len(prods[n].rhs) \in Nat
    BY <2>2, SeqIs
  <2> QED BY <2>1, <2>2, <2>3 DEF IsRule
<1> QED BY <1>2, <1>3, <1>4

\* A left-hand side is a nonterminal, so that it is not 0, the end of a production.
LEMMA LhsNotNone ==
  ASSUME Patched
  PROVE  \A n \in 1 .. Len(prods) : prods[n].lhs # 0
<1> TAKE n \in 1 .. Len(prods)
<1>1. prods[n].lhs \in MINNONTERM .. MINACT - 1 /\ Len(terms) \in 0 .. MINNONTERM - 2
  BY PatchedIs
<1> QED BY <1>1, NumbersAssumption

\* What is ahead in a core that is not complete is a symbol.
LEMMA AheadIs ==
  ASSUME Patched, NEW p \in 1 .. Len(prods), NEW d \in 0 .. Len(prods[p].rhs), NEW a, a = Ahead(<<p, d>>)
  PROVE  /\ a \in Nat /\ (a # 0 <=> d < Len(prods[p].rhs))
         /\ a # 0 => a \in Words /\ d + 1 \in 1 .. Len(prods[p].rhs) /\ a = prods[p].rhs[d + 1]
<1>1. /\ Len(prods[p].rhs) \in Nat
      /\ \A i \in 1 .. Len(prods[p].rhs) :
           prods[p].rhs[i] \in Words /\ prods[p].rhs[i] \in Nat /\ prods[p].rhs[i] # 0
  BY PatchedIs
<1>2. a = IF d < Len(prods[p].rhs) THEN prods[p].rhs[d + 1] ELSE 0
  BY DEF Ahead
<1>3. d < Len(prods[p].rhs) => d + 1 \in 1 .. Len(prods[p].rhs)
  BY <1>1
<1> QED BY <1>1, <1>2, <1>3

\* right_of_dot() of an item is what is ahead in its core.
LEMMA RightIs ==
  ASSUME NEW it
  PROVE  right_of_dot(it) = Ahead(<<it.prod, it.dot>>)
BY DEF right_of_dot, Ahead

\* All this is about the grammar file and the productions.
LEMMA SameMachine ==
  ASSUME prods' = prods, file' = file
  PROVE  /\ \A C : Closure(C)' = Closure(C)
         /\ \A L, A, G, U : Machine(L, A, G, U)' <=> Machine(L, A, G, U)
         /\ \A C, T : (IsClosed(C, T)' <=> IsClosed(C, T)) /\ (Covers(C, T)' <=> Covers(C, T))
         /\ \A C, q, row : Moving(C, q, row)' <=> Moving(C, q, row)
         /\ \A c : Ahead(c)' = Ahead(c)
<1>1. \A c : Ahead(c)' = Ahead(c)
  BY DEF Ahead
<1>2. \A C, T : IsClosed(C, T)' <=> IsClosed(C, T)
  BY DEF IsClosed, Ahead
<1>3. \A C : Closure(C)' = Closure(C)
  BY <1>2 DEF Closure
<1>4. \A C, T : Covers(C, T)' <=> Covers(C, T)
  BY <1>1, <1>3 DEF Covers
<1>5. \A it : IsItem(it)' <=> IsItem(it)
  BY DEF IsItem
<1>6. \A C, it : IsMoving(C, it)' <=> IsMoving(C, it)
  BY <1>1, <1>3, <1>5 DEF IsMoving
<1>7. \A C, q, row : Moving(C, q, row)' <=> Moving(C, q, row)
  BY <1>1, <1>3, <1>6 DEF Moving
<1>8. \A C, x, D : GoesTo(C, x, D)' <=> GoesTo(C, x, D)
  BY <1>1, <1>3 DEF GoesTo
<1>9. \A C, n : Reduces(C, n)' <=> Reduces(C, n)
  BY <1>3 DEF Reduces
<1>10. \A x : ISTERM(x)' <=> ISTERM(x)
  BY DEF ISTERM, terms
<1>11. \A S, s, x, a : ActOK(S, s, x, a)' <=> ActOK(S, s, x, a)
  BY <1>8, <1>9, <1>10 DEF ActOK
<1>12. \A S, s, x, a : GotoOK(S, s, x, a)' <=> GotoOK(S, s, x, a)
  BY <1>8 DEF GotoOK
<1>15. \A C, e : AreEps(C, e)' <=> AreEps(C, e)
  BY <1>3, <1>5 DEF AreEps
<1>13. \A st, s : StateOK(st, s)' <=> StateOK(st, s)
  BY <1>5, <1>15 DEF StateOK
<1>14. \A L, A, G, U : Machine(L, A, G, U)' <=> Machine(L, A, G, U)
  BY <1>3, <1>11, <1>12, <1>13 DEF Machine
<1> QED BY <1>1, <1>2, <1>3, <1>4, <1>7, <1>14

\* Patched speaks of the productions and of their actions alone.
LEMMA SamePatched ==
  ASSUME Patched, prods' = prods, file' = file, does' = does, goal' = goal
  PROVE  Patched'
<1>1. Words' = Words
  BY DEF Words, terms
<1>2. ASSUME NEW n \in 1 .. Len(prods) PROVE IsRule(prods[n])'
  BY <1>1 DEF IsRule, Patched
<1>3. ASSUME NEW n \in 1 .. Len(prods) PROVE WhereFrom(n)'
  BY DEF WhereFrom, Patched
<1> QED BY <1>2, <1>3 DEF Patched

\* The first state.
LEMMA MakeTablesStep ==
  ASSUME Patched, make_parse_tables
  PROVE  at' = "fatal" \/ (at' = "lr" /\ AtLr')
<1> SUFFICES ASSUME at' # "fatal" PROVE at' = "lr" /\ AtLr'
  OBVIOUS
<1>1. PICK m : m = Min(Productions(goal))
  OBVIOUS
<1>2. PICK st : st = [kernel |-> <<[prod |-> m, dot |-> 0, la |-> {_EOI_}]>>,
                      epsilon |-> <<>>, closed |-> FALSE]
  OBVIOUS
<1>3. /\ goal # NONE /\ at' = "lr" /\ lrstates' = <<st>> /\ unfinished' = {1}
      /\ actions' = <<<<>>>> /\ gotos' = <<<<>>>>
      /\ prods' = prods /\ file' = file /\ goal' = goal /\ does' = does
  <2>1. /\ ~(goal = NONE \/ Cardinality(Productions(goal)) > 1)
        /\ prods' = prods /\ file' = file /\ goal' = goal /\ does' = does
    BY Zenon DEF make_parse_tables, built
  <2>2. /\ at' = "lr" /\ unfinished' = {1} /\ actions' = <<<<>>>> /\ gotos' = <<<<>>>>
        /\ lrstates' = <<[kernel  |-> <<[prod |-> Min(Productions(goal)), dot |-> 0, la |-> {_EOI_}]>>,
                          epsilon |-> <<>>, closed |-> FALSE]>>
    BY <2>1, Zenon DEF make_parse_tables
  <2> QED BY <1>1, <1>2, <2>1, <2>2, Zenon
<1>4. Len(prods) \in Nat /\ Len(prods) > 0 /\ prods[1].lhs = goal
  BY <1>3, PatchedIs DEF Patched
<1>5. m = 1
  <2>1. PICK P : P = Productions(goal)
    OBVIOUS
  <2>2. P \subseteq Nat /\ 1 \in P /\ \A x \in P : x >= 1
    BY <1>4, <2>1 DEF Productions
  <2>3. Min(P) \in P /\ \A x \in P : Min(P) <= x
    BY <2>2, MinIs
  <2> QED BY <1>1, <2>1, <2>2, <2>3
<1>6. PICK it : it = [prod |-> 1, dot |-> 0, la |-> {_EOI_}]
  OBVIOUS
<1>7. /\ it.prod = 1 /\ it.dot = 0 /\ DOMAIN it = {"prod", "dot", "la"}
      /\ DOMAIN st = {"kernel", "epsilon", "closed"} /\ st.kernel = <<it>> /\ st.epsilon = <<>>
  BY <1>2, <1>5, <1>6
<1>8. ~st.closed
  BY <1>2
<1>9. StateOK(st, 1)
  <2>1. Len(prods[1].rhs) \in Nat
    BY <1>4, PatchedIs
  <2>2. IsItem(it)
    BY <1>4, <1>7, <2>1 DEF IsItem
  <2>3. CoresOf(<<it>>) = {<<1, 0>>}
    BY <1>7, SeqOfOne DEF CoresOf
  <2>4. IsSeq(<<it>>) /\ \A k \in 1 .. Len(<<it>>) : IsItem(<<it>>[k])
    <3>1. IsSeq(<<it>>) /\ Len(<<it>>) = 1 /\ <<it>>[1] = it
      BY SeqOfOne
    <3> QED BY <2>2, <3>1
  <2>5. AreEps({<<1, 0>>}, <<>>)
    <3>1. IsSeq(<<>>) /\ \A k \in 1 .. Len(<<>>) : FALSE
      BY SeqOfNone
    <3> QED BY <3>1, Zenon DEF AreEps
  <2> QED BY <1>7, <2>3, <2>4, <2>5, Zenon DEF StateOK
<1>10. Machine(<<st>>, <<<<>>>>, <<<<>>>>, {1})
  <2>1. /\ IsSeq(<<st>>) /\ Len(<<st>>) = 1 /\ <<st>>[1] = st
        /\ IsSeq(<<<<>>>>) /\ Len(<<<<>>>>) = 1 /\ DOMAIN <<<<>>>>[1] = {}
    BY SeqOfOne, SeqOfNone
  <2>2. MAXSTATE \in Nat /\ MAXSTATE >= 1
    <3>1. MAXSTATE \in Nat \ {0}
      BY LalrAssumption
    <3> QED BY <3>1
  <2>3. {1} \subseteq 1 .. 1 /\ \A s \in 1 .. 1 : s = 1
    OBVIOUS
  <2>4. \A x \in {} : FALSE
    OBVIOUS
  <2>5. /\ \A s \in 1 .. Len(<<st>>) : StateOK(<<st>>[s], s)
        /\ \A s \in 1 .. Len(<<st>>) : ~<<st>>[s].closed
    BY <1>8, <1>9, <2>1, <2>3, Zenon
  <2>6. \A s \in 1 .. Len(<<st>>) : DOMAIN <<<<>>>>[s] = {}
    BY <2>1, <2>3, Zenon
  <2>7. 1 > 0 /\ 1 <= MAXSTATE
    BY <2>2
  <2> QED BY <2>1, <2>3, <2>4, <2>5, <2>6, <2>7, Zenon DEF Machine
<1>11. Machine(<<st>>, <<<<>>>>, <<<<>>>>, {1})'
  BY <1>3, <1>10, SameMachine
<1>12. Tables'
  BY <1>3, <1>11 DEF Tables
<1>13. Waiting(<<st>>, {1}, NONE)
  <2>1. \A s \in 1 .. Len(<<st>>) : s \in {1}
    BY SeqOfOne
  <2> QED BY <2>1 DEF Waiting
<1>14. Patched'
  BY <1>3, SamePatched
<1> QED BY <1>3, <1>12, <1>13, <1>14 DEF AtLr

\* The kernel of a state, and its cores.
LEMMA KernelIs ==
  ASSUME NEW L, NEW A, NEW G, NEW U, Machine(L, A, G, U), NEW s \in 1 .. Len(L),
         NEW K, K = L[s].kernel, NEW C, C = CoresAt(L)[s]
  PROVE  /\ IsSeq(K) /\ Len(K) \in Nat /\ DOMAIN K = 1 .. Len(K) /\ C = CoresOf(K)
         /\ \A k \in 1 .. Len(K) : IsItem(K[k]) /\ <<K[k].prod, K[k].dot>> \in C
         /\ \A c \in C : \E k \in 1 .. Len(K) : c = <<K[k].prod, K[k].dot>>
<1>1. StateOK(L[s], s)
  BY DEF Machine
<1>2. IsSeq(K) /\ \A k \in 1 .. Len(K) : IsItem(K[k])
  BY <1>1 DEF StateOK
<1>3. Len(K) \in Nat /\ DOMAIN K = 1 .. Len(K)
  BY <1>2, SeqIs
<1>4. C = CoresOf(K)
  BY DEF CoresAt
<1> QED BY <1>2, <1>3, <1>4 DEF CoresOf

IsKernel(K, C) ==
  /\ IsSeq(K)
  /\ \A k \in 1 .. Len(K) : IsItem(K[k]) /\ <<K[k].prod, K[k].dot>> \in C
  /\ \A c \in C : \E k \in 1 .. Len(K) : c = <<K[k].prod, K[k].dot>>

\* A pass of closure().
LEMMA ClosingIs ==
  ASSUME NEW S, NEW old, Closing(S, old)
  PROVE  /\ DOMAIN items' = DOMAIN old \cup Closed(S) /\ at' \in {"fatal", "close"}
         /\ ~did' => DOMAIN items' = DOMAIN old
<1>1. PICK new : new = [n \in DOMAIN old \cup Closed(S) |->
                Coming(S, n) \cup IF n \in DOMAIN old THEN old[n] ELSE {}]
  OBVIOUS
<1>2. items' = new
  BY <1>1, Zenon DEF Closing
<1>3. DOMAIN new = DOMAIN old \cup Closed(S)
  BY <1>1
<1>4. at' \in {"fatal", "close"}
  <2>1. at' = IF Cardinality(DOMAIN new) > MAXCLOSE THEN "fatal" ELSE "close"
    BY <1>1, Zenon DEF Closing
  <2>2. at' = "fatal" \/ at' = "close"
    BY <2>1, Zenon
  <2> QED BY <2>2
<1>5. ~did' => new = old
  BY <1>1, Zenon DEF Closing
<1> QED BY <1>2, <1>3, <1>4, <1>5, Zenon

\* do_close() brings in the productions of what is ahead (yystate.c:567-610).
LEMMA ClosedIs ==
  ASSUME NEW S, NEW n
  PROVE  n \in Closed(S) <=> /\ n \in 1 .. Len(prods)
                             /\ \E it \in S : Ahead(<<it.prod, it.dot>>) = prods[n].lhs
<1>1. n \in Closed(S) <=> \E it \in S : n \in Productions(right_of_dot(it))
  BY Zenon DEF Closed
<1>2. \A A : n \in Productions(A) <=> n \in 1 .. Len(prods) /\ prods[n].lhs = A
  BY DEF Productions
<1>3. \A it : right_of_dot(it) = Ahead(<<it.prod, it.dot>>)
  BY RightIs
<1>4. ASSUME NEW it
      PROVE  n \in Productions(right_of_dot(it)) <=>
               n \in 1 .. Len(prods) /\ Ahead(<<it.prod, it.dot>>) = prods[n].lhs
  <2>1. right_of_dot(it) = Ahead(<<it.prod, it.dot>>)
    BY <1>3
  <2>2. PICK a : a = Ahead(<<it.prod, it.dot>>)
    OBVIOUS
  <2>3. n \in Productions(a) <=> n \in 1 .. Len(prods) /\ prods[n].lhs = a
    BY <1>2
  <2> QED BY <2>1, <2>2, <2>3
<1> QED BY <1>1, <1>4

\* lr() takes a state off the list and closes its kernel (yystate.c:455-479).
LEMMA GetUnfinishedStep ==
  ASSUME AtLr, get_unfinished
  PROVE  at' = "fatal" \/ (at' = "close" /\ AtClose')
<1> SUFFICES ASSUME at' # "fatal" PROVE at' = "close" /\ AtClose'
  OBVIOUS
<1>1. PICK s : s = Min(unfinished)
  OBVIOUS
<1>2. PICK K : K = lrstates[s].kernel
  OBVIOUS
<1>3. /\ unfinished # {} /\ cur_state' = s /\ unfinished' = unfinished \ {s}
      /\ Closing(ToSet(K), <<>>)
      /\ lrstates' = lrstates /\ actions' = actions /\ gotos' = gotos
      /\ prods' = prods /\ file' = file /\ does' = does /\ goal' = goal
  BY <1>1, <1>2, Zenon DEF get_unfinished, built, Kernel
<1>4. Machine(lrstates, actions, gotos, unfinished)
  BY DEF AtLr, Tables
<1>5. s \in 1 .. Len(lrstates)
  <2>1. unfinished \subseteq 1 .. Len(lrstates)
    BY <1>4 DEF Machine
  <2>2. unfinished \subseteq Nat
    BY <2>1
  <2>3. s \in unfinished
    BY <1>1, <1>3, <2>2, MinIs
  <2> QED BY <2>1, <2>3
<1>6. PICK C : C = CoresAt(lrstates)[s]
  OBVIOUS
<1>7. /\ DOMAIN K = 1 .. Len(K)
      /\ \A k \in 1 .. Len(K) : IsItem(K[k]) /\ <<K[k].prod, K[k].dot>> \in C
      /\ \A c \in C : \E k \in 1 .. Len(K) : c = <<K[k].prod, K[k].dot>>
  BY <1>2, <1>4, <1>5, <1>6, KernelIs
<1>8. PICK T : T = Closed(ToSet(K))
  OBVIOUS
<1>9. /\ DOMAIN items' = T /\ at' = "close"
      /\ ~did' => T = {}
  <2>1. /\ DOMAIN items' = DOMAIN <<>> \cup T /\ at' \in {"fatal", "close"}
        /\ ~did' => DOMAIN items' = DOMAIN <<>>
    BY <1>3, <1>8, ClosingIs
  <2>2. DOMAIN <<>> = {}
    BY SeqOfNone
  <2>3. ~did' => T = {}
    BY <2>1, <2>2, Zenon
  <2>4. DOMAIN items' = T
    BY <2>1, <2>2
  <2>5. at' = "close"
    BY <2>1
  <2> QED BY <2>3, <2>4, <2>5, Zenon
<1>10. ASSUME NEW n \in 1 .. Len(prods)
       PROVE  n \in T <=> \E c \in C : Ahead(c) = prods[n].lhs
  <2>1. n \in T <=> \E it \in ToSet(K) : Ahead(<<it.prod, it.dot>>) = prods[n].lhs
    BY <1>8, ClosedIs
  <2>2. \A it : it \in ToSet(K) <=> \E k \in 1 .. Len(K) : it = K[k]
    BY <1>7 DEF ToSet
  <2>3. ASSUME NEW it, it \in ToSet(K), Ahead(<<it.prod, it.dot>>) = prods[n].lhs
        PROVE  \E c \in C : Ahead(c) = prods[n].lhs
    <3>1. PICK k \in 1 .. Len(K) : it = K[k]
      BY <2>2, <2>3, Zenon
    <3>2. <<it.prod, it.dot>> \in C
      BY <1>7, <3>1
    <3> QED BY <2>3, <3>2, Zenon
  <2>4. ASSUME NEW c \in C, Ahead(c) = prods[n].lhs
        PROVE  \E it \in ToSet(K) : Ahead(<<it.prod, it.dot>>) = prods[n].lhs
    <3>1. PICK k \in 1 .. Len(K) : c = <<K[k].prod, K[k].dot>>
      BY <1>7
    <3>2. K[k] \in ToSet(K)
      BY <2>2, Zenon
    <3> QED BY <2>4, <3>1, <3>2, Zenon
  <2> QED BY <2>1, <2>3, <2>4, Zenon
<1>11. Covers(C, T)
  <2>1. T \subseteq 1 .. Len(prods)
    BY <1>8, ClosedIs
  <2>2. T \subseteq Closure(C)
    BY <1>10, <2>1, ClosureIsClosed DEF IsClosed
  <2> QED BY <1>10, <2>2 DEF Covers
<1>12. T = {} => IsClosed(C, T)
  BY <1>10 DEF IsClosed
<1>13. Machine(lrstates, actions, gotos, unfinished')
  BY <1>3, <1>4, Zenon DEF Machine
<1>14. Waiting(lrstates, unfinished', s)
  <2>1. Waiting(lrstates, unfinished, NONE)
    BY DEF AtLr
  <2>2. ASSUME NEW q \in 1 .. Len(lrstates), ~lrstates[q].closed, q # s
        PROVE  q \in unfinished'
    <3>1. Len(lrstates) \in Nat
      BY <1>4, SeqIs DEF Machine
    <3>2. q # NONE
      BY <3>1 DEF NONE
    <3>3. q \in unfinished
      BY <2>1, <2>2, <3>2, Zenon DEF Waiting
    <3> QED BY <1>3, <2>2, <3>3
  <2> QED BY <2>2, Zenon DEF Waiting
<1>15. Patched'
  BY <1>3, SamePatched DEF AtLr
<1>16. Busy'
  <2>1. PICK L : L = lrstates
    OBVIOUS
  <2>2. PICK U : U = unfinished'
    OBVIOUS
  <2>3. PICK A : A = actions
    OBVIOUS
  <2>4. PICK G : G = gotos
    OBVIOUS
  <2>5. Machine(L, A, G, U)'
    BY <1>3, <1>13, <2>1, <2>2, <2>3, <2>4, SameMachine
  <2>6. Tables'
    BY <1>3, <2>1, <2>2, <2>3, <2>4, <2>5 DEF Tables
  <2> QED BY <1>3, <1>5, <1>14, <1>15, <2>6 DEF Busy
<1>17. CurCores' = C
  BY <1>3, <1>6 DEF CurCores
<1>18. Covers(C, T)' /\ (IsClosed(C, T)' <=> IsClosed(C, T))
  BY <1>3, <1>11, SameMachine
<1>19. DOMAIN items' = T
  BY <1>9
<1>20. Covers(CurCores, DOMAIN items)'
  BY <1>17, <1>18, <1>19
<1>21. ASSUME ~did' PROVE IsClosed(CurCores, DOMAIN items)'
  <2>1. T = {}
    BY <1>9, <1>21, Zenon
  <2>2. IsClosed(C, T)'
    BY <1>12, <1>18, <2>1, Zenon
  <2> QED BY <1>17, <1>19, <2>2
<1>22. Busy' /\ Covers(CurCores, DOMAIN items)'
  BY <1>16, <1>20
<1>23. AtClose'
  BY <1>21, <1>22, Zenon DEF AtClose
<1> QED BY <1>9, <1>23, Zenon

\* The states as they are.
LEMMA BusyKept ==
  ASSUME Busy, lrstates' = lrstates, actions' = actions, gotos' = gotos,
         unfinished' = unfinished, cur_state' = cur_state,
         prods' = prods, file' = file, does' = does, goal' = goal
  PROVE  Busy' /\ CurCores' = CurCores /\ gotos'[cur_state'] = gotos[cur_state]
<1>1. PICK L : L = lrstates
  OBVIOUS
<1>2. PICK U : U = unfinished
  OBVIOUS
<1>3. PICK A : A = actions
  OBVIOUS
<1>4. PICK G : G = gotos
  OBVIOUS
<1>5. Machine(L, A, G, U)
  BY <1>1, <1>2, <1>3, <1>4 DEF Busy, Tables
<1>6. Machine(L, A, G, U)'
  BY <1>5, SameMachine
<1>7. Tables'
  BY <1>1, <1>2, <1>3, <1>4, <1>6 DEF Tables
<1>8. Patched'
  BY SamePatched DEF Busy
<1>9. Waiting(lrstates, unfinished, cur_state)' /\ cur_state' \in 1 .. Len(lrstates')
  BY DEF Busy, Waiting
<1>10. CurCores' = CurCores
  BY DEF CurCores, CoresAt, CoresOf
<1> QED BY <1>7, <1>8, <1>9, <1>10 DEF Busy

\* A pass of closure() over the items goes on closing (yystate.c:620-640).
LEMMA ClosureStep ==
  ASSUME AtClose, closure
  PROVE  at' = "fatal" \/ (at' = "close" /\ AtClose')
<1> SUFFICES ASSUME at' # "fatal" PROVE at' = "close" /\ AtClose'
  OBVIOUS
<1>1. PICK S : S = {fresh_item(n) : n \in DOMAIN items}
  OBVIOUS
<1>2. PICK old : old = items
  OBVIOUS
<1>3. /\ Closing(S, old) /\ lrstates' = lrstates /\ actions' = actions /\ gotos' = gotos
      /\ unfinished' = unfinished /\ cur_state' = cur_state
      /\ prods' = prods /\ file' = file /\ does' = does /\ goal' = goal
  BY <1>1, <1>2, Zenon DEF closure, built
<1>4. PICK C : C = CurCores
  OBVIOUS
<1>5. PICK T : T = DOMAIN items
  OBVIOUS
<1>6. PICK D : D = T \cup Closed(S)
  OBVIOUS
<1>7. /\ DOMAIN items' = D /\ at' = "close"
      /\ ~did' => D = T
  <2>1. /\ DOMAIN items' = DOMAIN old \cup Closed(S) /\ at' \in {"fatal", "close"}
        /\ ~did' => DOMAIN items' = DOMAIN old
    BY <1>3, ClosingIs
  <2>2. DOMAIN items' = D
    BY <1>2, <1>5, <1>6, <2>1
  <2>3. ~did' => D = T
    BY <1>2, <1>5, <2>1, <2>2, Zenon
  <2>4. at' = "close"
    BY <2>1
  <2> QED BY <2>2, <2>3, <2>4, Zenon
<1>8. Covers(C, T)
  BY <1>4, <1>5 DEF AtClose
<1>9. ASSUME NEW n \in 1 .. Len(prods)
      PROVE  n \in Closed(S) <=> \E m \in T : Ahead(<<m, 0>>) = prods[n].lhs
  <2>1. n \in Closed(S) <=> \E it \in S : Ahead(<<it.prod, it.dot>>) = prods[n].lhs
    BY ClosedIs
  <2>2. ASSUME NEW m PROVE fresh_item(m).prod = m /\ fresh_item(m).dot = 0
    BY DEF fresh_item
  <2>3. \A it : it \in S <=> \E m \in T : it = fresh_item(m)
    BY <1>1, <1>5
  <2>4. ASSUME NEW m
        PROVE  Ahead(<<fresh_item(m).prod, fresh_item(m).dot>>) = Ahead(<<m, 0>>)
    BY <2>2
  <2>5. ASSUME NEW it \in S, Ahead(<<it.prod, it.dot>>) = prods[n].lhs
        PROVE  \E m \in T : Ahead(<<m, 0>>) = prods[n].lhs
    BY <2>3, <2>4, <2>5, Zenon
  <2>6. ASSUME NEW m \in T, Ahead(<<m, 0>>) = prods[n].lhs
        PROVE  \E it \in S : Ahead(<<it.prod, it.dot>>) = prods[n].lhs
    BY <2>3, <2>4, <2>6, Zenon
  <2> QED BY <2>1, <2>5, <2>6, Zenon
<1>10. Covers(C, D)
  <2>1. Closed(S) \subseteq Closure(C)
    <3> SUFFICES ASSUME NEW n \in Closed(S) PROVE n \in Closure(C)
      OBVIOUS
    <3>1. n \in 1 .. Len(prods)
      BY ClosedIs
    <3>2. PICK m \in T : Ahead(<<m, 0>>) = prods[n].lhs
      BY <1>9, <3>1
    <3>3. m \in Closure(C)
      BY <1>8 DEF Covers
    <3> QED BY <3>1, <3>2, <3>3, ClosureIsClosed DEF IsClosed
  <2> QED BY <1>6, <1>8, <2>1 DEF Covers
<1>11. D = T => IsClosed(C, D)
  <2> SUFFICES ASSUME D = T, NEW n \in 1 .. Len(prods),
                      \/ \E c \in C : Ahead(c) = prods[n].lhs
                      \/ \E m \in D : Ahead(<<m, 0>>) = prods[n].lhs
               PROVE  n \in D
    BY DEF IsClosed
  <2>1. CASE \E c \in C : Ahead(c) = prods[n].lhs
    BY <1>10, <2>1 DEF Covers
  <2>2. CASE \E m \in D : Ahead(<<m, 0>>) = prods[n].lhs
    BY <1>6, <1>9, <2>2
  <2> QED BY <2>1, <2>2
<1>12. Busy' /\ CurCores' = C
  <2>1. Busy
    BY DEF AtClose
  <2> QED BY <1>3, <1>4, <2>1, BusyKept
<1>13. Covers(C, D)' /\ (IsClosed(C, D)' <=> IsClosed(C, D))
  BY <1>3, <1>10, SameMachine
<1>14. DOMAIN items' = D
  BY <1>7
<1>15. Covers(CurCores, DOMAIN items)'
  BY <1>12, <1>13, <1>14
<1>16. ASSUME ~did' PROVE IsClosed(CurCores, DOMAIN items)'
  <2>1. D = T
    BY <1>7, <1>16, Zenon
  <2>2. IsClosed(C, D)'
    BY <1>11, <1>13, <2>1, Zenon
  <2> QED BY <1>12, <1>14, <2>2
<1>17. Busy' /\ Covers(CurCores, DOMAIN items)'
  BY <1>12, <1>15
<1>18. AtClose'
  BY <1>16, <1>17, Zenon DEF AtClose
<1> QED BY <1>7, <1>18, Zenon

\* What is put one after the other.
Joined(s, t, q) ==
  /\ IsSeq(q)
  /\ \A k \in 1 .. Len(q) : \/ \E i \in 1 .. Len(s) : q[k] = s[i]
                            \/ \E i \in 1 .. Len(t) : q[k] = t[i]
  /\ \A i \in 1 .. Len(s) : \E k \in 1 .. Len(q) : q[k] = s[i]
  /\ \A i \in 1 .. Len(t) : \E k \in 1 .. Len(q) : q[k] = t[i]
LEMMA ConcatIs ==
  ASSUME NEW s, IsSeq(s), NEW t, IsSeq(t), NEW q, q = s \o t
  PROVE  Joined(s, t, q)
<1>1. /\ IsSeq(s \o t) /\ Len(s \o t) = Len(s) + Len(t)
      /\ \A i \in 1 .. Len(s) : (s \o t)[i] = s[i]
      /\ \A i \in 1 .. Len(t) : (s \o t)[Len(s) + i] = t[i]
  BY SeqConcat
<1>2. Len(s) \in Nat /\ Len(t) \in Nat
  BY SeqIs
<1>3. /\ IsSeq(q) /\ Len(q) = Len(s) + Len(t)
      /\ \A i \in 1 .. Len(s) : q[i] = s[i]
      /\ \A i \in 1 .. Len(t) : q[Len(s) + i] = t[i]
  BY <1>1
<1>4. ASSUME NEW k \in 1 .. Len(q)
      PROVE  \/ \E i \in 1 .. Len(s) : q[k] = s[i]
             \/ \E i \in 1 .. Len(t) : q[k] = t[i]
  <2>1. k \in 1 .. Len(s) \/ (k - Len(s) \in 1 .. Len(t) /\ k = Len(s) + (k - Len(s)))
    BY <1>2, <1>3
  <2> QED BY <1>3, <2>1
<1>5. ASSUME NEW i \in 1 .. Len(s) PROVE \E k \in 1 .. Len(q) : q[k] = s[i]
  <2>1. i \in 1 .. Len(q)
    BY <1>2, <1>3
  <2> QED BY <1>3, <2>1
<1>6. ASSUME NEW i \in 1 .. Len(t) PROVE \E k \in 1 .. Len(q) : q[k] = t[i]
  <2>1. Len(s) + i \in 1 .. Len(q)
    BY <1>2, <1>3
  <2> QED BY <1>3, <2>1
<1> QED BY <1>3, <1>4, <1>5, <1>6 DEF Joined

\* The items that kclosure() puts together.
Fresh(T) == Those([n \in DOMAIN prods |-> n], T)
FreshItems(T) == [k \in DOMAIN Fresh(T) |-> fresh_item(Fresh(T)[k])]
Going(K) == Those(K, {it \in ToSet(K) : right_of_dot(it) # 0})

AreFresh(F, T) ==
  /\ IsSeq(F)
  /\ \A k \in 1 .. Len(F) :
       F[k].prod \in T /\ F[k].dot = 0 /\ DOMAIN F[k] = {"prod", "dot", "la"}
  /\ \A m \in T : \E k \in 1 .. Len(F) : F[k].prod = m /\ F[k].dot = 0

\* The new items are those of the productions closed over, dot at the left.
LEMMA FreshAre ==
  ASSUME Patched, NEW T, T \subseteq 1 .. Len(prods), NEW F, F = FreshItems(T)
  PROVE  AreFresh(F, T)
<1>1. Len(prods) \in Nat /\ DOMAIN prods = 1 .. Len(prods)
  BY SeqIs DEF Patched
<1>2. PICK id : id = [n \in DOMAIN prods |-> n]
  OBVIOUS
<1>3. IsSeq(id) /\ Len(id) = Len(prods) /\ \A n \in 1 .. Len(prods) : id[n] = n
  <2>1. id = [n \in 1 .. Len(prods) |-> id[n]] /\ \A n \in 1 .. Len(prods) : id[n] = n
    BY <1>1, <1>2
  <2>2. IsSeq(id) /\ Len(id) = Len(prods)
    BY <1>1, <2>1, SeqFunction
  <2> QED BY <2>1, <2>2
<1>4. PICK f : f = Fresh(T)
  OBVIOUS
<1>5. f = Those(id, T)
  BY <1>2, <1>4, Zenon DEF Fresh
<1>6. /\ IsSeq(f)
      /\ \A j \in 1 .. Len(f) : f[j] \in T
      /\ \A i \in 1 .. Len(id) : id[i] \in T => \E j \in 1 .. Len(f) : f[j] = id[i]
  <2>1. IsSeq(id)
    BY <1>3
  <2> QED BY <1>5, <2>1, ThoseIs
<1>7. \A m \in T : \E j \in 1 .. Len(f) : f[j] = m
  BY <1>3, <1>6
<1>8. F = [k \in DOMAIN f |-> fresh_item(f[k])]
  BY <1>4, Zenon DEF FreshItems
<1>9. DOMAIN f = 1 .. Len(f) /\ Len(f) \in Nat
  BY <1>6, SeqIs
<1>10. IsSeq(F) /\ Len(F) = Len(f)
  <2>1. F = [k \in 1 .. Len(f) |-> F[k]]
    BY <1>8, <1>9
  <2> QED BY <1>9, <2>1, SeqFunction
<1>11. \A m : /\ fresh_item(m).prod = m /\ fresh_item(m).dot = 0
             /\ DOMAIN fresh_item(m) = {"prod", "dot", "la"}
  BY DEF fresh_item
<1>12. \A k \in 1 .. Len(f) : /\ F[k].prod = f[k] /\ F[k].dot = 0
                            /\ DOMAIN F[k] = {"prod", "dot", "la"}
  <2> TAKE k \in 1 .. Len(f)
  <2>1. F[k] = fresh_item(f[k])
    BY <1>8, <1>9
  <2> QED BY <1>11, <2>1
<1> QED BY <1>6, <1>7, <1>10, <1>12 DEF AreFresh

AreGoing(H, K) ==
  /\ IsSeq(H)
  /\ \A j \in 1 .. Len(H) : \E i \in 1 .. Len(K) :
       H[j] = K[i] /\ Ahead(<<K[i].prod, K[i].dot>>) # 0
  /\ \A i \in 1 .. Len(K) :
       Ahead(<<K[i].prod, K[i].dot>>) # 0 => \E j \in 1 .. Len(H) : H[j] = K[i]

\* The items of the kernel that are not complete.
LEMMA GoingAre ==
  ASSUME NEW K, IsSeq(K), NEW H, H = Going(K)
  PROVE  AreGoing(H, K)
<1>1. PICK going : going = {it \in ToSet(K) : right_of_dot(it) # 0}
  OBVIOUS
<1>2. H = Those(K, going)
  BY <1>1, Zenon DEF Going
<1>3. /\ IsSeq(H)
      /\ \A j \in 1 .. Len(H) : H[j] \in going /\ \E i \in 1 .. Len(K) : H[j] = K[i]
      /\ \A i \in 1 .. Len(K) : K[i] \in going => \E j \in 1 .. Len(H) : H[j] = K[i]
  BY <1>2, ThoseIs
<1>4. \A i \in 1 .. Len(K) : K[i] \in going <=> Ahead(<<K[i].prod, K[i].dot>>) # 0
  <2>1. \A i \in 1 .. Len(K) : K[i] \in ToSet(K)
    BY SeqIs DEF ToSet
  <2>2. \A i \in 1 .. Len(K) : right_of_dot(K[i]) = Ahead(<<K[i].prod, K[i].dot>>)
    BY RightIs
  <2> QED BY <1>1, <2>1, <2>2
<1> QED BY <1>3, <1>4 DEF AreGoing

\* Together they are all that moves out of the state.
LEMMA KclosureIs ==
  ASSUME Patched, NEW C, NEW T, Covers(C, T), IsClosed(C, T), NEW K, IsKernel(K, C),
         NEW F, AreFresh(F, T), NEW H, AreGoing(H, K), NEW q, Joined(F, H, q)
  PROVE  Moving(C, q, {})
<1>1. /\ \A k \in 1 .. Len(K) : IsItem(K[k]) /\ <<K[k].prod, K[k].dot>> \in C
      /\ \A c \in C : \E k \in 1 .. Len(K) : c = <<K[k].prod, K[k].dot>>
  BY DEF IsKernel
<1>4. T = Closure(C) /\ T \subseteq 1 .. Len(prods)
  <2>1. T \subseteq Closure(C) /\ T \in SUBSET (1 .. Len(prods))
    BY DEF Covers, Closure
  <2> QED BY <2>1, ClosureIsLeast
<1>8. /\ IsSeq(F)
      /\ \A k \in 1 .. Len(F) :
           F[k].prod \in T /\ F[k].dot = 0 /\ DOMAIN F[k] = {"prod", "dot", "la"}
      /\ \A m \in T : \E k \in 1 .. Len(F) : F[k].prod = m /\ F[k].dot = 0
  BY DEF AreFresh
<1>9. /\ IsSeq(H)
      /\ \A j \in 1 .. Len(H) : \E i \in 1 .. Len(K) :
           H[j] = K[i] /\ Ahead(<<K[i].prod, K[i].dot>>) # 0
      /\ \A i \in 1 .. Len(K) :
           Ahead(<<K[i].prod, K[i].dot>>) # 0 => \E j \in 1 .. Len(H) : H[j] = K[i]
  BY DEF AreGoing
<1>10. /\ IsSeq(q)
       /\ \A k \in 1 .. Len(q) : \/ \E i \in 1 .. Len(F) : q[k] = F[i]
                                 \/ \E i \in 1 .. Len(H) : q[k] = H[i]
       /\ \A i \in 1 .. Len(F) : \E k \in 1 .. Len(q) : q[k] = F[i]
       /\ \A i \in 1 .. Len(H) : \E k \in 1 .. Len(q) : q[k] = H[i]
  BY DEF Joined
<1>11. ASSUME NEW i \in 1 .. Len(F) PROVE IsMoving(C, F[i])
  <2>1. PICK m \in T : F[i].prod = m /\ F[i].dot = 0 /\ DOMAIN F[i] = {"prod", "dot", "la"}
    BY <1>8
  <2>2. m \in Closure(C) /\ m \in 1 .. Len(prods)
    BY <1>4
  <2>3. Len(prods[m].rhs) \in Nat
    BY <2>2, PatchedIs
  <2> QED BY <2>1, <2>2, <2>3 DEF IsMoving, IsItem
<1>12. ASSUME NEW i \in 1 .. Len(H) PROVE IsMoving(C, H[i])
  <2>1. PICK k \in 1 .. Len(K) : H[i] = K[k] /\ Ahead(<<K[k].prod, K[k].dot>>) # 0
    BY <1>9
  <2> QED BY <1>1, <2>1 DEF IsMoving
<1>13. \A k \in 1 .. Len(q) : IsMoving(C, q[k])
  BY <1>10, <1>11, <1>12
<1>14. ASSUME NEW n \in Closure(C)
       PROVE  \E k \in 1 .. Len(q) : Ahead(<<q[k].prod, q[k].dot>>) = prods[n].lhs
  <2>1. n \in 1 .. Len(prods)
    BY <1>4
  <2>2. prods[n].lhs # 0
    BY <2>1, LhsNotNone
  <2>3. CASE \E c \in C : Ahead(c) = prods[n].lhs
    <3>1. PICK i \in 1 .. Len(K) : Ahead(<<K[i].prod, K[i].dot>>) = prods[n].lhs
      BY <1>1, <2>3, Zenon
    <3>2. PICK j \in 1 .. Len(H) : H[j] = K[i]
      BY <1>9, <2>2, <3>1, Zenon
    <3>3. PICK k \in 1 .. Len(q) : q[k] = H[j]
      BY <1>10
    <3> QED BY <3>1, <3>2, <3>3
  <2>4. CASE \E m \in Closure(C) : Ahead(<<m, 0>>) = prods[n].lhs
    <3>1. PICK m \in Closure(C) : Ahead(<<m, 0>>) = prods[n].lhs
      BY <2>4
    <3>2. PICK j \in 1 .. Len(F) : F[j].prod = m /\ F[j].dot = 0
      BY <1>4, <1>8
    <3>3. PICK k \in 1 .. Len(q) : q[k] = F[j]
      BY <1>10
    <3>4. q[k].prod = m /\ q[k].dot = 0
      BY <3>2, <3>3
    <3> QED BY <3>1, <3>4
  <2> QED BY <2>3, <2>4, ClosureHasReason
<1> QED BY <1>10, <1>13, <1>14 DEF Moving

\* kclosure() puts them together (yystate.c:646-674).
LEMMA KclosureStep ==
  ASSUME AtClose, kclosure
  PROVE  at' = "fatal" \/ (at' = "sort" /\ AtSort')
<1>1. PICK C : C = CurCores
  OBVIOUS
<1>2. PICK q : q = items'
  OBVIOUS
<1>3. Moving(C, q, {})
  <2>1. PICK T : T = DOMAIN items
    OBVIOUS
  <2>2. PICK K : K = Kernel(cur_state)
    OBVIOUS
  <2>3. PICK F : F = FreshItems(T)
    OBVIOUS
  <2>4. PICK H : H = Going(K)
    OBVIOUS
  <2>5. q = F \o H
    <3>1. items' = FreshItems(DOMAIN items) \o Going(Kernel(cur_state))
      BY Zenon DEF kclosure, FreshItems, Fresh, Going
    <3> QED BY <1>2, <2>1, <2>2, <2>3, <2>4, <3>1, Zenon
  <2>6. ~did
    BY Zenon DEF kclosure
  <2>7. Busy /\ Covers(C, T) /\ IsClosed(C, T)
    BY <1>1, <2>1, <2>6, Zenon DEF AtClose
  <2>8. /\ Patched /\ Machine(lrstates, actions, gotos, unfinished)
        /\ cur_state \in 1 .. Len(lrstates)
    BY <2>7 DEF Busy, Tables
  <2>9. K = lrstates[cur_state].kernel /\ C = CoresAt(lrstates)[cur_state]
    BY <1>1, <2>2 DEF Kernel, CurCores
  <2>10. /\ IsSeq(K)
         /\ \A k \in 1 .. Len(K) : IsItem(K[k]) /\ <<K[k].prod, K[k].dot>> \in C
         /\ \A c \in C : \E k \in 1 .. Len(K) : c = <<K[k].prod, K[k].dot>>
    BY <2>8, <2>9, KernelIs
  <2>11. IsKernel(K, C)
    BY <2>10 DEF IsKernel
  <2>12. T \subseteq 1 .. Len(prods)
    BY <2>7 DEF Covers, Closure
  <2>13. AreFresh(F, T)
    BY <2>3, <2>8, <2>12, FreshAre
  <2>14. AreGoing(H, K)
    BY <2>4, <2>10, GoingAre
  <2>15. Joined(F, H, q)
    <3>1. IsSeq(F) /\ IsSeq(H)
      BY <2>13, <2>14 DEF AreFresh, AreGoing
    <3> QED BY <2>5, <3>1, ConcatIs
  <2> QED BY <2>7, <2>8, <2>11, <2>13, <2>14, <2>15, KclosureIs
<1>4. /\ lrstates' = lrstates /\ actions' = actions /\ gotos' = gotos
      /\ unfinished' = unfinished /\ cur_state' = cur_state
      /\ prods' = prods /\ file' = file /\ does' = does /\ goal' = goal
      /\ at' = "fatal" \/ at' = "sort"
  BY Zenon DEF kclosure, built
<1>5. Busy' /\ CurCores' = CurCores
  <2>1. Busy
    BY DEF AtClose
  <2> QED BY <1>4, <2>1, BusyKept
<1>6. Moving(C, q, {})'
  BY <1>3, <1>4, SameMachine
<1>7. AtSort'
  BY <1>1, <1>2, <1>5, <1>6 DEF AtSort
<1> QED BY <1>4, <1>7

\* What items are compared by are numbers.
LEMMA ItemInts ==
  ASSUME Patched, NEW it, IsItem(it)
  PROVE  right_of_dot(it) \in Int /\ it.prod \in Int /\ it.dot \in Int
<1>1. it.prod \in 1 .. Len(prods) /\ it.dot \in 0 .. Len(prods[it.prod].rhs)
  BY DEF IsItem
<1>2. PICK a : a = Ahead(<<it.prod, it.dot>>)
  OBVIOUS
<1>3. a \in Nat
  BY <1>1, <1>2, AheadIs
<1>4. right_of_dot(it) = a
  BY <1>2, RightIs
<1> QED BY <1>1, <1>3, <1>4

\* ssort() loses no item and makes up none (yystate.c:854).
LEMMA SortStep ==
  ASSUME AtSort, sort
  PROVE  at' = "sorted" /\ AtSort'
<1>1. PICK C : C = CurCores
  OBVIOUS
<1>2. PICK q : q = items
  OBVIOUS
<1>3. PICK r : r = items'
  OBVIOUS
<1>4. /\ \E stay \in BOOLEAN : r = Sorted(q, stay)
      /\ at' = "sorted"
      /\ lrstates' = lrstates /\ actions' = actions /\ gotos' = gotos
      /\ unfinished' = unfinished /\ cur_state' = cur_state
      /\ prods' = prods /\ file' = file /\ does' = does /\ goal' = goal
  BY <1>2, <1>3, Zenon DEF sort, built
<1>5. Busy /\ Patched /\ Moving(C, q, {})
  BY <1>1, <1>2 DEF AtSort, Busy
<1>6. /\ IsSeq(q) /\ \A k \in 1 .. Len(q) : IsMoving(C, q[k])
      /\ \A n \in Closure(C) :
           \E k \in 1 .. Len(q) : Ahead(<<q[k].prod, q[k].dot>>) = prods[n].lhs
  BY <1>5 DEF Moving
<1>7. Sortable(q)
  <2> SUFFICES ASSUME NEW k \in 1 .. Len(q)
               PROVE  right_of_dot(q[k]) \in Int /\ q[k].prod \in Int /\ q[k].dot \in Int
    BY DEF Sortable
  <2>1. IsItem(q[k])
    BY <1>6 DEF IsMoving
  <2> QED BY <1>5, <2>1, ItemInts
<1>8. /\ IsSeq(r)
      /\ \A j \in 1 .. Len(r) : \E i \in 1 .. Len(q) : r[j] = q[i]
      /\ \A i \in 1 .. Len(q) : \E j \in 1 .. Len(r) : r[j] = q[i]
  <2>1. PICK stay \in BOOLEAN : r = Sorted(q, stay)
    BY <1>4
  <2>3. IsSeq(q)
    BY <1>6
  <2>2. SameElements(r, q)
    BY <1>7, <2>1, <2>3, SortedIs
  <2> QED BY <2>2 DEF SameElements
<1>9. Moving(C, r, {})
  <2>1. \A k \in 1 .. Len(r) : IsMoving(C, r[k])
    BY <1>6, <1>8
  <2>2. \A n \in Closure(C) :
          \E k \in 1 .. Len(r) : Ahead(<<r[k].prod, r[k].dot>>) = prods[n].lhs
    <3> TAKE n \in Closure(C)
    <3>1. PICK i \in 1 .. Len(q) : Ahead(<<q[i].prod, q[i].dot>>) = prods[n].lhs
      BY <1>6, Zenon
    <3>2. PICK j \in 1 .. Len(r) : r[j] = q[i]
      BY <1>8, Zenon
    <3> QED BY <3>1, <3>2, Zenon
  <2> QED BY <1>8, <2>1, <2>2 DEF Moving
<1>10. Busy' /\ CurCores' = CurCores
  BY <1>4, <1>5, BusyKept
<1>11. Moving(C, r, {})'
  BY <1>4, <1>9, SameMachine
<1>12. AtSort'
  BY <1>1, <1>3, <1>10, <1>11 DEF AtSort
<1> QED BY <1>4, <1>12

\* States that have the same cores as before.
LEMMA MachineStates ==
  ASSUME NEW L, NEW A, NEW G, NEW U, Machine(L, A, G, U),
         NEW M, IsSeq(M), Len(M) = Len(L), NEW V, V \subseteq 1 .. Len(L),
         \A s \in 1 .. Len(L) : StateOK(M[s], s) /\ CoresOf(M[s].kernel) = CoresOf(L[s].kernel),
         \A s \in 1 .. Len(L) :
           M[s].closed => \/ L[s].closed
                          \/ \A n \in Closure(CoresAt(L)[s]) : prods[n].lhs \in DOMAIN G[s]
  PROVE  Machine(M, A, G, V) /\ CoresAt(M) = CoresAt(L)
<1>1. CoresAt(M) = CoresAt(L)
  BY DEF CoresAt
<1>2. ASSUME NEW s \in 1 .. Len(L), M[s].closed
      PROVE  \A n \in Closure(CoresAt(L)[s]) : prods[n].lhs \in DOMAIN G[s]
  <2>1. CASE L[s].closed
    BY <2>1, Zenon DEF Machine
  <2> QED BY <1>2, <2>1, Zenon
<1>3. ASSUME NEW s \in 1 .. Len(L)
      PROVE  /\ \A x \in DOMAIN A[s] : ActOK(CoresAt(L), s, x, A[s][x])
             /\ \A x \in DOMAIN G[s] : GotoOK(CoresAt(L), s, x, G[s][x])
  BY Zenon DEF Machine
<1>4. /\ Len(L) > 0 /\ Len(L) <= MAXSTATE
      /\ IsSeq(A) /\ Len(A) = Len(L) /\ IsSeq(G) /\ Len(G) = Len(L)
  BY Zenon DEF Machine
<1>5. ASSUME NEW s \in 1 .. Len(M)
      PROVE  /\ StateOK(M[s], s)
             /\ \A x \in DOMAIN A[s] : ActOK(CoresAt(M), s, x, A[s][x])
             /\ \A x \in DOMAIN G[s] : GotoOK(CoresAt(M), s, x, G[s][x])
             /\ M[s].closed => \A n \in Closure(CoresAt(M)[s]) : prods[n].lhs \in DOMAIN G[s]
  <2>1. s \in 1 .. Len(L)
    OBVIOUS
  <2>2. StateOK(M[s], s)
    BY <2>1
  <2>3. /\ \A x \in DOMAIN A[s] : ActOK(CoresAt(L), s, x, A[s][x])
        /\ \A x \in DOMAIN G[s] : GotoOK(CoresAt(L), s, x, G[s][x])
        /\ M[s].closed => \A n \in Closure(CoresAt(L)[s]) : prods[n].lhs \in DOMAIN G[s]
    BY <1>2, <1>3, <2>1, Zenon
  <2> QED BY <1>1, <2>2, <2>3, Zenon
<1>6. /\ IsSeq(M) /\ Len(M) > 0 /\ Len(M) <= MAXSTATE /\ V \subseteq 1 .. Len(M)
      /\ IsSeq(A) /\ Len(A) = Len(M) /\ IsSeq(G) /\ Len(G) = Len(M)
  BY <1>4
<1>7. Machine(M, A, G, V)
  BY <1>5, <1>6, Zenon DEF Machine
<1> QED BY <1>1, <1>7

\* Merging lookaheads leaves the cores of items alone.
LEMMA MergedLa ==
  ASSUME NEW old, IsSeq(old), \A k \in 1 .. Len(old) : DOMAIN old[k] = {"prod", "dot", "la"},
         NEW new, NEW r, r = MergeLa(old, new)
  PROVE  /\ IsSeq(r) /\ Len(r) = Len(old)
         /\ \A k \in 1 .. Len(old) : /\ r[k].prod = old[k].prod /\ r[k].dot = old[k].dot
                                     /\ DOMAIN r[k] = {"prod", "dot", "la"}
<1>1. r = [k \in DOMAIN old |-> [old[k] EXCEPT !.la = @ \cup new[k].la]]
  BY Zenon DEF MergeLa
<1>2. DOMAIN old = 1 .. Len(old) /\ Len(old) \in Nat
  BY SeqIs
<1>3. IsSeq(r) /\ Len(r) = Len(old)
  <2>1. r = [k \in 1 .. Len(old) |-> r[k]]
    BY <1>1, <1>2
  <2> QED BY <1>2, <2>1, SeqFunction
<1>4. ASSUME NEW k \in 1 .. Len(old)
      PROVE  /\ r[k].prod = old[k].prod /\ r[k].dot = old[k].dot
             /\ DOMAIN r[k] = {"prod", "dot", "la"}
  <2>1. PICK o : o = old[k]
    OBVIOUS
  <2>2. PICK n : n = new[k].la
    OBVIOUS
  <2>3. r[k] = [o EXCEPT !.la = @ \cup n]
    BY <1>1, <1>2, <2>1, <2>2
  <2>4. DOMAIN o = {"prod", "dot", "la"}
    BY <2>1
  <2>5. PICK h : h = [o EXCEPT !.la = @ \cup n]
    OBVIOUS
  <2>6. h.prod = o.prod /\ h.dot = o.dot /\ DOMAIN h = {"prod", "dot", "la"}
    BY <2>4, <2>5
  <2> QED BY <2>1, <2>3, <2>5, <2>6
<1> QED BY <1>3, <1>4

\* The items of empty productions, which move_eps() takes away (yystate.c:513-525).
Empties(q) == {it \in ToSet(q) : IsEpsilon(it)}

\* The empty productions apart, every item has a symbol ahead.
LEMMA EmptiesApart ==
  ASSUME Patched, NEW C, NEW q, Moving(C, q, {}),
         NEW E, E = Empties(q),
         NEW e, e = Those(q, E), NEW r, r = Those(q, ToSet(q) \ E)
  PROVE  /\ AreEps(C, e) /\ Moving(C, r, {})
         /\ \A k \in 1 .. Len(r) : Ahead(<<r[k].prod, r[k].dot>>) # 0
<1>1. /\ IsSeq(q) /\ \A k \in 1 .. Len(q) : IsMoving(C, q[k])
      /\ \A n \in Closure(C) :
           \E k \in 1 .. Len(q) : Ahead(<<q[k].prod, q[k].dot>>) = prods[n].lhs
  BY DEF Moving
<1>2. \A k \in 1 .. Len(q) : /\ q[k] \in E <=> IsEpsilon(q[k])
                             /\ q[k] \in ToSet(q) \ E <=> ~IsEpsilon(q[k])
  <2>1. \A k \in 1 .. Len(q) : q[k] \in ToSet(q)
    BY <1>1, SeqIs DEF ToSet
  <2> QED BY <2>1 DEF Empties
<1>3. /\ IsSeq(e)
      /\ \A j \in 1 .. Len(e) : e[j] \in E /\ \E i \in 1 .. Len(q) : e[j] = q[i]
  <2>1. IsSeq(q)
    BY <1>1
  <2>2. AreThose(e, q, E)
    BY <2>1, ThoseAre
  <2> QED BY <2>2 DEF AreThose
<1>4. /\ IsSeq(r)
      /\ \A j \in 1 .. Len(r) : r[j] \in ToSet(q) \ E /\ \E i \in 1 .. Len(q) : r[j] = q[i]
      /\ \A i \in 1 .. Len(q) : q[i] \in ToSet(q) \ E => \E j \in 1 .. Len(r) : r[j] = q[i]
  <2>1. IsSeq(q)
    BY <1>1
  <2>2. PICK D : D = ToSet(q) \ E
    OBVIOUS
  <2>3. AreThose(r, q, D)
    BY <2>1, <2>2, ThoseAre
  <2> QED BY <2>2, <2>3 DEF AreThose
<1>5. ASSUME NEW k \in 1 .. Len(q)
      PROVE  /\ q[k].prod \in 1 .. Len(prods) /\ Len(prods[q[k].prod].rhs) \in Nat
             /\ q[k].dot \in 0 .. Len(prods[q[k].prod].rhs)
             /\ IsEpsilon(q[k]) <=> Len(prods[q[k].prod].rhs) = 0
             /\ \/ q[k].dot = 0 /\ q[k].prod \in Closure(C)
                \/ Ahead(<<q[k].prod, q[k].dot>>) # 0
             /\ Ahead(<<q[k].prod, q[k].dot>>) # 0 <=> q[k].dot < Len(prods[q[k].prod].rhs)
  <2>1. IsMoving(C, q[k])
    BY <1>1
  <2>2. q[k].prod \in 1 .. Len(prods) /\ q[k].dot \in 0 .. Len(prods[q[k].prod].rhs)
    BY <2>1 DEF IsMoving, IsItem
  <2>3. PICK rhs : rhs = prods[q[k].prod].rhs
    OBVIOUS
  <2>4. IsSeq(rhs)
    BY <2>2, <2>3, PatchedIs
  <2>5. Len(rhs) \in Nat /\ (rhs = <<>> <=> Len(rhs) = 0)
    BY <2>4, SeqIs DEF IsSeq
  <2>6. IsEpsilon(q[k]) <=> rhs = <<>>
    BY <2>3, Zenon DEF IsEpsilon
  <2>7. PICK p : p = q[k].prod
    OBVIOUS
  <2>8. PICK d : d = q[k].dot
    OBVIOUS
  <2>9. Ahead(<<p, d>>) # 0 <=> d < Len(prods[p].rhs)
    <3>1. p \in 1 .. Len(prods) /\ d \in 0 .. Len(prods[p].rhs)
      BY <2>2, <2>7, <2>8
    <3> QED BY <3>1, AheadIs
  <2>10. \/ q[k].dot = 0 /\ q[k].prod \in Closure(C)
         \/ Ahead(<<q[k].prod, q[k].dot>>) # 0
    BY <2>1 DEF IsMoving
  <2> QED BY <2>2, <2>3, <2>5, <2>6, <2>7, <2>8, <2>9, <2>10
<1>6. AreEps(C, e)
  <2> SUFFICES ASSUME NEW j \in 1 .. Len(e)
               PROVE  /\ IsItem(e[j]) /\ e[j].dot = 0 /\ e[j].prod \in Closure(C)
                      /\ Len(prods[e[j].prod].rhs) = 0
    BY <1>3 DEF AreEps
  <2>1. PICK i \in 1 .. Len(q) : e[j] = q[i]
    BY <1>3
  <2>2. IsEpsilon(q[i]) /\ IsItem(q[i])
    BY <1>1, <1>2, <1>3, <2>1 DEF IsMoving
  <2>3. Len(prods[q[i].prod].rhs) = 0 /\ ~(q[i].dot < Len(prods[q[i].prod].rhs))
    <3>1. Len(prods[q[i].prod].rhs) = 0 /\ q[i].dot \in 0 .. Len(prods[q[i].prod].rhs)
      BY <1>5, <2>2, Zenon
    <3>2. PICK z : z = Len(prods[q[i].prod].rhs)
      OBVIOUS
    <3>3. PICK d : d = q[i].dot
      OBVIOUS
    <3>4. z = 0 /\ d \in 0 .. z
      BY <3>1, <3>2, <3>3, Zenon
    <3>5. ~(d < z)
      BY <3>4
    <3> QED BY <3>1, <3>2, <3>3, <3>5, Zenon
  <2>4. q[i].dot = 0 /\ q[i].prod \in Closure(C)
    BY <1>5, <2>3
  <2> QED BY <2>1, <2>2, <2>3, <2>4
<1>7. ASSUME NEW j \in 1 .. Len(r)
      PROVE  IsMoving(C, r[j]) /\ Ahead(<<r[j].prod, r[j].dot>>) # 0
  <2>1. PICK i \in 1 .. Len(q) : r[j] = q[i]
    BY <1>4
  <2>2. ~IsEpsilon(q[i])
    BY <1>2, <1>4, <2>1
  <2>3. Ahead(<<q[i].prod, q[i].dot>>) # 0
    BY <1>5, <2>2
  <2> QED BY <1>1, <2>1, <2>3
<1>8. ASSUME NEW n \in Closure(C)
      PROVE  \E k \in 1 .. Len(r) : Ahead(<<r[k].prod, r[k].dot>>) = prods[n].lhs
  <2>1. PICK i \in 1 .. Len(q) : Ahead(<<q[i].prod, q[i].dot>>) = prods[n].lhs
    BY <1>1
  <2>2. prods[n].lhs # 0
    BY LhsNotNone DEF Closure
  <2>3. ~IsEpsilon(q[i])
    BY <1>5, <2>1, <2>2
  <2>4. PICK j \in 1 .. Len(r) : r[j] = q[i]
    BY <1>2, <1>4, <2>3
  <2> QED BY <2>1, <2>4
<1> QED BY <1>4, <1>6, <1>7, <1>8 DEF Moving

\* Items still move when the state goes somewhere on more symbols.
LEMMA MovingMore ==
  ASSUME NEW C, NEW q, NEW row, Moving(C, q, {})
  PROVE  Moving(C, q, row)
BY DEF Moving

\* The lookaheads are not asked about.
LEMMA MergedEpsIs ==
  ASSUME NEW C, NEW old, AreEps(C, old), NEW e, AreEps(C, e), NEW r, r = MergedEps(old, e)
  PROVE  AreEps(C, r)
<1>1. CASE old = <<>>
  <2>1. r = e
    BY <1>1, Zenon DEF MergedEps
  <2> QED BY <2>1
<1>2. CASE old # <<>>
  <2>1. r = MergeLa(old, e)
    BY <1>2, Zenon DEF MergedEps
  <2>2. IsSeq(old) /\ \A k \in 1 .. Len(old) : DOMAIN old[k] = {"prod", "dot", "la"}
    BY DEF AreEps, IsItem
  <2>3. /\ IsSeq(r) /\ Len(r) = Len(old)
        /\ \A k \in 1 .. Len(old) : /\ r[k].prod = old[k].prod /\ r[k].dot = old[k].dot
                                    /\ DOMAIN r[k] = {"prod", "dot", "la"}
    BY <2>1, <2>2, MergedLa
  <2>4. ASSUME NEW k \in 1 .. Len(r)
        PROVE  /\ IsItem(r[k]) /\ r[k].dot = 0 /\ r[k].prod \in Closure(C)
               /\ Len(prods[r[k].prod].rhs) = 0
    <3>1. k \in 1 .. Len(old)
      BY <2>3
    <3>2. /\ IsItem(old[k]) /\ old[k].dot = 0 /\ old[k].prod \in Closure(C)
          /\ Len(prods[old[k].prod].rhs) = 0
      BY <3>1 DEF AreEps
    <3>3. /\ r[k].prod = old[k].prod /\ r[k].dot = old[k].dot
          /\ DOMAIN r[k] = {"prod", "dot", "la"}
      BY <2>3, <3>1
    <3> QED BY <3>2, <3>3 DEF IsItem
  <2> QED BY <2>3, <2>4 DEF AreEps
<1> QED BY <1>1, <1>2

WithEps(L, s, e) == [L EXCEPT ![s].epsilon = MergedEps(@, e)]

\* The machine with the empty productions of a state put into it.
LEMMA EpsilonSet ==
  ASSUME NEW L, NEW A, NEW G, NEW U, Machine(L, A, G, U), NEW s \in 1 .. Len(L),
         NEW e, AreEps(CoresAt(L)[s], e),
         NEW M, M = WithEps(L, s, e)
  PROVE  /\ Machine(M, A, G, U) /\ CoresAt(M) = CoresAt(L) /\ Len(M) = Len(L)
         /\ \A q \in 1 .. Len(L) : L[q].closed => M[q].closed
<1>1. /\ IsSeq(L) /\ U \subseteq 1 .. Len(L)
      /\ \A q \in 1 .. Len(L) : StateOK(L[q], q)
  BY DEF Machine
<1>2. DOMAIN L = 1 .. Len(L) /\ Len(L) \in Nat
  BY <1>1, SeqIs
<1>3. PICK o : o = L[s]
  OBVIOUS
<1>4. PICK r : r = MergedEps(o.epsilon, e)
  OBVIOUS
<1>5. PICK m : m = [o EXCEPT !.epsilon = r]
  OBVIOUS
<1>6. M = [L EXCEPT ![s] = m]
  BY <1>3, <1>4, <1>5 DEF WithEps
<1>7. StateOK(o, s) /\ CoresAt(L)[s] = CoresOf(o.kernel)
  BY <1>1, <1>3 DEF CoresAt
<1>8. AreEps(CoresOf(o.kernel), r)
  <2>1. AreEps(CoresOf(o.kernel), o.epsilon) /\ AreEps(CoresOf(o.kernel), e)
    BY <1>7 DEF StateOK
  <2> QED BY <1>4, <2>1, MergedEpsIs
<1>9. /\ DOMAIN m = {"kernel", "epsilon", "closed"}
      /\ m.kernel = o.kernel /\ m.epsilon = r /\ m.closed = o.closed
  <2>1. DOMAIN o = {"kernel", "epsilon", "closed"}
    BY <1>7 DEF StateOK
  <2> QED BY <1>5, <2>1
<1>10. StateOK(m, s)
  BY <1>7, <1>8, <1>9, Zenon DEF StateOK
<1>11. /\ IsSeq(M) /\ Len(M) = Len(L) /\ M[s] = m
       /\ \A q \in 1 .. Len(L) : q # s => M[q] = L[q]
  <2>1. IsSeq(L)
    BY <1>1
  <2>2. /\ IsSeq([L EXCEPT ![s] = m]) /\ Len([L EXCEPT ![s] = m]) = Len(L)
        /\ s \in 1 .. Len(L) => [L EXCEPT ![s] = m][s] = m
        /\ \A q \in 1 .. Len(L) : q # s => [L EXCEPT ![s] = m][q] = L[q]
    BY <2>1, SeqExcept, Zenon
  <2> QED BY <1>6, <2>2, Zenon
<1>12. ASSUME NEW q \in 1 .. Len(L)
       PROVE  /\ StateOK(M[q], q) /\ CoresOf(M[q].kernel) = CoresOf(L[q].kernel)
              /\ M[q].closed <=> L[q].closed
  <2>1. CASE q = s
    BY <1>3, <1>9, <1>10, <1>11, <2>1, Zenon
  <2>2. CASE q # s
    BY <1>1, <1>11, <2>2, Zenon
  <2> QED BY <2>1, <2>2, Zenon
<1>13. Machine(M, A, G, U) /\ CoresAt(M) = CoresAt(L)
  <2>1. /\ IsSeq(M) /\ Len(M) = Len(L) /\ U \subseteq 1 .. Len(L)
        /\ \A q \in 1 .. Len(L) : StateOK(M[q], q) /\ CoresOf(M[q].kernel) = CoresOf(L[q].kernel)
        /\ \A q \in 1 .. Len(L) : M[q].closed => L[q].closed
    BY <1>1, <1>11, <1>12, Zenon
  <2> QED BY <2>1, MachineStates
<1> QED BY <1>11, <1>12, <1>13, Zenon

\* A machine in the variables after a step.
LEMMA TablesMade ==
  ASSUME prods' = prods, file' = file, NEW L, L = lrstates', NEW A, A = actions',
         NEW G, G = gotos', NEW U, U = unfinished', Machine(L, A, G, U)
  PROVE  Tables'
<1>1. Machine(L, A, G, U)'
  BY SameMachine
<1> QED BY <1>1 DEF Tables

\* move_eps() takes out the empty productions alone (yystate.c:504-529).
LEMMA MoveEpsStep ==
  ASSUME AtSort, move_eps
  PROVE  at' = "fatal" \/ (at' = "shift" /\ AtShift')
<1>1. PICK C : C = CurCores
  OBVIOUS
<1>2. PICK q : q = items
  OBVIOUS
<1>3. PICK E : E = {it \in ToSet(q) : IsEpsilon(it)}
  OBVIOUS
<1>4. PICK e : e = Those(q, E)
  OBVIOUS
<1>5. PICK r : r = Those(q, ToSet(q) \ E)
  OBVIOUS
<1>6. PICK L : L = lrstates
  OBVIOUS
<1>7. PICK s : s = cur_state
  OBVIOUS
<1>8. PICK M : M = WithEps(L, s, e)
  OBVIOUS
<1>9. PICK A : A = actions
  OBVIOUS
<1>10. PICK G : G = gotos
  OBVIOUS
<1>11. PICK U : U = unfinished
  OBVIOUS
<1>12. /\ items' = r /\ lrstates' = M /\ actions' = A /\ gotos' = G
       /\ unfinished' = U /\ cur_state' = s
       /\ prods' = prods /\ file' = file /\ does' = does /\ goal' = goal
       /\ at' = "fatal" \/ at' = "shift"
  <2>1. items' = r
    BY <1>2, <1>3, <1>5, Zenon DEF move_eps
  <2>2. lrstates' = M
    BY <1>2, <1>3, <1>4, <1>6, <1>7, <1>8, Zenon DEF move_eps, WithEps
  <2>3. at' = "fatal" \/ at' = "shift"
    BY Zenon DEF move_eps
  <2>4. /\ actions' = A /\ gotos' = G /\ unfinished' = U /\ cur_state' = s
        /\ prods' = prods /\ file' = file /\ does' = does /\ goal' = goal
    BY <1>7, <1>9, <1>10, <1>11, Zenon DEF move_eps, built
  <2> QED BY <2>1, <2>2, <2>3, <2>4, Zenon
<1>13. /\ Patched /\ Machine(L, A, G, U) /\ Waiting(L, U, s) /\ s \in 1 .. Len(L)
       /\ C = CoresAt(L)[s] /\ Moving(C, q, {})
  BY <1>1, <1>2, <1>6, <1>7, <1>9, <1>10, <1>11, Zenon DEF AtSort, Busy, Tables, CurCores
<1>14. /\ AreEps(C, e) /\ Moving(C, r, {})
       /\ \A k \in 1 .. Len(r) : Ahead(<<r[k].prod, r[k].dot>>) # 0
  <2>1. Patched /\ Moving(C, q, {})
    BY <1>13
  <2>2. E = Empties(q)
    BY <1>3, Zenon DEF Empties
  <2> QED BY <1>4, <1>5, <2>1, <2>2, EmptiesApart, Zenon
<1>15. /\ Machine(M, A, G, U) /\ CoresAt(M) = CoresAt(L) /\ Len(M) = Len(L)
       /\ \A k \in 1 .. Len(L) : L[k].closed => M[k].closed
  <2>1. Machine(L, A, G, U) /\ s \in 1 .. Len(L) /\ AreEps(CoresAt(L)[s], e)
    BY <1>13, <1>14
  <2> QED BY <1>8, <2>1, EpsilonSet
<1>16. Waiting(M, U, s)
  BY <1>13, <1>15, Zenon DEF Waiting
<1>17. Tables' /\ Patched'
  <2>1. Machine(M, A, G, U)
    BY <1>15
  <2>2. Tables'
    BY <1>12, <2>1, TablesMade
  <2>3. Patched'
    BY <1>12, <1>13, SamePatched
  <2> QED BY <2>2, <2>3
<1>18. Busy'
  BY <1>12, <1>13, <1>15, <1>16, <1>17 DEF Busy
<1>19. CurCores' = C
  <2>1. CoresAt(M)[s] = C
    BY <1>13, <1>15
  <2>2. CoresAt(M)' = CoresAt(M)
    BY DEF CoresAt, CoresOf
  <2> QED BY <1>12, <2>1, <2>2 DEF CurCores
<1>20. Moving(C, r, DOMAIN G[s])'
  <2>1. Moving(C, r, DOMAIN G[s])
    BY <1>14, MovingMore
  <2> QED BY <1>12, <2>1, SameMachine
<1>21. \A k \in 1 .. Len(r) : Ahead(<<r[k].prod, r[k].dot>>)' # 0
  BY <1>12, <1>14, SameMachine
<1>22. AtShift'
  BY <1>12, <1>18, <1>19, <1>20, <1>21 DEF AtShift
<1> QED BY <1>12, <1>22

-----------------------------------------------------------------------------
(* newstate(): where the items go. *)

SameAhead(q, x) == {it \in ToSet(q) : right_of_dot(it) = x}
Further(m) == [k \in DOMAIN m |-> [m[k] EXCEPT !.dot = @ + 1]]
Arrives(C, x, K) ==
  /\ IsSeq(K) /\ \A k \in 1 .. Len(K) : IsItem(K[k]) /\ K[k].dot >= 1
  /\ GoesTo(C, x, CoresOf(K))

\* The items that move over the same symbol as the first.
LEMMA SameAheadIs ==
  ASSUME NEW q, IsSeq(q), NEW x
  PROVE  \A k \in 1 .. Len(q) :
           /\ q[k] \in SameAhead(q, x) <=> Ahead(<<q[k].prod, q[k].dot>>) = x
           /\ q[k] \in ToSet(q) \ SameAhead(q, x) <=> Ahead(<<q[k].prod, q[k].dot>>) # x
<1> TAKE k \in 1 .. Len(q)
<1>1. q[k] \in ToSet(q)
  BY SeqIs DEF ToSet
<1>2. PICK a : a = Ahead(<<q[k].prod, q[k].dot>>)
  OBVIOUS
<1>3. right_of_dot(q[k]) = a
  BY <1>2, RightIs
<1>4. q[k] \in SameAhead(q, x) <=> right_of_dot(q[k]) = x
  BY <1>1 DEF SameAhead
<1> QED BY <1>1, <1>2, <1>3, <1>4

\* One item with its dot further.
LEMMA OneFurther ==
  ASSUME Patched, NEW C, NEW it, IsMoving(C, it), NEW x, x # 0, Ahead(<<it.prod, it.dot>>) = x,
         NEW h, h = [it EXCEPT !.dot = @ + 1]
  PROVE  /\ IsItem(h) /\ h.prod = it.prod /\ h.dot = it.dot + 1 /\ h.dot >= 1
         /\ h.dot - 1 = it.dot
         /\ <<it.prod, it.dot>> \in C \/ (h.dot = 1 /\ h.prod \in Closure(C))
<1>1. /\ DOMAIN it = {"prod", "dot", "la"} /\ it.prod \in 1 .. Len(prods)
      /\ it.dot \in 0 .. Len(prods[it.prod].rhs)
      /\ (it.dot = 0 /\ it.prod \in Closure(C)) \/ <<it.prod, it.dot>> \in C
  BY DEF IsMoving, IsItem
<1>2. PICK p : p = it.prod
  OBVIOUS
<1>3. PICK d : d = it.dot
  OBVIOUS
<1>4. h.prod = p /\ h.dot = d + 1 /\ DOMAIN h = {"prod", "dot", "la"}
  BY <1>1, <1>2, <1>3
<1>5. d < Len(prods[p].rhs) /\ Len(prods[p].rhs) \in Nat /\ d \in Nat
  <2>1. p \in 1 .. Len(prods) /\ d \in 0 .. Len(prods[p].rhs) /\ Ahead(<<p, d>>) # 0
    BY <1>1, <1>2, <1>3
  <2>2. d < Len(prods[p].rhs)
    BY <2>1, AheadIs
  <2>3. Len(prods[p].rhs) \in Nat
    BY <2>1, PatchedIs
  <2> QED BY <2>1, <2>2, <2>3
<1>6. d + 1 \in 0 .. Len(prods[p].rhs) /\ d + 1 >= 1 /\ (d + 1) - 1 = d /\ (d = 0 => d + 1 = 1)
  BY <1>5
<1>7. IsItem(h)
  BY <1>1, <1>2, <1>4, <1>6 DEF IsItem
<1>8. <<it.prod, it.dot>> \in C \/ (h.dot = 1 /\ h.prod \in Closure(C))
  BY <1>1, <1>2, <1>3, <1>4, <1>6, Zenon
<1> QED BY <1>2, <1>3, <1>4, <1>6, <1>7, <1>8

\* They make a kernel that is reached over that symbol.
LEMMA FurtherIs ==
  ASSUME Patched, NEW C, NEW q, IsSeq(q), \A k \in 1 .. Len(q) : IsMoving(C, q[k]),
         NEW x, x # 0, NEW m, AreThose(m, q, SameAhead(q, x)), NEW K, K = Further(m)
  PROVE  Arrives(C, x, K)
<1>1. /\ IsSeq(m) /\ DOMAIN m = 1 .. Len(m) /\ Len(m) \in Nat
      /\ \A k \in 1 .. Len(m) : IsMoving(C, m[k]) /\ Ahead(<<m[k].prod, m[k].dot>>) = x
  <2>1. IsSeq(m)
    BY DEF AreThose
  <2>2. ASSUME NEW k \in 1 .. Len(m)
        PROVE  IsMoving(C, m[k]) /\ Ahead(<<m[k].prod, m[k].dot>>) = x
    <3>1. PICK i \in 1 .. Len(q) : m[k] = q[i]
      BY DEF AreThose
    <3>2. q[i] \in SameAhead(q, x)
      BY <3>1 DEF AreThose
    <3>3. Ahead(<<q[i].prod, q[i].dot>>) = x
      BY <3>2, SameAheadIs
    <3> QED BY <3>1, <3>3
  <2> QED BY <2>1, <2>2, SeqIs
<1>2. K = [k \in 1 .. Len(m) |-> [m[k] EXCEPT !.dot = @ + 1]]
  BY <1>1 DEF Further
<1>3. IsSeq(K) /\ Len(K) = Len(m)
  <2>1. K = [k \in 1 .. Len(m) |-> K[k]]
    BY <1>2
  <2> QED BY <1>1, <2>1, SeqFunction
<1>4. ASSUME NEW k \in 1 .. Len(K)
      PROVE  /\ IsItem(K[k]) /\ K[k].dot >= 1 /\ K[k].prod = m[k].prod
             /\ K[k].dot - 1 = m[k].dot
             /\ <<m[k].prod, m[k].dot>> \in C \/ (K[k].dot = 1 /\ K[k].prod \in Closure(C))
  <2>1. PICK it : it = m[k]
    OBVIOUS
  <2>2. PICK h : h = [it EXCEPT !.dot = @ + 1]
    OBVIOUS
  <2>3. K[k] = h
    BY <1>2, <1>3, <2>1, <2>2
  <2>4. IsMoving(C, it) /\ Ahead(<<it.prod, it.dot>>) = x
    BY <1>1, <1>3, <2>1
  <2>5. /\ IsItem(h) /\ h.prod = it.prod /\ h.dot = it.dot + 1 /\ h.dot >= 1
        /\ h.dot - 1 = it.dot
        /\ <<it.prod, it.dot>> \in C \/ (h.dot = 1 /\ h.prod \in Closure(C))
    BY <2>2, <2>4, OneFurther
  <2> QED BY <2>1, <2>3, <2>5, Zenon
<1>5. GoesTo(C, x, CoresOf(K))
  <2> SUFFICES ASSUME NEW k \in 1 .. Len(K), NEW d, d = <<K[k].prod, K[k].dot>>
               PROVE  /\ d[2] >= 1 /\ Ahead(<<d[1], d[2] - 1>>) = x
                      /\ <<d[1], d[2] - 1>> \in C \/ (d[2] = 1 /\ d[1] \in Closure(C))
    BY Zenon DEF GoesTo, CoresOf
  <2>1. d[1] = m[k].prod /\ d[2] = K[k].dot /\ d[2] - 1 = m[k].dot
    BY <1>4
  <2>2. Ahead(<<m[k].prod, m[k].dot>>) = x
    BY <1>1, <1>3
  <2>3. <<m[k].prod, m[k].dot>> \in C \/ (K[k].dot = 1 /\ K[k].prod \in Closure(C))
    BY <1>4
  <2> QED BY <1>4, <2>1, <2>2, <2>3
<1> QED BY <1>3, <1>4, <1>5 DEF Arrives

\* The others are still to go.
LEMMA OthersMove ==
  ASSUME NEW C, NEW q, NEW row, Moving(C, q, row), NEW x, NEW r,
         AreThose(r, q, ToSet(q) \ SameAhead(q, x)), NEW other, row \subseteq other,
         x \in other \/ \A n \in Closure(C) : prods[n].lhs \in other \/ prods[n].lhs # x
  PROVE  Moving(C, r, other)
<1>1. /\ IsSeq(q) /\ \A k \in 1 .. Len(q) : IsMoving(C, q[k])
      /\ \A n \in Closure(C) :
           \/ prods[n].lhs \in row
           \/ \E k \in 1 .. Len(q) : Ahead(<<q[k].prod, q[k].dot>>) = prods[n].lhs
  BY Zenon DEF Moving
<1>2. IsSeq(r) /\ \A k \in 1 .. Len(r) : IsMoving(C, r[k])
  BY <1>1 DEF AreThose
<1>3. ASSUME NEW n \in Closure(C), prods[n].lhs \notin other
      PROVE  \E k \in 1 .. Len(r) : Ahead(<<r[k].prod, r[k].dot>>) = prods[n].lhs
  <2>1. PICK i \in 1 .. Len(q) : Ahead(<<q[i].prod, q[i].dot>>) = prods[n].lhs
    BY <1>1, <1>3
  <2>2. prods[n].lhs # x
    BY <1>3
  <2>3. q[i] \in ToSet(q) \ SameAhead(q, x)
    <3>1. Ahead(<<q[i].prod, q[i].dot>>) # x
      BY <2>1, <2>2, Zenon
    <3>2. IsSeq(q)
      BY <1>1
    <3>3. q[i] \in ToSet(q) \ SameAhead(q, x) <=> Ahead(<<q[i].prod, q[i].dot>>) # x
      BY <3>2, SameAheadIs
    <3> QED BY <3>1, <3>3, Zenon
  <2>4. PICK k \in 1 .. Len(r) : r[k] = q[i]
    BY <2>3 DEF AreThose
  <2> QED BY <2>1, <2>4
<1> QED BY <1>2, <1>3, Zenon DEF Moving

\* What leads somewhere still does when there are more states.
Extends(S, T) == \A s \in DOMAIN S : s \in DOMAIN T /\ T[s] = S[s]
LEMMA MoreStates ==
  ASSUME NEW S, NEW T, Extends(S, T), NEW s \in DOMAIN S, NEW x, NEW a
  PROVE  /\ ActOK(S, s, x, a) => ActOK(T, s, x, a)
         /\ GotoOK(S, s, x, a) => GotoOK(T, s, x, a)
<1>1. T[s] = S[s] /\ (a + 1 \in DOMAIN S => a + 1 \in DOMAIN T /\ T[a + 1] = S[a + 1])
  BY Zenon DEF Extends
<1>2. ASSUME ActOK(S, s, x, a) PROVE ActOK(T, s, x, a)
  BY <1>1, <1>2, Zenon DEF ActOK
<1>3. ASSUME GotoOK(S, s, x, a) PROVE GotoOK(T, s, x, a)
  BY <1>1, <1>3, Zenon DEF GotoOK
<1> QED BY <1>2, <1>3

IsAdded(L, A, G, n, st, M, B, H, V) ==
  /\ Machine(M, B, H, V) /\ Len(M) = n
  /\ \A s \in 1 .. Len(L) : /\ M[s] = L[s] /\ CoresAt(M)[s] = CoresAt(L)[s]
                            /\ B[s] = A[s] /\ H[s] = G[s]
  /\ CoresAt(M)[n] = CoresOf(st.kernel)

\* A machine stays one when a state, with empty rows, is added.
LEMMA StateAdded ==
  ASSUME NEW L, NEW A, NEW G, NEW U, Machine(L, A, G, U), NEW n \in Nat, n = Len(L) + 1,
         n <= MAXSTATE, NEW st, StateOK(st, n), ~st.closed,
         NEW M, M = Append(L, st), NEW B, B = Append(A, <<>>), NEW H, H = Append(G, <<>>),
         NEW V, V = U \cup {n}
  PROVE  IsAdded(L, A, G, n, st, M, B, H, V)
<1>1. /\ IsSeq(L) /\ Len(L) > 0 /\ Len(L) \in Nat /\ U \subseteq 1 .. Len(L)
      /\ IsSeq(A) /\ Len(A) = Len(L) /\ IsSeq(G) /\ Len(G) = Len(L)
  BY SeqIs DEF Machine
<1>2. IsSeq(M) /\ Len(M) = n /\ M[n] = st /\ \A s \in 1 .. Len(L) : M[s] = L[s]
  BY <1>1, SeqAppend
<1>3. IsSeq(B) /\ Len(B) = n /\ B[n] = <<>> /\ \A s \in 1 .. Len(L) : B[s] = A[s]
  BY <1>1, SeqAppend
<1>4. IsSeq(H) /\ Len(H) = n /\ H[n] = <<>> /\ \A s \in 1 .. Len(L) : H[s] = G[s]
  BY <1>1, SeqAppend
<1>5. (1 .. n) = (1 .. Len(L)) \cup {n}
  BY <1>1
<1>6. /\ DOMAIN CoresAt(L) = 1 .. Len(L) /\ DOMAIN CoresAt(M) = 1 .. n
      /\ CoresAt(M)[n] = CoresOf(st.kernel)
      /\ \A s \in 1 .. Len(L) : CoresAt(M)[s] = CoresAt(L)[s]
  BY <1>2, <1>5 DEF CoresAt
<1>7. PICK S : S = CoresAt(L)
  OBVIOUS
<1>8. PICK T : T = CoresAt(M)
  OBVIOUS
<1>9. Extends(S, T)
  BY <1>5, <1>6, <1>7, <1>8 DEF Extends
<1>10. ASSUME NEW s \in 1 .. Len(L)
       PROVE  /\ StateOK(M[s], s)
              /\ \A x \in DOMAIN B[s] : ActOK(T, s, x, B[s][x])
              /\ \A x \in DOMAIN H[s] : GotoOK(T, s, x, H[s][x])
              /\ M[s].closed => \A k \in Closure(T[s]) : prods[k].lhs \in DOMAIN H[s]
  <2>1. /\ StateOK(L[s], s)
        /\ \A x \in DOMAIN A[s] : ActOK(S, s, x, A[s][x])
        /\ \A x \in DOMAIN G[s] : GotoOK(S, s, x, G[s][x])
        /\ L[s].closed => \A k \in Closure(S[s]) : prods[k].lhs \in DOMAIN G[s]
    BY <1>7, Zenon DEF Machine
  <2>2. M[s] = L[s] /\ B[s] = A[s] /\ H[s] = G[s] /\ T[s] = S[s] /\ s \in DOMAIN S
    BY <1>2, <1>3, <1>4, <1>6, <1>7, <1>8
  <2>4. s \in DOMAIN S
    BY <2>2
  <2>3. ASSUME NEW x, NEW a
        PROVE  /\ ActOK(S, s, x, a) => ActOK(T, s, x, a)
               /\ GotoOK(S, s, x, a) => GotoOK(T, s, x, a)
    BY <1>9, <2>4, MoreStates, Zenon
  <2> QED BY <2>1, <2>2, <2>3, Zenon
<1>11. /\ StateOK(M[n], n)
       /\ \A x \in DOMAIN B[n] : ActOK(T, n, x, B[n][x])
       /\ \A x \in DOMAIN H[n] : GotoOK(T, n, x, H[n][x])
       /\ M[n].closed => \A k \in Closure(T[n]) : prods[k].lhs \in DOMAIN H[n]
  <2>1. DOMAIN B[n] = {} /\ DOMAIN H[n] = {}
    BY <1>3, <1>4, SeqOfNone
  <2>2. StateOK(M[n], n) /\ ~M[n].closed
    BY <1>2
  <2>3. \A x \in {} : FALSE
    OBVIOUS
  <2> QED BY <2>1, <2>2, <2>3, Zenon
<1>12. Machine(M, B, H, V)
  <2>1. \A s \in 1 .. Len(M) : s \in 1 .. Len(L) \/ s = n
    BY <1>2, <1>5
  <2>2. ASSUME NEW s \in 1 .. Len(M)
        PROVE  /\ StateOK(M[s], s)
               /\ \A x \in DOMAIN B[s] : ActOK(CoresAt(M), s, x, B[s][x])
               /\ \A x \in DOMAIN H[s] : GotoOK(CoresAt(M), s, x, H[s][x])
               /\ M[s].closed => \A k \in Closure(CoresAt(M)[s]) : prods[k].lhs \in DOMAIN H[s]
    BY <1>8, <1>10, <1>11, <2>1, Zenon
  <2>3. /\ IsSeq(M) /\ Len(M) > 0 /\ Len(M) <= MAXSTATE /\ V \subseteq 1 .. Len(M)
        /\ IsSeq(B) /\ Len(B) = Len(M) /\ IsSeq(H) /\ Len(H) = Len(M)
    <3>1. V \subseteq (1 .. Len(L)) \cup {n}
      BY <1>1
    <3>2. Len(M) = n /\ n > 0 /\ n <= MAXSTATE
      BY <1>2
    <3> QED BY <1>2, <1>3, <1>4, <1>5, <3>1, <3>2, Zenon
  <2> QED BY <2>2, <2>3, Zenon DEF Machine
<1> QED BY <1>2, <1>3, <1>4, <1>6, <1>12, Zenon DEF IsAdded

WithKernel(L, s, K) == [L EXCEPT ![s].kernel = MergeLa(@, K)]
IsMerged(L, A, G, M, V) ==
  /\ Machine(M, A, G, V) /\ CoresAt(M) = CoresAt(L) /\ Len(M) = Len(L)
  /\ \A q \in 1 .. Len(L) : M[q].closed <=> L[q].closed

\* A machine stays one when a kernel takes lookaheads.
LEMMA KernelMerged ==
  ASSUME NEW L, NEW A, NEW G, NEW U, Machine(L, A, G, U), NEW s \in 1 .. Len(L), NEW K,
         NEW M, M = WithKernel(L, s, K), NEW V, V \subseteq 1 .. Len(L)
  PROVE  IsMerged(L, A, G, M, V)
<1>1. /\ IsSeq(L) /\ \A q \in 1 .. Len(L) : StateOK(L[q], q)
  BY DEF Machine
<1>2. DOMAIN L = 1 .. Len(L) /\ Len(L) \in Nat
  BY <1>1, SeqIs
<1>3. PICK o : o = L[s]
  OBVIOUS
<1>4. PICK r : r = MergeLa(o.kernel, K)
  OBVIOUS
<1>5. PICK m : m = [o EXCEPT !.kernel = r]
  OBVIOUS
<1>6. M = [L EXCEPT ![s] = m]
  BY <1>3, <1>4, <1>5 DEF WithKernel
<1>7. StateOK(o, s)
  BY <1>1, <1>3
<1>8. /\ IsSeq(r) /\ Len(r) = Len(o.kernel)
      /\ \A k \in 1 .. Len(r) : /\ IsItem(r[k]) /\ r[k].prod = o.kernel[k].prod
                                /\ r[k].dot = o.kernel[k].dot
  <2>1. IsSeq(o.kernel) /\ \A k \in 1 .. Len(o.kernel) : IsItem(o.kernel[k])
    BY <1>7 DEF StateOK
  <2>2. \A k \in 1 .. Len(o.kernel) : DOMAIN o.kernel[k] = {"prod", "dot", "la"}
    BY <2>1 DEF IsItem
  <2>3. /\ IsSeq(r) /\ Len(r) = Len(o.kernel)
        /\ \A k \in 1 .. Len(o.kernel) : /\ r[k].prod = o.kernel[k].prod /\ r[k].dot = o.kernel[k].dot
                                         /\ DOMAIN r[k] = {"prod", "dot", "la"}
    <3>1. IsSeq(o.kernel)
      BY <2>1
    <3> QED BY <1>4, <2>2, <3>1, MergedLa
  <2> QED BY <2>1, <2>3 DEF IsItem
<1>9. CoresOf(r) = CoresOf(o.kernel)
  BY <1>8 DEF CoresOf
<1>10. /\ DOMAIN m = {"kernel", "epsilon", "closed"}
       /\ m.kernel = r /\ m.epsilon = o.epsilon /\ m.closed = o.closed
  <2>1. DOMAIN o = {"kernel", "epsilon", "closed"}
    BY <1>7 DEF StateOK
  <2> QED BY <1>5, <2>1
<1>11. StateOK(m, s)
  <2>1. s # 1 => \A k \in 1 .. Len(r) : r[k].dot >= 1
    BY <1>7, <1>8 DEF StateOK
  <2>2. AreEps(CoresOf(r), o.epsilon) /\ (s = 1 => CoresOf(r) = {<<1, 0>>})
    BY <1>7, <1>9 DEF StateOK
  <2> QED BY <1>8, <1>10, <2>1, <2>2 DEF StateOK
<1>12. /\ IsSeq(M) /\ Len(M) = Len(L) /\ M[s] = m
       /\ \A q \in 1 .. Len(L) : q # s => M[q] = L[q]
  <2>1. IsSeq(L)
    BY <1>1
  <2>2. /\ IsSeq([L EXCEPT ![s] = m]) /\ Len([L EXCEPT ![s] = m]) = Len(L)
        /\ s \in 1 .. Len(L) => [L EXCEPT ![s] = m][s] = m
        /\ \A q \in 1 .. Len(L) : q # s => [L EXCEPT ![s] = m][q] = L[q]
    BY <2>1, SeqExcept, Zenon
  <2> QED BY <1>6, <2>2, Zenon
<1>13. ASSUME NEW q \in 1 .. Len(L)
       PROVE  /\ StateOK(M[q], q) /\ CoresOf(M[q].kernel) = CoresOf(L[q].kernel)
              /\ M[q].closed <=> L[q].closed
  <2>1. CASE q = s
    BY <1>3, <1>9, <1>10, <1>11, <1>12, <2>1, Zenon
  <2>2. CASE q # s
    BY <1>1, <1>12, <2>2, Zenon
  <2> QED BY <2>1, <2>2, Zenon
<1>14. Machine(M, A, G, V) /\ CoresAt(M) = CoresAt(L)
  <2>1. /\ IsSeq(M) /\ Len(M) = Len(L) /\ V \subseteq 1 .. Len(L)
        /\ \A q \in 1 .. Len(L) : StateOK(M[q], q) /\ CoresOf(M[q].kernel) = CoresOf(L[q].kernel)
        /\ \A q \in 1 .. Len(L) : M[q].closed => L[q].closed
    BY <1>1, <1>12, <1>13, Zenon
  <2> QED BY <2>1, MachineStates
<1> QED BY <1>12, <1>13, <1>14, Zenon DEF IsMerged

\* An entry in the row of one state.
Change(t, n, x) == [t EXCEPT ![n] = x]
IsChanged(t, n, x, u) ==
  /\ IsSeq(u) /\ Len(u) = Len(t) /\ u[n] = x /\ \A q \in 1 .. Len(t) : q # n => u[q] = t[q]
LEMMA ChangeIs ==
  ASSUME NEW t, IsSeq(t), NEW n \in 1 .. Len(t), NEW x, NEW u, u = Change(t, n, x)
  PROVE  IsChanged(t, n, x, u)
<1>1. PICK v : v = [t EXCEPT ![n] = x]
  OBVIOUS
<1>4. Len(t) \in Nat /\ DOMAIN t = 1 .. Len(t)
  BY SeqIs
<1>5. v[n] = x /\ \A q \in 1 .. Len(t) : q # n => v[q] = t[q]
  BY <1>1, <1>4
<1>6. v = [i \in 1 .. Len(t) |-> v[i]]
  BY <1>1, <1>4
<1>2. IsSeq(v) /\ Len(v) = Len(t) /\ v[n] = x /\ \A q \in 1 .. Len(t) : q # n => v[q] = t[q]
  BY <1>4, <1>5, <1>6, SeqFunction
<1>3. u = v
  BY <1>1 DEF Change
<1> QED BY <1>2, <1>3 DEF IsChanged

WithEntry(t, s, x, do) == [t EXCEPT ![s] = Entered(@, x, do)]
IsEntered(t, s, x, do, u) ==
  /\ IsSeq(u) /\ Len(u) = Len(t)
  /\ DOMAIN u[s] = DOMAIN t[s] \cup {x} /\ u[s][x] = do
  /\ \A y \in DOMAIN t[s] : y # x => u[s][y] = t[s][y]
  /\ \A q \in 1 .. Len(t) : q # s => u[q] = t[q]

\* A row with one more entry.
LEMMA EntryIs ==
  ASSUME NEW t, IsSeq(t), NEW s \in 1 .. Len(t), NEW x, NEW do, NEW u, u = WithEntry(t, s, x, do)
  PROVE  IsEntered(t, s, x, do, u)
<1>1. PICK row : row = t[s]
  OBVIOUS
<1>2. PICK new : new = [y \in DOMAIN row \cup {x} |-> IF y = x THEN do ELSE row[y]]
  OBVIOUS
<1>3. u = Change(t, s, new)
  BY <1>1, <1>2 DEF WithEntry, Entered, Change
<1>4. PICK v : v = Change(t, s, new)
  OBVIOUS
<1>5. /\ IsSeq(v) /\ Len(v) = Len(t) /\ v[s] = new
      /\ \A q \in 1 .. Len(t) : q # s => v[q] = t[q]
  BY <1>4, ChangeIs DEF IsChanged
<1>6. /\ DOMAIN new = DOMAIN row \cup {x} /\ new[x] = do
      /\ \A y \in DOMAIN row : y # x => new[y] = row[y]
  BY <1>2
<1>7. v = u
  BY <1>3, <1>4
<1> QED BY <1>1, <1>5, <1>6, <1>7, Zenon DEF IsEntered

\* A shift is entered in the row of actions of its state.
LEMMA ActEntered ==
  ASSUME NEW L, NEW A, NEW G, NEW U, Machine(L, A, G, U), NEW s \in 1 .. Len(L),
         NEW x, NEW do, ActOK(CoresAt(L), s, x, do), NEW B, IsEntered(A, s, x, do, B)
  PROVE  Machine(L, B, G, U)
<1>1. PICK S : S = CoresAt(L)
  OBVIOUS
<1>2. ASSUME NEW q \in 1 .. Len(L), NEW y \in DOMAIN B[q]
      PROVE  ActOK(S, q, y, B[q][y])
  <2>1. \A z \in DOMAIN A[q] : ActOK(S, q, z, A[q][z])
    BY <1>1, Zenon DEF Machine
  <2>2. Len(A) = Len(L)
    BY Zenon DEF Machine
  <2>3. CASE q # s
    <3>1. B[q] = A[q]
      BY <2>2, <2>3, Zenon DEF IsEntered
    <3> QED BY <1>2, <2>1, <3>1, Zenon
  <2>4. CASE q = s /\ y = x
    BY <1>1, <2>4, Zenon DEF IsEntered
  <2>5. CASE q = s /\ y # x
    <3>1. y \in DOMAIN A[q] /\ B[q][y] = A[q][y]
      BY <1>2, <2>5 DEF IsEntered
    <3> QED BY <2>1, <3>1, Zenon
  <2> QED BY <2>3, <2>4, <2>5
<1>3. IsSeq(B) /\ Len(B) = Len(L)
  BY Zenon DEF IsEntered, Machine
<1>4. ASSUME NEW q \in 1 .. Len(L)
      PROVE  /\ StateOK(L[q], q)
             /\ \A y \in DOMAIN G[q] : GotoOK(S, q, y, G[q][y])
             /\ L[q].closed => \A n \in Closure(S[q]) : prods[n].lhs \in DOMAIN G[q]
  BY <1>1, Zenon DEF Machine
<1>5. /\ IsSeq(L) /\ Len(L) > 0 /\ Len(L) <= MAXSTATE /\ U \subseteq 1 .. Len(L)
      /\ IsSeq(G) /\ Len(G) = Len(L)
  BY Zenon DEF Machine
<1> QED BY <1>1, <1>2, <1>3, <1>4, <1>5, Zenon DEF Machine

\* A goto is entered in the row of its state.
LEMMA GotoEntered ==
  ASSUME NEW L, NEW A, NEW G, NEW U, Machine(L, A, G, U), NEW s \in 1 .. Len(L),
         NEW x, NEW do, GotoOK(CoresAt(L), s, x, do), NEW H, IsEntered(G, s, x, do, H)
  PROVE  Machine(L, A, H, U)
<1>1. PICK S : S = CoresAt(L)
  OBVIOUS
<1>6. Len(G) = Len(L)
  BY Zenon DEF Machine
<1>2. ASSUME NEW q \in 1 .. Len(L), NEW y \in DOMAIN H[q]
      PROVE  GotoOK(S, q, y, H[q][y])
  <2>1. \A z \in DOMAIN G[q] : GotoOK(S, q, z, G[q][z])
    BY <1>1, Zenon DEF Machine
  <2>3. CASE q # s
    <3>1. H[q] = G[q]
      BY <1>6, <2>3, Zenon DEF IsEntered
    <3> QED BY <1>2, <2>1, <3>1, Zenon
  <2>4. CASE q = s /\ y = x
    BY <1>1, <2>4, Zenon DEF IsEntered
  <2>5. CASE q = s /\ y # x
    <3>1. y \in DOMAIN G[q] /\ H[q][y] = G[q][y]
      BY <1>2, <2>5 DEF IsEntered
    <3> QED BY <2>1, <3>1, Zenon
  <2> QED BY <2>3, <2>4, <2>5
<1>3. IsSeq(H) /\ Len(H) = Len(L)
  BY <1>6, Zenon DEF IsEntered
<1>7. ASSUME NEW q \in 1 .. Len(L) PROVE DOMAIN G[q] \subseteq DOMAIN H[q]
  <2>1. CASE q = s
    BY <2>1 DEF IsEntered
  <2>2. CASE q # s
    BY <1>6, <2>2 DEF IsEntered
  <2> QED BY <2>1, <2>2
<1>4. ASSUME NEW q \in 1 .. Len(L)
      PROVE  /\ StateOK(L[q], q)
             /\ \A y \in DOMAIN A[q] : ActOK(S, q, y, A[q][y])
             /\ L[q].closed => \A n \in Closure(S[q]) : prods[n].lhs \in DOMAIN H[q]
  <2>1. /\ StateOK(L[q], q)
        /\ \A y \in DOMAIN A[q] : ActOK(S, q, y, A[q][y])
        /\ L[q].closed => \A n \in Closure(S[q]) : prods[n].lhs \in DOMAIN G[q]
    BY <1>1, Zenon DEF Machine
  <2>2. \A y : y \in DOMAIN G[q] => y \in DOMAIN H[q]
    BY <1>7
  <2> QED BY <2>1, <2>2, Zenon
<1>5. /\ IsSeq(L) /\ Len(L) > 0 /\ Len(L) <= MAXSTATE /\ U \subseteq 1 .. Len(L)
      /\ IsSeq(A) /\ Len(A) = Len(L)
  BY Zenon DEF Machine
<1> QED BY <1>1, <1>2, <1>3, <1>4, <1>5, Zenon DEF Machine

EntersLonger(t, s, x, do, z) ==
  Append(WithEntry(t, s, x, do), z) = WithEntry(Append(t, z), s, x, do)

\* An entry and an empty row may be made in either order.
LEMMA AppendEntry ==
  ASSUME NEW t, IsSeq(t), NEW s \in 1 .. Len(t), NEW x, NEW do, NEW z
  PROVE  EntersLonger(t, s, x, do, z)
<1>1. PICK u : u = WithEntry(t, s, x, do)
  OBVIOUS
<1>2. PICK v : v = Append(t, z)
  OBVIOUS
<1>3. PICK new : new = Entered(t[s], x, do)
  OBVIOUS
<1>4. u = Change(t, s, new)
  BY <1>1, <1>3 DEF WithEntry, Change
<1>5. IsSeq(v) /\ Len(v) = Len(t) + 1 /\ v[Len(t) + 1] = z /\ \A i \in 1 .. Len(t) : v[i] = t[i]
  BY <1>2, SeqAppend
<1>6. WithEntry(v, s, x, do) = Change(v, s, new)
  BY <1>3, <1>5 DEF WithEntry, Change
<1>7. PICK m \in Nat : m = Len(t)
  BY SeqIs
<1>8. /\ IsSeq(u) /\ Len(u) = m /\ u[s] = new /\ \A i \in 1 .. m : i # s => u[i] = t[i]
  <2>1. IsChanged(t, s, new, u)
    BY <1>4, ChangeIs
  <2> QED BY <1>7, <2>1 DEF IsChanged
<1>9. PICK a : a = Append(u, z)
  OBVIOUS
<1>10. IsSeq(a) /\ Len(a) = m + 1 /\ a[m + 1] = z /\ \A i \in 1 .. m : a[i] = u[i]
  BY <1>8, <1>9, SeqAppend
<1>11. PICK b : b = Change(v, s, new)
  OBVIOUS
<1>12. IsSeq(b) /\ Len(b) = m + 1 /\ b[s] = new /\ \A i \in 1 .. m + 1 : i # s => b[i] = v[i]
  <2>1. s \in 1 .. Len(v)
    BY <1>5, <1>7
  <2>2. IsSeq(v)
    BY <1>5
  <2>3. IsChanged(v, s, new, b)
    BY <1>11, <2>1, <2>2, ChangeIs
  <2> QED BY <1>5, <1>7, <2>3 DEF IsChanged
<1>13. \A i \in 1 .. m + 1 : a[i] = b[i]
  <2> TAKE i \in 1 .. m + 1
  <2>1. i \in 1 .. m \/ (i = m + 1 /\ i # s)
    BY <1>7
  <2> QED BY <1>5, <1>7, <1>8, <1>10, <1>12, <2>1
<1>14. a = b
  <2>1. a = [i \in 1 .. m + 1 |-> a[i]] /\ b = [i \in 1 .. m + 1 |-> b[i]]
    BY <1>10, <1>12, SeqMade
  <2> QED BY <1>13, <2>1
<1> QED BY <1>1, <1>2, <1>6, <1>9, <1>11, <1>14 DEF EntersLonger

\* The tables with the state next where the items of K arrive from state s.
Reached(C, K, s, M, B, H, V, next) ==
  /\ Machine(M, B, H, V) /\ Waiting(M, V, s) /\ s \in 1 .. Len(M)
  /\ next \in 1 .. Len(M) /\ next # 1
  /\ CoresAt(M)[s] = C /\ CoresAt(M)[next] = CoresOf(K)

IsNewReached(C, K, s, L, A, G, M, B, H, V, n) ==
  Reached(C, K, s, M, B, H, V, n) /\ B[s] = A[s] /\ H[s] = G[s] /\ M[s].closed = L[s].closed

\* A state that newstate() has just made is reached as it should be.
LEMMA NewReached ==
  ASSUME NEW L, NEW A, NEW G, NEW U, Machine(L, A, G, U), NEW s \in 1 .. Len(L),
         Waiting(L, U, s), NEW C, C = CoresAt(L)[s], NEW x, NEW K, Arrives(C, x, K),
         NEW n \in Nat, n = Len(L) + 1, n <= MAXSTATE,
         NEW st, st = [kernel |-> K, epsilon |-> <<>>, closed |-> FALSE],
         NEW M, M = Append(L, st), NEW B, B = Append(A, <<>>), NEW H, H = Append(G, <<>>),
         NEW V, V = U \cup {n}
  PROVE  IsNewReached(C, K, s, L, A, G, M, B, H, V, n)
<1>1. Len(L) \in Nat /\ Len(L) > 0
  BY SeqIs DEF Machine
<1>2. /\ DOMAIN st = {"kernel", "epsilon", "closed"} /\ st.kernel = K /\ st.epsilon = <<>>
  OBVIOUS
<1>3. ~st.closed
  OBVIOUS
<1>4. StateOK(st, n)
  <2>1. IsSeq(K) /\ \A k \in 1 .. Len(K) : IsItem(K[k]) /\ K[k].dot >= 1
    BY Zenon DEF Arrives
  <2>2. n # 1
    BY <1>1
  <2>3. AreEps(CoresOf(K), <<>>)
    <3>1. IsSeq(<<>>) /\ \A k \in 1 .. Len(<<>>) : FALSE
      BY SeqOfNone
    <3> QED BY <3>1, Zenon DEF AreEps
  <2> QED BY <1>2, <2>1, <2>2, <2>3, Zenon DEF StateOK
<1>5. /\ Machine(M, B, H, V) /\ Len(M) = n
      /\ \A q \in 1 .. Len(L) : /\ M[q] = L[q] /\ CoresAt(M)[q] = CoresAt(L)[q]
                                /\ B[q] = A[q] /\ H[q] = G[q]
      /\ CoresAt(M)[n] = CoresOf(st.kernel)
  <2>1. IsAdded(L, A, G, n, st, M, B, H, V)
    BY <1>3, <1>4, StateAdded, Zenon
  <2> QED BY <2>1, Zenon DEF IsAdded
<1>6. Waiting(M, V, s)
  <2>1. \A q \in 1 .. Len(M) : q \in 1 .. Len(L) \/ q = n
    BY <1>1, <1>5
  <2>2. \A q : q \in V <=> q \in U \/ q = n
    OBVIOUS
  <2> QED BY <1>5, <2>1, <2>2, Zenon DEF Waiting
<1>7. s \in 1 .. Len(M) /\ n \in 1 .. Len(M) /\ n # 1
  BY <1>1, <1>5
<1>8. CoresAt(M)[s] = C /\ CoresAt(M)[n] = CoresOf(K)
  BY <1>2, <1>5
<1>9. Reached(C, K, s, M, B, H, V, n)
  BY <1>5, <1>6, <1>7, <1>8, Zenon DEF Reached
<1> QED BY <1>5, <1>9, Zenon DEF IsNewReached

\* And so is one that was there, whose kernel has the same cores.
LEMMA OldReached ==
  ASSUME NEW L, NEW A, NEW G, NEW U, Machine(L, A, G, U), NEW s \in 1 .. Len(L),
         Waiting(L, U, s), NEW C, C = CoresAt(L)[s], NEW x, NEW K, Arrives(C, x, K),
         NEW n \in 1 .. Len(L), CoresOf(L[n].kernel) = CoresOf(K),
         NEW M, M = WithKernel(L, n, K), NEW V, U \subseteq V, V \subseteq U \cup {n}
  PROVE  Reached(C, K, s, M, A, G, V, n) /\ (M[s].closed <=> L[s].closed)
<1>1. V \subseteq 1 .. Len(L)
  <2>1. U \subseteq 1 .. Len(L)
    BY Zenon DEF Machine
  <2> QED BY <2>1
<1>2. /\ Machine(M, A, G, V) /\ CoresAt(M) = CoresAt(L) /\ Len(M) = Len(L)
      /\ \A q \in 1 .. Len(L) : M[q].closed <=> L[q].closed
  <2>1. IsMerged(L, A, G, M, V)
    BY <1>1, KernelMerged, Zenon
  <2> QED BY <2>1, Zenon DEF IsMerged
<1>3. CoresAt(L)[n] = CoresOf(K)
  BY DEF CoresAt
<1>4. n # 1
  <2>1. \A k \in 1 .. Len(K) : K[k].dot >= 1
    BY Zenon DEF Arrives
  <2>2. SUFFICES ASSUME n = 1 PROVE FALSE
    OBVIOUS
  <2>3. StateOK(L[1], 1)
    BY <2>2, Zenon DEF Machine
  <2>4. <<1, 0>> \in CoresOf(K)
    BY <2>2, <2>3 DEF StateOK
  <2>5. PICK k \in 1 .. Len(K) : <<1, 0>> = <<K[k].prod, K[k].dot>>
    BY <2>4 DEF CoresOf
  <2> QED BY <2>1, <2>5
<1>5. Waiting(M, V, s)
  <2>1. \A q : q \in U => q \in V
    OBVIOUS
  <2> QED BY <1>2, <2>1, Zenon DEF Waiting
<1>6. Reached(C, K, s, M, A, G, V, n)
  BY <1>2, <1>3, <1>4, <1>5, Zenon DEF Reached
<1> QED BY <1>2, <1>6, Zenon

\* The entry is made in the table of the symbol, unless the state has been closed before.
WithAct(L, A, s, x, n)  == IF L[s].closed \/ ~ISTERM(x) THEN A ELSE WithEntry(A, s, x, n - 1)
WithGoto(L, G, s, x, n) == IF L[s].closed \/ ~ISNONTERM(x) THEN G ELSE WithEntry(G, s, x, n - 1)
AllEntered(C, K, s, G, M, B, H, V, n, x) ==
  /\ Reached(C, K, s, M, B, H, V, n) /\ DOMAIN G[s] \subseteq DOMAIN H[s]
  /\ x \in DOMAIN H[s] \/ \A k \in Closure(C) : prods[k].lhs \in DOMAIN H[s] \/ prods[k].lhs # x

\* Both kinds of entries: what newstate() does to the tables.
LEMMA EntriesMade ==
  ASSUME Patched, NEW C, NEW K, NEW s, NEW M, NEW A, NEW G, NEW V, NEW n,
         Reached(C, K, s, M, A, G, V, n), NEW x \in Words, Arrives(C, x, K),
         NEW B, B = WithAct(M, A, s, x, n), NEW H, H = WithGoto(M, G, s, x, n)
  PROVE  AllEntered(C, K, s, G, M, B, H, V, n, x)
<1>1. /\ Machine(M, A, G, V) /\ s \in 1 .. Len(M) /\ n \in 1 .. Len(M) /\ n # 1
      /\ CoresAt(M)[s] = C /\ CoresAt(M)[n] = CoresOf(K)
  BY Zenon DEF Reached
<1>2. PICK S : S = CoresAt(M)
  OBVIOUS
<1>3. GoesTo(S[s], x, S[n])
  BY <1>1, <1>2, Zenon DEF Arrives
<1>4. /\ IsSeq(M) /\ IsSeq(A) /\ Len(A) = Len(M) /\ IsSeq(G) /\ Len(G) = Len(M)
      /\ Len(M) \in Nat /\ DOMAIN S = 1 .. Len(M)
  <2>1. IsSeq(M) /\ IsSeq(A) /\ Len(A) = Len(M) /\ IsSeq(G) /\ Len(G) = Len(M)
    BY <1>1, Zenon DEF Machine
  <2>2. DOMAIN S = 1 .. Len(M)
    BY <1>2 DEF CoresAt
  <2> QED BY <2>1, <2>2, SeqIs
<1>5. PICK do : do = n - 1
  OBVIOUS
<1>6. do \in Int /\ do > 0 /\ ~(do <= 0) /\ do + 1 = n
  BY <1>1, <1>4, <1>5
<1>7. GotoOK(S, s, x, do)
  BY <1>1, <1>3, <1>4, <1>6, Zenon DEF GotoOK
<1>8. ISTERM(x) => ActOK(S, s, x, do)
  BY <1>1, <1>3, <1>4, <1>6, Zenon DEF ActOK
<1>9. Machine(M, B, G, V)
  <2>1. CASE M[s].closed \/ ~ISTERM(x)
    BY <1>1, <2>1, Zenon DEF WithAct
  <2>2. CASE ~(M[s].closed \/ ~ISTERM(x))
    <3>1. ISTERM(x)
      BY <2>2, Zenon
    <3>2. B = WithEntry(A, s, x, do)
      BY <1>5, <2>2, Zenon DEF WithAct
    <3>3. IsEntered(A, s, x, do, B)
      BY <1>1, <1>4, <3>2, EntryIs, Zenon
    <3> QED BY <1>1, <1>2, <1>8, <3>1, <3>3, ActEntered, Zenon
  <2> QED BY <2>1, <2>2, Zenon
<1>10. CASE M[s].closed \/ ~ISNONTERM(x)
  <2>1. H = G
    BY <1>10, Zenon DEF WithGoto
  <2>4. DOMAIN G[s] \subseteq DOMAIN H[s]
    BY <2>1
  <2>2. ASSUME NEW k \in Closure(C), prods[k].lhs = x PROVE prods[k].lhs \in DOMAIN G[s]
    <3>1. ISNONTERM(x)
      <4>1. k \in 1 .. Len(prods)
        BY DEF Closure
      <4>2. prods[k].lhs \in MINNONTERM .. MINACT - 1
        BY <4>1, PatchedIs
      <4> QED BY <2>2, <4>2, Zenon DEF ISNONTERM
    <3>2. M[s].closed
      BY <1>10, <3>1, Zenon
    <3>3. \A j \in Closure(CoresAt(M)[s]) : prods[j].lhs \in DOMAIN G[s]
      BY <1>1, <3>2, Zenon DEF Machine
    <3> QED BY <1>1, <3>3, Zenon
  <2>3. Reached(C, K, s, M, B, H, V, n)
    BY <1>9, <2>1, Zenon DEF Reached
  <2> QED BY <2>1, <2>2, <2>3, <2>4, Zenon DEF AllEntered
<1>11. CASE ~(M[s].closed \/ ~ISNONTERM(x))
  <2>1. H = WithEntry(G, s, x, do)
    BY <1>5, <1>11, Zenon DEF WithGoto
  <2>2. IsEntered(G, s, x, do, H)
    BY <1>1, <1>4, <2>1, EntryIs, Zenon
  <2>3. Machine(M, B, H, V)
    BY <1>1, <1>2, <1>7, <1>9, <2>2, GotoEntered, Zenon
  <2>4. Reached(C, K, s, M, B, H, V, n)
    BY <2>3, Zenon DEF Reached
  <2>5. DOMAIN H[s] = DOMAIN G[s] \cup {x}
    BY <2>2, Zenon DEF IsEntered
  <2>6. x \in DOMAIN H[s] /\ DOMAIN G[s] \subseteq DOMAIN H[s]
    BY <2>5
  <2> QED BY <2>4, <2>6, Zenon DEF AllEntered
<1> QED BY <1>10, <1>11, Zenon

\* The step, with what the program has in its hands when it takes it.
IsHeld(q, x, m, K, r) ==
  /\ q = items /\ x = right_of_dot(Head(q))
  /\ m = Those(q, SameAhead(q, x)) /\ K = Further(m) /\ r = Those(q, ToSet(q) \ SameAhead(q, x))
FreshState(K) == [kernel |-> K, epsilon |-> <<>>, closed |-> FALSE]
IsNew(L, A, G, U, s, x, K, M, B, H, V) ==
  LET n == Len(L) + 1
  IN /\ M = Append(L, FreshState(K)) /\ V = U \cup {n}
     /\ B = Append(WithAct(L, A, s, x, n), <<>>) /\ H = Append(WithGoto(L, G, s, x, n), <<>>)
IsOld(L, A, G, U, s, x, K, M, B, H, V, n) ==
  /\ M = WithKernel(L, n, K) /\ U \subseteq V /\ V \subseteq U \cup {n}
  /\ B = WithAct(L, A, s, x, n) /\ H = WithGoto(L, G, s, x, n)

\* newstate as an assignment of the names above (yystate.c:359-401).
LEMMA NewstateIs ==
  ASSUME newstate, NEW q, NEW x, NEW m, NEW K, NEW r, IsHeld(q, x, m, K, r)
  PROVE  /\ items # <<>> /\ items' = r /\ cur_state' = cur_state
         /\ prods' = prods /\ file' = file /\ does' = does /\ goal' = goal
         /\ at' = "fatal" \/ (at' = "shift" /\ ~(Len(lrstates') > MAXSTATE))
<1>1. items # <<>> /\ cur_state' = cur_state
  BY Zenon DEF newstate
<1>2. prods' = prods /\ file' = file /\ does' = does /\ goal' = goal
  BY Zenon DEF newstate, built
<1>3. items' = r
  BY Zenon DEF newstate, IsHeld, SameAhead
<1>4. at' = "fatal" \/ (at' = "shift" /\ ~(Len(lrstates') > MAXSTATE))
  BY Zenon DEF newstate
<1> QED BY <1>1, <1>2, <1>3, <1>4

\* What newstate makes of the machine.
LEMMA NewstateTables ==
  ASSUME newstate, NEW q, NEW x, NEW m, NEW K, NEW r, IsHeld(q, x, m, K, r),
         NEW L, L = lrstates, NEW A, A = actions, NEW G, G = gotos, NEW U, U = unfinished,
         NEW s, s = cur_state, NEW M, M = lrstates', NEW B, B = actions', NEW H, H = gotos',
         NEW V, V = unfinished'
  PROVE  /\ Existing(K) = {} => IsNew(L, A, G, U, s, x, K, M, B, H, V)
         /\ Existing(K) # {} => IsOld(L, A, G, U, s, x, K, M, B, H, V, Min(Existing(K)))
<1>1. ASSUME Existing(K) = {} PROVE IsNew(L, A, G, U, s, x, K, M, B, H, V)
  <2>1. K = [k \in DOMAIN m |-> [m[k] EXCEPT !.dot = @ + 1]]
    BY Zenon DEF IsHeld, Further
  <2>2. m = Those(items, {it \in ToSet(items) : right_of_dot(it) = x})
    BY Zenon DEF IsHeld, SameAhead
  <2>3. x = right_of_dot(Head(items))
    BY Zenon DEF IsHeld
  <2>4. M = Append(L, FreshState(K))
    BY <1>1, <2>1, <2>2, <2>3, Zenon DEF newstate, FreshState
  <2>5. V = U \cup {Len(L) + 1}
    BY <1>1, <2>1, <2>2, <2>3, Zenon DEF newstate
  <2>6. B = Append(WithAct(L, A, s, x, Len(L) + 1), <<>>)
    BY <1>1, <2>1, <2>2, <2>3, Zenon DEF newstate, WithAct, WithEntry
  <2>7. H = Append(WithGoto(L, G, s, x, Len(L) + 1), <<>>)
    BY <1>1, <2>1, <2>2, <2>3, Zenon DEF newstate, WithGoto, WithEntry
  <2> QED BY <2>4, <2>5, <2>6, <2>7, Zenon DEF IsNew
<1>2. ASSUME Existing(K) # {}
      PROVE  IsOld(L, A, G, U, s, x, K, M, B, H, V, Min(Existing(K)))
  <2>1. K = [k \in DOMAIN m |-> [m[k] EXCEPT !.dot = @ + 1]]
    BY Zenon DEF IsHeld, Further
  <2>2. m = Those(items, {it \in ToSet(items) : right_of_dot(it) = x})
    BY Zenon DEF IsHeld, SameAhead
  <2>3. x = right_of_dot(Head(items))
    BY Zenon DEF IsHeld
  <2>8. PICK n : n = Min(Existing(K))
    OBVIOUS
  <2>9. merge_lookaheads(n, K)
    BY <1>2, <2>1, <2>2, <2>3, <2>8, Zenon DEF newstate
  <2>4. M = WithKernel(L, n, K)
    BY <2>9, Zenon DEF merge_lookaheads, WithKernel
  <2>5. U \subseteq V /\ V \subseteq U \cup {n}
    <3>1. V = U \cup IF Grows(n, K) THEN {n} ELSE {}
      BY <2>9, Zenon DEF merge_lookaheads
    <3> QED BY <3>1
  <2>6. B = WithAct(L, A, s, x, n)
    BY <1>2, <2>1, <2>2, <2>3, <2>8, Zenon DEF newstate, WithAct, WithEntry
  <2>7. H = WithGoto(L, G, s, x, n)
    BY <1>2, <2>1, <2>2, <2>3, <2>8, Zenon DEF newstate, WithGoto, WithEntry
  <2> QED BY <2>4, <2>5, <2>6, <2>7, <2>8, Zenon DEF IsOld
<1> QED BY <1>1, <1>2, Zenon

\* newstate() finds a state by its cores (yystate.c:263-290).
LEMMA ExistingIs ==
  ASSUME NEW L, L = lrstates, IsSeq(L), \A q \in 1 .. Len(L) : IsSeq(L[q].kernel),
         NEW K, IsSeq(K), Existing(K) # {}, NEW n, n = Min(Existing(K))
  PROVE  n \in 1 .. Len(L) /\ CoresOf(L[n].kernel) = CoresOf(K)
<1>1. PICK E : E = Existing(K)
  OBVIOUS
<1>2. \A q : q \in E <=> q \in DOMAIN L /\ Core(L[q].kernel) = Core(K)
  BY <1>1 DEF Existing, Kernel
<1>3. DOMAIN L = 1 .. Len(L) /\ Len(L) \in Nat
  BY SeqIs
<1>4. n \in E
  <2>1. E \subseteq Nat /\ E # {} /\ n = Min(E)
    BY <1>1, <1>2, <1>3
  <2> QED BY <2>1, MinIs
<1>5. n \in 1 .. Len(L) /\ Core(L[n].kernel) = Core(K)
  BY <1>2, <1>3, <1>4
<1>6. PICK k : k = L[n].kernel
  OBVIOUS
<1>7. ASSUME NEW a, IsSeq(a)
      PROVE  CoresOf(a) = {Core(a)[i] : i \in DOMAIN Core(a)}
  <2>1. DOMAIN a = 1 .. Len(a)
    BY <1>7, SeqIs
  <2>2. /\ DOMAIN Core(a) = 1 .. Len(a)
        /\ \A i \in 1 .. Len(a) : Core(a)[i] = <<a[i].prod, a[i].dot>>
    BY <2>1 DEF Core
  <2> QED BY <2>2 DEF CoresOf
<1>8. IsSeq(k) /\ Core(k) = Core(K)
  BY <1>5, <1>6
<1>9. CoresOf(k) = CoresOf(K)
  <2>1. CoresOf(k) = {Core(k)[i] : i \in DOMAIN Core(k)}
    BY <1>7, <1>8
  <2>2. CoresOf(K) = {Core(K)[i] : i \in DOMAIN Core(K)}
    BY <1>7
  <2> QED BY <1>8, <2>1, <2>2
<1> QED BY <1>5, <1>6, <1>9

\* What newstate() leaves.
LEMMA NewReady ==
  ASSUME Patched, NEW L, NEW A, NEW G, NEW U, Machine(L, A, G, U), NEW s \in 1 .. Len(L),
         Waiting(L, U, s), NEW C, C = CoresAt(L)[s], NEW x \in Words, NEW K, Arrives(C, x, K),
         NEW M, NEW B, NEW H, NEW V, IsNew(L, A, G, U, s, x, K, M, B, H, V), Len(L) + 1 <= MAXSTATE
  PROVE  \E n : AllEntered(C, K, s, G, M, B, H, V, n, x)
<1>1. IsSeq(L) /\ IsSeq(A) /\ IsSeq(G) /\ Len(A) = Len(L) /\ Len(G) = Len(L) /\ Len(L) \in Nat
  BY SeqIs DEF Machine
<1>2. PICK n \in Nat : n = Len(L) + 1
  BY <1>1
<1>3. PICK B1 : B1 = Append(A, <<>>)
  OBVIOUS
<1>4. PICK H1 : H1 = Append(G, <<>>)
  OBVIOUS
<1>5. PICK st : st = FreshState(K)
  OBVIOUS
<1>6. /\ M = Append(L, st) /\ V = U \cup {n}
      /\ B = Append(WithAct(L, A, s, x, n), <<>>) /\ H = Append(WithGoto(L, G, s, x, n), <<>>)
  BY <1>2, <1>5, Zenon DEF IsNew
<1>7. /\ Reached(C, K, s, M, B1, H1, V, n)
      /\ B1[s] = A[s] /\ H1[s] = G[s] /\ M[s].closed = L[s].closed
  <2>1. n <= MAXSTATE
    BY <1>2
  <2>2. st = [kernel |-> K, epsilon |-> <<>>, closed |-> FALSE]
    BY <1>5, Zenon DEF FreshState
  <2>3. IsNewReached(C, K, s, L, A, G, M, B1, H1, V, n)
    BY <1>2, <1>3, <1>4, <1>6, <2>1, <2>2, NewReached, Zenon
  <2> QED BY <2>3, Zenon DEF IsNewReached
<1>8. B = WithAct(M, B1, s, x, n)
  <2>1. CASE L[s].closed \/ ~ISTERM(x)
    BY <1>3, <1>6, <1>7, <2>1, Zenon DEF WithAct
  <2>2. CASE ~(L[s].closed \/ ~ISTERM(x))
    <3>1. s \in 1 .. Len(A)
      BY <1>1
    <3>2. Append(WithEntry(A, s, x, n - 1), <<>>) = WithEntry(Append(A, <<>>), s, x, n - 1)
      <4>1. EntersLonger(A, s, x, n - 1, <<>>)
        BY <1>1, <3>1, AppendEntry, Zenon
      <4> QED BY <4>1, Zenon DEF EntersLonger
    <3> QED BY <1>3, <1>6, <1>7, <2>2, <3>2, Zenon DEF WithAct
  <2> QED BY <2>1, <2>2, Zenon
<1>9. H = WithGoto(M, H1, s, x, n)
  <2>1. CASE L[s].closed \/ ~ISNONTERM(x)
    BY <1>4, <1>6, <1>7, <2>1, Zenon DEF WithGoto
  <2>2. CASE ~(L[s].closed \/ ~ISNONTERM(x))
    <3>1. s \in 1 .. Len(G)
      BY <1>1
    <3>2. Append(WithEntry(G, s, x, n - 1), <<>>) = WithEntry(Append(G, <<>>), s, x, n - 1)
      <4>1. EntersLonger(G, s, x, n - 1, <<>>)
        BY <1>1, <3>1, AppendEntry, Zenon
      <4> QED BY <4>1, Zenon DEF EntersLonger
    <3> QED BY <1>4, <1>6, <1>7, <2>2, <3>2, Zenon DEF WithGoto
  <2> QED BY <2>1, <2>2, Zenon
<1>10. AllEntered(C, K, s, H1, M, B, H, V, n, x)
  BY <1>7, <1>8, <1>9, EntriesMade, Zenon
<1>11. AllEntered(C, K, s, G, M, B, H, V, n, x)
  BY <1>7, <1>10, Zenon DEF AllEntered
<1> QED BY <1>11, Zenon

\* The case that there is such a state.
LEMMA OldReady ==
  ASSUME Patched, NEW L, NEW A, NEW G, NEW U, Machine(L, A, G, U), NEW s \in 1 .. Len(L),
         Waiting(L, U, s), NEW C, C = CoresAt(L)[s], NEW x \in Words, NEW K, Arrives(C, x, K),
         NEW M, NEW B, NEW H, NEW V, NEW n \in 1 .. Len(L), CoresOf(L[n].kernel) = CoresOf(K),
         IsOld(L, A, G, U, s, x, K, M, B, H, V, n)
  PROVE  \E k : AllEntered(C, K, s, G, M, B, H, V, k, x)
<1>1. /\ M = WithKernel(L, n, K) /\ U \subseteq V /\ V \subseteq U \cup {n}
      /\ B = WithAct(L, A, s, x, n) /\ H = WithGoto(L, G, s, x, n)
  BY Zenon DEF IsOld
<1>2. Reached(C, K, s, M, A, G, V, n) /\ (M[s].closed <=> L[s].closed)
  BY <1>1, OldReached, Zenon
<1>3. B = WithAct(M, A, s, x, n)
  BY <1>1, <1>2, Zenon DEF WithAct
<1>4. H = WithGoto(M, G, s, x, n)
  BY <1>1, <1>2, Zenon DEF WithGoto
<1>5. AllEntered(C, K, s, G, M, B, H, V, n, x)
  BY <1>2, <1>3, <1>4, EntriesMade, Zenon
<1> QED BY <1>5, Zenon

\* The first item has a symbol ahead.
LEMMA FirstAhead ==
  ASSUME Patched, NEW q, IsSeq(q), q # <<>>, NEW C, \A k \in 1 .. Len(q) : IsMoving(C, q[k]),
         \A k \in 1 .. Len(q) : Ahead(<<q[k].prod, q[k].dot>>) # 0,
         NEW x, x = right_of_dot(Head(q))
  PROVE  x \in Words /\ x # 0
<1>1. Len(q) \in Nat /\ Len(q) > 0
  BY SeqIs
<1>2. Head(q) = q[1] /\ 1 \in 1 .. Len(q)
  BY <1>1, SeqTail
<1>3. PICK it : it = q[1]
  OBVIOUS
<1>4. PICK p : p = it.prod
  OBVIOUS
<1>5. PICK d : d = it.dot
  OBVIOUS
<1>6. PICK a : a = Ahead(<<p, d>>)
  OBVIOUS
<1>7. a # 0
  BY <1>2, <1>3, <1>4, <1>5, <1>6
<1>8. IsMoving(C, it)
  BY <1>2, <1>3
<1>9. p \in 1 .. Len(prods) /\ d \in 0 .. Len(prods[p].rhs)
  BY <1>4, <1>5, <1>8 DEF IsMoving, IsItem
<1>10. a \in Words
  BY <1>6, <1>7, <1>9, AheadIs
<1>11. x = a
  <2>1. right_of_dot(it) = a
    BY <1>4, <1>5, <1>6, RightIs
  <2> QED BY <1>2, <1>3, <2>1
<1> QED BY <1>7, <1>10, <1>11

\* newstate() keeps the machine, and the items that are left to move.
LEMMA NewstateStep ==
  ASSUME AtShift, newstate
  PROVE  at' = "fatal" \/ (at' = "shift" /\ AtShift')
<1> SUFFICES ASSUME at' # "fatal" PROVE at' = "shift" /\ AtShift'
  OBVIOUS
<1>1. PICK q : q = items
  OBVIOUS
<1>2. PICK x : x = right_of_dot(Head(q))
  OBVIOUS
<1>3. PICK m : m = Those(q, SameAhead(q, x))
  OBVIOUS
<1>4. PICK K : K = Further(m)
  OBVIOUS
<1>5. PICK r : r = Those(q, ToSet(q) \ SameAhead(q, x))
  OBVIOUS
<1>6. IsHeld(q, x, m, K, r)
  BY <1>1, <1>2, <1>3, <1>4, <1>5, Zenon DEF IsHeld
<1>7. PICK L : L = lrstates
  OBVIOUS
<1>8. PICK A : A = actions
  OBVIOUS
<1>9. PICK G : G = gotos
  OBVIOUS
<1>10. PICK U : U = unfinished
  OBVIOUS
<1>11. PICK s : s = cur_state
  OBVIOUS
<1>12. PICK M : M = lrstates'
  OBVIOUS
<1>13. PICK B : B = actions'
  OBVIOUS
<1>14. PICK H : H = gotos'
  OBVIOUS
<1>15. PICK V : V = unfinished'
  OBVIOUS
<1>16. PICK C : C = CoresAt(L)[s]
  OBVIOUS
<1>17. /\ items # <<>> /\ items' = r /\ cur_state' = s
       /\ prods' = prods /\ file' = file /\ does' = does /\ goal' = goal
       /\ at' = "shift" /\ ~(Len(M) > MAXSTATE)
  BY <1>6, <1>11, <1>12, NewstateIs, Zenon
<1>18. /\ Patched /\ Machine(L, A, G, U) /\ Waiting(L, U, s) /\ s \in 1 .. Len(L)
       /\ Moving(C, q, DOMAIN G[s])
  BY <1>1, <1>7, <1>8, <1>9, <1>10, <1>11, <1>16, Zenon DEF AtShift, Busy, Tables, CurCores
<1>19. \A k \in 1 .. Len(q) : Ahead(<<q[k].prod, q[k].dot>>) # 0
  BY <1>1, Zenon DEF AtShift
<1>20. IsSeq(q) /\ \A k \in 1 .. Len(q) : IsMoving(C, q[k])
  BY <1>18, Zenon DEF Moving
<1>21. x \in Words /\ x # 0
  <2>1. Patched /\ q # <<>>
    BY <1>1, <1>17, <1>18
  <2> QED BY <1>2, <1>19, <1>20, <2>1, FirstAhead, Zenon
<1>22. AreThose(m, q, SameAhead(q, x))
  BY <1>3, <1>20, ThoseAre, Zenon
<1>23. AreThose(r, q, ToSet(q) \ SameAhead(q, x))
  BY <1>5, <1>20, ThoseAre, Zenon
<1>24. Arrives(C, x, K)
  BY <1>4, <1>18, <1>20, <1>21, <1>22, FurtherIs, Zenon
<1>25. \E n : AllEntered(C, K, s, G, M, B, H, V, n, x)
  <2>1. CASE Existing(K) = {}
    <3>1. IsNew(L, A, G, U, s, x, K, M, B, H, V)
      BY <1>6, <1>7, <1>8, <1>9, <1>10, <1>11, <1>12, <1>13, <1>14, <1>15, <2>1,
         NewstateTables, Zenon
    <3>2. Len(L) + 1 <= MAXSTATE
      <4>1. M = Append(L, FreshState(K)) /\ IsSeq(L)
        BY <1>18, <3>1, Zenon DEF IsNew, Machine
      <4>2. Len(M) = Len(L) + 1 /\ Len(L) \in Nat
        BY <4>1, SeqAppend, SeqIs
      <4>3. MAXSTATE \in Nat
        BY LalrAssumption
      <4>4. ~(Len(M) > MAXSTATE)
        BY <1>17
      <4> QED BY <4>2, <4>3, <4>4
    <3> QED BY <1>16, <1>18, <1>21, <1>24, <3>1, <3>2, NewReady, Zenon
  <2>2. CASE Existing(K) # {}
    <3>1. PICK n : n = Min(Existing(K))
      OBVIOUS
    <3>2. IsOld(L, A, G, U, s, x, K, M, B, H, V, n)
      BY <1>6, <1>7, <1>8, <1>9, <1>10, <1>11, <1>12, <1>13, <1>14, <1>15, <2>2, <3>1,
         NewstateTables, Zenon
    <3>3. n \in 1 .. Len(L) /\ CoresOf(L[n].kernel) = CoresOf(K)
      <4>1. IsSeq(L) /\ \A k \in 1 .. Len(L) : IsSeq(L[k].kernel)
        BY <1>18, Zenon DEF Machine, StateOK
      <4>2. IsSeq(K)
        BY <1>24, Zenon DEF Arrives
      <4> QED BY <1>7, <2>2, <3>1, <4>1, <4>2, ExistingIs, Zenon
    <3> QED BY <1>16, <1>18, <1>21, <1>24, <3>2, <3>3, OldReady, Zenon
  <2> QED BY <2>1, <2>2
<1>26. PICK n : AllEntered(C, K, s, G, M, B, H, V, n, x)
  BY <1>25
<1>27. /\ Machine(M, B, H, V) /\ Waiting(M, V, s) /\ s \in 1 .. Len(M) /\ CoresAt(M)[s] = C
       /\ DOMAIN G[s] \subseteq DOMAIN H[s]
       /\ x \in DOMAIN H[s]
            \/ \A k \in Closure(C) : prods[k].lhs \in DOMAIN H[s] \/ prods[k].lhs # x
  BY <1>26, Zenon DEF AllEntered, Reached
<1>28. Moving(C, r, DOMAIN H[s])
  <2>1. PICK row : row = DOMAIN G[s]
    OBVIOUS
  <2>2. PICK other : other = DOMAIN H[s]
    OBVIOUS
  <2>3. /\ Moving(C, q, row) /\ row \subseteq other
        /\ x \in other \/ \A k \in Closure(C) : prods[k].lhs \in other \/ prods[k].lhs # x
    BY <1>18, <1>27, <2>1, <2>2, Zenon
  <2>4. Moving(C, r, other)
    BY <1>23, <2>3, OthersMove, Zenon
  <2> QED BY <2>2, <2>4
<1>29. \A k \in 1 .. Len(r) : Ahead(<<r[k].prod, r[k].dot>>) # 0
  BY <1>19, <1>23, Zenon DEF AreThose
<1>30. Tables' /\ Patched'
  <2>1. Tables'
    BY <1>12, <1>13, <1>14, <1>15, <1>17, <1>27, TablesMade, Zenon
  <2>2. Patched'
    BY <1>17, <1>18, SamePatched, Zenon
  <2> QED BY <2>1, <2>2
<1>31. Busy'
  BY <1>12, <1>15, <1>17, <1>27, <1>30, Zenon DEF Busy, Waiting
<1>32. CurCores' = C
  <2>1. CoresAt(M)' = CoresAt(M)
    BY DEF CoresAt, CoresOf
  <2> QED BY <1>12, <1>17, <1>27, <2>1 DEF CurCores
<1>33. Moving(C, r, DOMAIN H[s])'
  BY <1>17, <1>28, SameMachine
<1>34. \A k \in 1 .. Len(r) : Ahead(<<r[k].prod, r[k].dot>>)' # 0
  BY <1>17, <1>29, SameMachine
<1>35. AtShift'
  BY <1>14, <1>17, <1>31, <1>32, <1>33, <1>34 DEF AtShift
<1> QED BY <1>17, <1>35

-----------------------------------------------------------------------------
(* The state is done; when all are, the reductions are put in. *)

WithClosed(L, s) == [L EXCEPT ![s].closed = TRUE]

\* A state may be marked closed once it goes somewhere on all it closes over.
LEMMA ClosedSet ==
  ASSUME NEW L, NEW A, NEW G, NEW U, Machine(L, A, G, U), NEW s \in 1 .. Len(L), Waiting(L, U, s),
         \A n \in Closure(CoresAt(L)[s]) : prods[n].lhs \in DOMAIN G[s],
         NEW M, M = WithClosed(L, s)
  PROVE  Machine(M, A, G, U) /\ Waiting(M, U, NONE)
<1>1. /\ IsSeq(L) /\ U \subseteq 1 .. Len(L) /\ \A q \in 1 .. Len(L) : StateOK(L[q], q)
  BY DEF Machine
<1>3. PICK o : o = L[s]
  OBVIOUS
<1>5. PICK m : m = [o EXCEPT !.closed = TRUE]
  OBVIOUS
<1>6. M = Change(L, s, m)
  BY <1>3, <1>5 DEF WithClosed, Change
<1>7. StateOK(o, s)
  BY <1>1, <1>3
<1>8. /\ DOMAIN m = {"kernel", "epsilon", "closed"}
      /\ m.kernel = o.kernel /\ m.epsilon = o.epsilon /\ m.closed = TRUE
  <2>1. DOMAIN o = {"kernel", "epsilon", "closed"}
    BY <1>7 DEF StateOK
  <2> QED BY <1>5, <2>1
<1>9. StateOK(m, s)
  BY <1>7, <1>8, Zenon DEF StateOK
<1>10. /\ IsSeq(M) /\ Len(M) = Len(L) /\ M[s] = m
       /\ \A q \in 1 .. Len(L) : q # s => M[q] = L[q]
  <2>1. IsChanged(L, s, m, M)
    BY <1>1, <1>6, ChangeIs, Zenon
  <2> QED BY <2>1, Zenon DEF IsChanged
<1>11. ASSUME NEW q \in 1 .. Len(L)
       PROVE  /\ StateOK(M[q], q) /\ CoresOf(M[q].kernel) = CoresOf(L[q].kernel)
              /\ M[q].closed => \/ L[q].closed
                                \/ \A n \in Closure(CoresAt(L)[q]) : prods[n].lhs \in DOMAIN G[q]
              /\ M[q].closed \/ q \in U
  <2>1. CASE q = s
    BY <1>3, <1>8, <1>9, <1>10, <2>1, Zenon
  <2>2. CASE q # s
    <3>1. L[q].closed \/ q \in U
      BY <2>2, Zenon DEF Waiting
    <3> QED BY <1>1, <1>10, <2>2, <3>1, Zenon
  <2> QED BY <2>1, <2>2, Zenon
<1>12. Machine(M, A, G, U)
  <2>1. /\ IsSeq(M) /\ Len(M) = Len(L) /\ U \subseteq 1 .. Len(L)
        /\ \A q \in 1 .. Len(L) : StateOK(M[q], q) /\ CoresOf(M[q].kernel) = CoresOf(L[q].kernel)
    BY <1>1, <1>10, <1>11, Zenon
  <2>2. \A q \in 1 .. Len(L) :
          M[q].closed => \/ L[q].closed
                         \/ \A n \in Closure(CoresAt(L)[q]) : prods[n].lhs \in DOMAIN G[q]
    BY <1>11, Zenon
  <2> QED BY <2>1, <2>2, MachineStates, Zenon
<1> QED BY <1>10, <1>11, <1>12, Zenon DEF Waiting

\* When no item is left to move the state is done with (yystate.c:911).
LEMMA ClosedStep ==
  ASSUME AtShift, closed
  PROVE  at' = "lr" /\ AtLr'
<1>1. PICK L : L = lrstates
  OBVIOUS
<1>2. PICK A : A = actions
  OBVIOUS
<1>3. PICK G : G = gotos
  OBVIOUS
<1>4. PICK U : U = unfinished
  OBVIOUS
<1>5. PICK s : s = cur_state
  OBVIOUS
<1>6. PICK M : M = WithClosed(L, s)
  OBVIOUS
<1>7. /\ items = <<>> /\ at' = "lr" /\ lrstates' = M /\ actions' = A /\ gotos' = G /\ unfinished' = U
      /\ prods' = prods /\ file' = file /\ does' = does /\ goal' = goal
  BY <1>1, <1>2, <1>3, <1>4, <1>5, <1>6, Zenon DEF closed, built, WithClosed
<1>8. /\ Patched /\ Machine(L, A, G, U) /\ Waiting(L, U, s) /\ s \in 1 .. Len(L)
      /\ Moving(CoresAt(L)[s], items, DOMAIN G[s])
  BY <1>1, <1>2, <1>3, <1>4, <1>5, Zenon DEF AtShift, Busy, Tables, CurCores
<1>9. \A n \in Closure(CoresAt(L)[s]) : prods[n].lhs \in DOMAIN G[s]
  <2>1. \A k \in 1 .. Len(items) : FALSE
    BY <1>7, SeqOfNone
  <2> QED BY <1>8, <2>1, Zenon DEF Moving
<1>10. Machine(M, A, G, U) /\ Waiting(M, U, NONE)
  BY <1>6, <1>8, <1>9, ClosedSet, Zenon
<1>11. Tables' /\ Patched'
  <2>1. Tables'
    BY <1>7, <1>10, TablesMade, Zenon
  <2>2. Patched'
    BY <1>7, <1>8, SamePatched, Zenon
  <2> QED BY <2>1, <2>2
<1>12. Waiting(lrstates, unfinished, NONE)'
  BY <1>7, <1>10, Zenon DEF Waiting, NONE
<1> QED BY <1>7, <1>11, <1>12 DEF AtLr

\* A machine with another row of actions for one state.
LEMMA RowChanged ==
  ASSUME NEW L, NEW A, NEW G, NEW U, Machine(L, A, G, U), NEW s, NEW row,
         s \in 1 .. Len(L) => \A x \in DOMAIN row : ActOK(CoresAt(L), s, x, row[x]),
         NEW B, B = Change(A, s, row)
  PROVE  Machine(L, B, G, U)
<1>1. PICK S : S = CoresAt(L)
  OBVIOUS
<1>2. IsSeq(A) /\ Len(A) = Len(L)
  BY Zenon DEF Machine
<1>3. /\ IsSeq(B) /\ Len(B) = Len(L)
      /\ s \in 1 .. Len(L) => B[s] = row
      /\ \A q \in 1 .. Len(L) : q # s => B[q] = A[q]
  <2>1. CASE s \in 1 .. Len(L)
    <3>1. IsChanged(A, s, row, B)
      BY <1>2, <2>1, ChangeIs, Zenon
    <3> QED BY <1>2, <3>1, Zenon DEF IsChanged
  <2>2. CASE s \notin 1 .. Len(L)
    <3>1. DOMAIN A = 1 .. Len(L)
      BY <1>2, SeqIs
    <3>2. B = A
      <4>1. A = [i \in 1 .. Len(A) |-> A[i]]
        BY <1>2, SeqMade
      <4> QED BY <1>2, <2>2, <3>1, <4>1 DEF Change
    <3> QED BY <1>2, <2>2, <3>2
  <2> QED BY <2>1, <2>2
<1>4. ASSUME NEW q \in 1 .. Len(L), NEW y \in DOMAIN B[q]
      PROVE  ActOK(S, q, y, B[q][y])
  <2>1. CASE q = s
    BY <1>1, <1>3, <1>4, <2>1, Zenon
  <2>2. CASE q # s
    <3>1. B[q] = A[q]
      BY <1>3, <2>2, Zenon
    <3>2. \A z \in DOMAIN A[q] : ActOK(S, q, z, A[q][z])
      BY <1>1, Zenon DEF Machine
    <3> QED BY <1>4, <3>1, <3>2, Zenon
  <2> QED BY <2>1, <2>2
<1>5. ASSUME NEW q \in 1 .. Len(L)
      PROVE  /\ StateOK(L[q], q)
             /\ \A y \in DOMAIN G[q] : GotoOK(S, q, y, G[q][y])
             /\ L[q].closed => \A n \in Closure(S[q]) : prods[n].lhs \in DOMAIN G[q]
  BY <1>1, Zenon DEF Machine
<1>6. /\ IsSeq(L) /\ Len(L) > 0 /\ Len(L) <= MAXSTATE /\ U \subseteq 1 .. Len(L)
      /\ IsSeq(G) /\ Len(G) = Len(L)
  BY Zenon DEF Machine
<1> QED BY <1>1, <1>3, <1>4, <1>5, <1>6, Zenon DEF Machine

\* The items of a state that are complete.
LEMMA CanReduce ==
  ASSUME Patched, NEW C, NEW K, IsKernel(K, C), NEW e, AreEps(C, e), NEW q, Joined(K, e, q)
  PROVE  \A k \in 1 .. Len(q) : right_of_dot(q[k]) = 0 => Reduces(C, q[k].prod)
<1> SUFFICES ASSUME NEW k \in 1 .. Len(q), right_of_dot(q[k]) = 0 PROVE Reduces(C, q[k].prod)
  OBVIOUS
<1>1. CASE \E i \in 1 .. Len(K) : q[k] = K[i]
  <2>1. PICK i \in 1 .. Len(K) : q[k] = K[i]
    BY <1>1
  <2>2. PICK it : it = K[i]
    OBVIOUS
  <2>3. IsItem(it) /\ <<it.prod, it.dot>> \in C
    BY <2>2 DEF IsKernel
  <2>4. PICK p : p = it.prod
    OBVIOUS
  <2>5. PICK d : d = it.dot
    OBVIOUS
  <2>6. p \in 1 .. Len(prods) /\ d \in 0 .. Len(prods[p].rhs)
    BY <2>3, <2>4, <2>5 DEF IsItem
  <2>7. Ahead(<<p, d>>) = 0
    <3>1. right_of_dot(it) = 0
      BY <2>1, <2>2
    <3> QED BY <2>4, <2>5, <3>1, RightIs
  <2>8. d = Len(prods[p].rhs)
    <3>1. ~(d < Len(prods[p].rhs))
      BY <2>6, <2>7, AheadIs
    <3>2. Len(prods[p].rhs) \in Nat
      BY <2>6, PatchedIs
    <3> QED BY <2>6, <3>1, <3>2
  <2>9. <<p, Len(prods[p].rhs)>> \in C
    BY <2>3, <2>4, <2>5, <2>8
  <2> QED BY <2>1, <2>2, <2>4, <2>6, <2>9, Zenon DEF Reduces
<1>2. CASE \E i \in 1 .. Len(e) : q[k] = e[i]
  <2>1. PICK i \in 1 .. Len(e) : q[k] = e[i]
    BY <1>2
  <2>2. /\ e[i].prod \in 1 .. Len(prods) /\ e[i].prod \in Closure(C)
        /\ Len(prods[e[i].prod].rhs) = 0
    BY DEF AreEps, IsItem
  <2> QED BY <2>1, <2>2, Zenon DEF Reduces
<1> QED BY <1>1, <1>2, Zenon DEF Joined

\* A row stays right when the reductions of its state are put into it.
LEMMA ReducedRow ==
  ASSUME Patched, NEW L, NEW A, NEW G, NEW U, Machine(L, A, G, U), NEW s \in 1 .. Len(L),
         NEW q, q = L[s].kernel \o L[s].epsilon, NEW row, row = Reductions(A[s], q).acts
  PROVE  \A x \in DOMAIN row : ActOK(CoresAt(L), s, x, row[x])
<1>1. PICK C : C = CoresAt(L)[s]
  OBVIOUS
<1>2. PICK K : K = L[s].kernel
  OBVIOUS
<1>3. PICK e : e = L[s].epsilon
  OBVIOUS
<1>4. IsKernel(K, C) /\ C = CoresOf(K)
  BY <1>1, <1>2, KernelIs DEF IsKernel
<1>5. AreEps(C, e)
  <2>1. StateOK(L[s], s)
    BY Zenon DEF Machine
  <2> QED BY <1>2, <1>3, <1>4, <2>1 DEF StateOK
<1>6. Joined(K, e, q)
  <2>1. IsSeq(K) /\ IsSeq(e) /\ q = K \o e
    BY <1>2, <1>3, <1>4, <1>5 DEF IsKernel, AreEps
  <2> QED BY <2>1, ConcatIs, Zenon
<1>7. \A x \in DOMAIN A[s] : ActOK(CoresAt(L), s, x, A[s][x])
  BY Zenon DEF Machine
<1>8. PICK a : a = A[s]
  OBVIOUS
<1>9. \A x \in DOMAIN a : a[x] \in Int
  BY <1>7, <1>8, Zenon DEF ActOK
<1>10. Reducing(a, C, row)
  <2>1. Len(prods) \in Nat
    BY PatchedIs
  <2>2. IsSeq(q)
    BY <1>6, Zenon DEF Joined
  <2>3. \A k \in 1 .. Len(q) : right_of_dot(q[k]) = 0 => Reduces(C, q[k].prod)
    BY <1>4, <1>5, <1>6, CanReduce, Zenon
  <2>4. Reducing(a, C, Reductions(a, q).acts)
    BY <1>9, <2>1, <2>2, <2>3, ReductionsAre, Zenon
  <2> QED BY <1>8, <2>4
<1> SUFFICES ASSUME NEW x \in DOMAIN row PROVE ActOK(CoresAt(L), s, x, row[x])
  OBVIOUS
<1>11. CASE x \in DOMAIN a /\ row[x] = a[x]
  BY <1>7, <1>8, <1>11, Zenon
<1>12. CASE \E n \in 1 .. Len(prods) : row[x] = 1 - n /\ Reduces(C, n)
  <2>1. PICK n \in 1 .. Len(prods) : row[x] = 1 - n /\ Reduces(C, n)
    BY <1>12
  <2>2. PICK v : v = row[x]
    OBVIOUS
  <2>3. v \in Int /\ ~(v > 0) /\ 1 - v = n
    BY <2>1, <2>2
  <2>4. ActOK(CoresAt(L), s, x, v)
    BY <1>1, <2>1, <2>3, Zenon DEF ActOK
  <2> QED BY <2>2, <2>4
<1> QED BY <1>10, <1>11, <1>12, Zenon DEF Reducing

\* add_reductions() enters reductions of complete items alone (yystate.c:986-1017).
LEMMA AddReductionsStep ==
  ASSUME AtLr, add_reductions
  PROVE  at' = at /\ AtLr'
<1>1. PICK L : L = lrstates
  OBVIOUS
<1>2. PICK A : A = actions
  OBVIOUS
<1>3. PICK G : G = gotos
  OBVIOUS
<1>4. PICK U : U = unfinished
  OBVIOUS
<1>5. PICK s : s = turn
  OBVIOUS
<1>6. PICK q : q = L[s].kernel \o L[s].epsilon
  OBVIOUS
<1>7. PICK row : row = Reductions(A[s], q).acts
  OBVIOUS
<1>8. PICK B : B = Change(A, s, row)
  OBVIOUS
<1>9. /\ at' = at /\ lrstates' = L /\ actions' = B /\ gotos' = G /\ unfinished' = U
      /\ prods' = prods /\ file' = file /\ does' = does /\ goal' = goal
  BY <1>1, <1>2, <1>3, <1>4, <1>5, <1>6, <1>7, <1>8, Zenon
     DEF add_reductions, built, Change, Reduced, Kernel
<1>10. Patched /\ Machine(L, A, G, U) /\ Waiting(L, U, NONE)
  BY <1>1, <1>2, <1>3, <1>4, Zenon DEF AtLr, Tables
<1>11. s \in 1 .. Len(L) => \A x \in DOMAIN row : ActOK(CoresAt(L), s, x, row[x])
  BY <1>6, <1>7, <1>10, ReducedRow, Zenon
<1>12. Machine(L, B, G, U)
  BY <1>8, <1>10, <1>11, RowChanged, Zenon
<1>13. Tables' /\ Patched'
  <2>1. Tables'
    BY <1>9, <1>12, TablesMade, Zenon
  <2>2. Patched'
    BY <1>9, <1>10, SamePatched, Zenon
  <2> QED BY <2>1, <2>2
<1>14. Waiting(lrstates, unfinished, NONE)'
  BY <1>9, <1>10, Zenon DEF Waiting, NONE
<1> QED BY <1>9, <1>13, <1>14 DEF AtLr

\* When the tables are made every state has been closed.
LEMMA PrintTabStep ==
  ASSUME AtLr, print_tab
  PROVE  at' = "made" /\ AtMade'
<1>1. /\ unfinished = {} /\ at' = "made" /\ lrstates' = lrstates /\ actions' = actions
      /\ gotos' = gotos /\ unfinished' = unfinished
      /\ prods' = prods /\ file' = file /\ does' = does /\ goal' = goal
  BY Zenon DEF print_tab, built, machine
<1>2. Patched /\ Machine(lrstates, actions, gotos, unfinished) /\ Waiting(lrstates, unfinished, NONE)
  BY Zenon DEF AtLr, Tables
<1>3. \A s \in 1 .. Len(lrstates) : lrstates[s].closed
  <2> TAKE s \in 1 .. Len(lrstates)
  <2>1. Len(lrstates) \in Nat
    BY <1>2, SeqIs DEF Machine
  <2>2. s # NONE
    BY <2>1 DEF NONE
  <2>3. s \notin unfinished
    BY <1>1
  <2> QED BY <1>2, <2>2, <2>3, Zenon DEF Waiting
<1>4. Tables' /\ Patched'
  <2>1. PICK L : L = lrstates
    OBVIOUS
  <2>2. PICK A : A = actions
    OBVIOUS
  <2>3. PICK G : G = gotos
    OBVIOUS
  <2>4. PICK U : U = unfinished
    OBVIOUS
  <2>5. Tables'
    BY <1>1, <1>2, <2>1, <2>2, <2>3, <2>4, TablesMade, Zenon
  <2>6. Patched'
    BY <1>1, <1>2, SamePatched, Zenon
  <2> QED BY <2>5, <2>6
<1>5. (\A s \in 1 .. Len(lrstates) : lrstates[s].closed)'
  BY <1>1, <1>3
<1> QED BY <1>1, <1>4, <1>5 DEF AtMade

-----------------------------------------------------------------------------
(* The parser: what is on its stacks. *)

\* A part of a sequence.
IsPart(r, s, m, n) ==
  /\ IsSeq(r) /\ Len(r) = n - m
  /\ \A i \in 1 .. n - m : r[i] = s[m + i]
LEMMA SeqSub ==
  ASSUME NEW s, IsSeq(s), NEW m \in Nat, NEW n \in Nat, m <= n, n <= Len(s),
         NEW r, r = SubSeq(s, m + 1, n)
  PROVE  IsPart(r, s, m, n)
<1>1. PICK S : s \in Seq(S)
  BY DEF IsSeq
<1>2. Len(s) \in Nat
  BY SeqIs
<1>3. r = [i \in 1 .. n - m |-> s[m + i]]
  BY <1>1, <1>2
<1>4. n - m \in Nat
  OBVIOUS
<1>5. r = [i \in 1 .. n - m |-> r[i]]
  BY <1>3
<1>6. IsSeq(r) /\ Len(r) = n - m
  BY <1>4, <1>5, SeqFunction
<1> QED BY <1>3, <1>6 DEF IsPart

\* Every state is where the symbol above leads from the state below.
Stacked(st, vs) ==
  /\ IsSeq(st) /\ IsSeq(vs) /\ Len(vs) = Len(st) /\ Len(st) > 0 /\ st[Len(st)] = 0
  /\ \A i \in 1 .. Len(st) : st[i] \in 0 .. Len(lrstates) - 1
  /\ \A i \in 1 .. Len(st) - 1 :
       /\ vs[i] \in Words /\ st[i] = Move(st[i + 1], vs[i])
       /\ GoesTo(CoresAt(lrstates)[st[i + 1] + 1], vs[i], CoresAt(lrstates)[st[i] + 1])
Stacks == Stacked(stack, values)

\* The stacks do not depend on anything but the grammar and the tables.
LEMMA SameStacked ==
  ASSUME prods' = prods, file' = file, lrstates' = lrstates, actions' = actions, gotos' = gotos
  PROVE  \A st, vs : Stacked(st, vs)' <=> Stacked(st, vs)
<1>1. \A C, x, D : GoesTo(C, x, D)' <=> GoesTo(C, x, D)
  BY DEF GoesTo, Ahead, Closure, IsClosed
<1>2. \A s, x : Move(s, x)' = Move(s, x)
  BY DEF Move, Act_num, yy_next, ISTERM, terms, YYF
<1>3. Words' = Words /\ CoresAt(lrstates)' = CoresAt(lrstates)
  BY DEF Words, terms, CoresAt, CoresOf
<1> QED BY <1>1, <1>2, <1>3 DEF Stacked

\* The parser does not change the grammar and the tables.
LEMMA MadeKept ==
  ASSUME AtMade, UnchangedInParse
  PROVE  AtMade' /\ \A st, vs : Stacked(st, vs)' <=> Stacked(st, vs)
<1>1. /\ prods' = prods /\ file' = file /\ does' = does /\ goal' = goal
      /\ lrstates' = lrstates /\ actions' = actions /\ gotos' = gotos /\ unfinished' = unfinished
  BY Zenon DEF UnchangedInParse, built, machine
<1>2. Patched /\ Machine(lrstates, actions, gotos, unfinished)
  BY Zenon DEF AtMade, Tables
<1>3. Tables' /\ Patched'
  <2>1. PICK L : L = lrstates
    OBVIOUS
  <2>2. PICK A : A = actions
    OBVIOUS
  <2>3. PICK G : G = gotos
    OBVIOUS
  <2>4. PICK U : U = unfinished
    OBVIOUS
  <2>5. Tables'
    BY <1>1, <1>2, <2>1, <2>2, <2>3, <2>4, TablesMade, Zenon
  <2>6. Patched'
    BY <1>1, <1>2, SamePatched, Zenon
  <2> QED BY <2>5, <2>6
<1>4. (\A s \in 1 .. Len(lrstates) : lrstates[s].closed)'
  BY <1>1 DEF AtMade
<1>5. AtMade'
  BY <1>3, <1>4 DEF AtMade
<1> QED BY <1>1, <1>5, SameStacked

\* What lies below the states of a stack that a production can be reduced in, or an item
\* of the kernel has come to.
Spelt(st, vs, i, p, d) ==
  /\ i + d <= Len(st) /\ p \in 1 .. Len(prods) /\ d <= Len(prods[p].rhs)
  /\ \A j \in 1 .. d : vs[i + j - 1] = prods[p].rhs[d + 1 - j]
  /\ p = 1 \/ p \in Closure(CoresAt(lrstates)[st[i + d] + 1])

\* The dot at the left in a kernel: the first state alone has such an item.
LEMMA SpeltAtOnce ==
  ASSUME AtMade, NEW st, NEW vs, Stacked(st, vs), NEW i \in 1 .. Len(st), NEW p,
         <<p, 0>> \in CoresAt(lrstates)[st[i] + 1]
  PROVE  Spelt(st, vs, i, p, 0)
<1>1. /\ Patched /\ Machine(lrstates, actions, gotos, unfinished)
  BY Zenon DEF AtMade, Tables
<1>2. PICK s : s = st[i] + 1
  OBVIOUS
<1>3. Len(st) \in Nat /\ Len(lrstates) \in Nat
  BY <1>1, SeqIs DEF Stacked, Machine
<1>4. s \in 1 .. Len(lrstates)
  <2>1. st[i] \in 0 .. Len(lrstates) - 1
    BY Zenon DEF Stacked
  <2> QED BY <1>2, <1>3, <2>1
<1>5. PICK K : K = lrstates[s].kernel
  OBVIOUS
<1>6. PICK C : C = CoresAt(lrstates)[s]
  OBVIOUS
<1>7. /\ \A k \in 1 .. Len(K) : IsItem(K[k]) /\ <<K[k].prod, K[k].dot>> \in C
      /\ \A c \in C : \E k \in 1 .. Len(K) : c = <<K[k].prod, K[k].dot>>
      /\ C = CoresOf(K)
  <2>1. Machine(lrstates, actions, gotos, unfinished)
    BY <1>1
  <2>2. IsKernel(K, C) /\ C = CoresOf(K)
    <3>1. \A k \in 1 .. Len(K) : IsItem(K[k]) /\ <<K[k].prod, K[k].dot>> \in C
      BY <2>1, <1>4, <1>5, <1>6, KernelIs, Zenon
    <3>3. C = CoresOf(K)
      BY <1>4, <1>5, <1>6 DEF CoresAt
    <3>2. \A c \in C : \E k \in 1 .. Len(K) : c = <<K[k].prod, K[k].dot>>
      BY <3>3 DEF CoresOf
    <3>4. IsSeq(K)
      BY <2>1, <1>4, <1>5, <1>6, KernelIs, Zenon
    <3> QED BY <3>1, <3>2, <3>3, <3>4, Zenon DEF IsKernel
  <2> QED BY <2>2, Zenon DEF IsKernel
<1>8. PICK k \in 1 .. Len(K) : <<p, 0>> = <<K[k].prod, K[k].dot>>
  BY <1>2, <1>6, <1>7
<1>9. p = K[k].prod /\ K[k].dot = 0 /\ p \in 1 .. Len(prods)
  BY <1>7, <1>8 DEF IsItem
<1>10. StateOK(lrstates[s], s)
  BY <1>1, <1>4, Zenon DEF Machine
<1>11. s = 1
  <2>1. ASSUME s # 1 PROVE FALSE
    <3>1. K[k].dot >= 1
      BY <1>5, <1>10, <2>1, Zenon DEF StateOK
    <3> QED BY <1>9, <3>1
  <2> QED BY <2>1
<1>12. C = {<<1, 0>>}
  BY <1>5, <1>7, <1>10, <1>11, Zenon DEF StateOK
<1>13. p = 1
  BY <1>2, <1>6, <1>12
<1>14. Len(prods[p].rhs) \in Nat
  BY <1>1, <1>9, PatchedIs
<1>15. i + 0 <= Len(st)
  BY <1>3
<1>16. 0 <= Len(prods[p].rhs)
  BY <1>14
<1>17. \A j \in 1 .. 0 : vs[i + j - 1] = prods[p].rhs[0 + 1 - j]
  <2>1. 1 .. 0 = {}
    OBVIOUS
  <2> QED BY <2>1
<1> QED BY <1>9, <1>13, <1>15, <1>16, <1>17, Zenon DEF Spelt

\* One symbol more, one state further down.
LEMMA SpeltFurther ==
  ASSUME AtMade, NEW st, NEW vs, Stacked(st, vs), NEW d \in Nat, NEW e \in Nat, e = d + 1,
         \A i \in 1 .. Len(st) : \A p :
           <<p, d>> \in CoresAt(lrstates)[st[i] + 1] => Spelt(st, vs, i, p, d),
         NEW i \in 1 .. Len(st), NEW p, <<p, e>> \in CoresAt(lrstates)[st[i] + 1]
  PROVE  Spelt(st, vs, i, p, e)
<1>1. /\ Patched /\ Machine(lrstates, actions, gotos, unfinished)
  BY Zenon DEF AtMade, Tables
<1>2. Len(st) \in Nat /\ Len(lrstates) \in Nat /\ Len(lrstates) > 0
  BY <1>1, SeqIs DEF Stacked, Machine
<1>3. i # Len(st)
  <2> SUFFICES ASSUME i = Len(st) PROVE FALSE
    OBVIOUS
  <2>1. st[i] = 0
    BY DEF Stacked
  <2>2. <<p, e>> \in CoresAt(lrstates)[1]
    BY <2>1
  <2>3. 1 \in 1 .. Len(lrstates)
    BY <1>2
  <2>4. CoresOf(lrstates[1].kernel) = {<<1, 0>>}
    BY <1>1, <2>3, Zenon DEF Machine, StateOK
  <2>5. CoresAt(lrstates)[1] = {<<1, 0>>}
    BY <2>3, <2>4 DEF CoresAt
  <2>6. e = 0
    BY <2>2, <2>5
  <2> QED BY <2>6
<1>4. PICK h \in Nat : h = i + 1
  BY <1>2
<1>5. h \in 1 .. Len(st) /\ i \in 1 .. Len(st) - 1
  BY <1>2, <1>3, <1>4
<1>6. PICK C : C = CoresAt(lrstates)[st[h] + 1]
  OBVIOUS
<1>7. vs[i] \in Words /\ GoesTo(C, vs[i], CoresAt(lrstates)[st[i] + 1])
  BY <1>4, <1>5, <1>6, Zenon DEF Stacked
<1>8. /\ Ahead(<<p, d>>) = vs[i]
      /\ <<p, d>> \in C \/ (e = 1 /\ p \in Closure(C))
  <2>1. PICK c : c = <<p, e>>
    OBVIOUS
  <2>2. c[1] = p /\ c[2] = e /\ c[2] - 1 = d
    BY <2>1
  <2>3. c \in CoresAt(lrstates)[st[i] + 1]
    BY <2>1
  <2>4. /\ Ahead(<<c[1], c[2] - 1>>) = vs[i]
        /\ <<c[1], c[2] - 1>> \in C \/ (c[2] = 1 /\ c[1] \in Closure(C))
    BY <1>7, <2>3, Zenon DEF GoesTo
  <2> QED BY <2>2, <2>4, Zenon
<1>9. /\ p \in 1 .. Len(prods) /\ d <= Len(prods[p].rhs)
      /\ h + d <= Len(st)
      /\ \A j \in 1 .. d : vs[h + j - 1] = prods[p].rhs[d + 1 - j]
      /\ p = 1 \/ p \in Closure(CoresAt(lrstates)[st[h + d] + 1])
  <2>1. CASE <<p, d>> \in C
    <3>1. Spelt(st, vs, h, p, d)
      BY <1>5, <1>6, <2>1, Zenon
    <3> QED BY <3>1, Zenon DEF Spelt
  <2>2. CASE e = 1 /\ p \in Closure(C)
    <3>1. d = 0 /\ h + d = h
      BY <2>2
    <3>2. p \in 1 .. Len(prods)
      BY <2>2 DEF Closure
    <3>3. Len(prods[p].rhs) \in Nat
      BY <1>1, <3>2, PatchedIs
    <3>4. d <= Len(prods[p].rhs) /\ h + d <= Len(st) /\ \A j \in 1 .. d : FALSE
      BY <1>2, <1>5, <3>1, <3>3
    <3>5. p \in Closure(CoresAt(lrstates)[st[h + d] + 1])
      BY <1>6, <2>2, <3>1
    <3> QED BY <3>2, <3>4, <3>5, Zenon
  <2> QED BY <1>8, <2>1, <2>2
<1>10. vs[i] # 0 /\ Len(prods[p].rhs) \in Nat
  <2>1. Len(terms) \in 0 .. MINNONTERM - 2
    BY <1>1, PatchedIs
  <2>2. vs[i] \in 1 .. Len(terms) \/ vs[i] \in MINNONTERM .. MINACT - 1
    BY <1>7 DEF Words
  <2>3. vs[i] # 0
    BY <2>1, <2>2, NumbersAssumption
  <2>4. Len(prods[p].rhs) \in Nat
    BY <1>1, <1>9, PatchedIs
  <2> QED BY <2>3, <2>4
<1>11. e <= Len(prods[p].rhs) /\ vs[i] = prods[p].rhs[e]
  <2>1. PICK a : a = Ahead(<<p, d>>)
    OBVIOUS
  <2>2. d \in 0 .. Len(prods[p].rhs)
    BY <1>9, <1>10
  <2>3. /\ a # 0 <=> d < Len(prods[p].rhs)
        /\ a # 0 => a = prods[p].rhs[d + 1]
    BY <1>1, <1>9, <2>1, <2>2, AheadIs
  <2>4. a = vs[i]
    BY <1>8, <2>1
  <2>5. d < Len(prods[p].rhs) /\ vs[i] = prods[p].rhs[d + 1]
    BY <1>10, <2>3, <2>4
  <2> QED BY <1>10, <2>5
<1>12. i + e = h + d /\ i + e <= Len(st)
  BY <1>2, <1>4, <1>9
<1>13. ASSUME NEW j \in 1 .. e PROVE vs[i + j - 1] = prods[p].rhs[e + 1 - j]
  <2>1. CASE j = 1
    <3>1. i + j - 1 = i /\ e + 1 - j = e
      BY <2>1
    <3> QED BY <1>11, <3>1
  <2>2. CASE j # 1
    <3>1. PICK k \in 1 .. d : k = j - 1
      BY <2>2
    <3>2. i + j - 1 = h + k - 1 /\ e + 1 - j = d + 1 - k
      BY <1>4, <3>1
    <3> QED BY <1>9, <3>2
  <2> QED BY <2>1, <2>2
<1>14. p = 1 \/ p \in Closure(CoresAt(lrstates)[st[i + e] + 1])
  BY <1>9, <1>12
<1> QED BY <1>9, <1>11, <1>12, <1>13, <1>14, Zenon DEF Spelt

\* What is left of the dot in the kernel of a state on the stack is below it.
LEMMA Spells ==
  ASSUME AtMade, NEW st, NEW vs, Stacked(st, vs)
  PROVE  \A d \in Nat : \A i \in 1 .. Len(st) : \A p :
           <<p, d>> \in CoresAt(lrstates)[st[i] + 1] => Spelt(st, vs, i, p, d)
<1> DEFINE M == {d \in Nat : \A i \in 1 .. Len(st) : \A p :
                   <<p, d>> \in CoresAt(lrstates)[st[i] + 1] => Spelt(st, vs, i, p, d)}
<1>1. 0 \in M
  <2>1. \A i \in 1 .. Len(st) : \A p :
          <<p, 0>> \in CoresAt(lrstates)[st[i] + 1] => Spelt(st, vs, i, p, 0)
    BY SpeltAtOnce, Zenon
  <2> QED BY <2>1
<1>2. ASSUME NEW d \in Nat, d \in M PROVE d + 1 \in M
  <2>1. PICK e \in Nat : e = d + 1
    OBVIOUS
  <2>2. \A i \in 1 .. Len(st) : \A p :
          <<p, d>> \in CoresAt(lrstates)[st[i] + 1] => Spelt(st, vs, i, p, d)
    BY <1>2
  <2>3. \A i \in 1 .. Len(st) : \A p :
          <<p, e>> \in CoresAt(lrstates)[st[i] + 1] => Spelt(st, vs, i, p, e)
    BY <2>1, <2>2, SpeltFurther, Zenon
  <2> QED BY <2>1, <2>3
<1> HIDE DEF M
<1>3. Nat \subseteq M
  BY <1>1, <1>2, EveryNat
<1> QED BY <1>3 DEF M

\* The symbol x leads from the state numbered a to that numbered n.
Leads(a, x, n) ==
  /\ n \in 0 .. Len(lrstates) - 1 /\ x \in Words /\ n = Move(a, x)
  /\ GoesTo(CoresAt(lrstates)[a + 1], x, CoresAt(lrstates)[n + 1])

\* A state and its symbol are pushed.
LEMMA StackPushed ==
  ASSUME NEW st, NEW vs, Stacked(st, vs), NEW n, NEW x, Leads(st[1], x, n),
         NEW r, r = <<n>> \o st, NEW w, w = <<x>> \o vs
  PROVE  Stacked(r, w)
<1>1. IsSeq(st) /\ IsSeq(vs) /\ Len(vs) = Len(st) /\ Len(st) > 0 /\ st[Len(st)] = 0
  BY DEF Stacked
<1>2. Len(st) \in Nat
  BY <1>1, SeqIs
<1>3. /\ IsSeq(r) /\ Len(r) = Len(st) + 1 /\ r[1] = n
      /\ \A i \in 1 .. Len(st) : r[i + 1] = st[i]
  BY <1>1, SeqPush
<1>4. /\ IsSeq(w) /\ Len(w) = Len(st) + 1 /\ w[1] = x
      /\ \A i \in 1 .. Len(st) : w[i + 1] = vs[i]
  BY <1>1, SeqPush
<1>5. r[Len(r)] = 0
  <2>1. r[Len(st) + 1] = st[Len(st)]
    BY <1>1, <1>2, <1>3
  <2> QED BY <1>1, <1>3, <2>1
<1>6. ASSUME NEW i \in 1 .. Len(r) PROVE r[i] \in 0 .. Len(lrstates) - 1
  <2>1. CASE i = 1
    BY <1>3, <2>1, Zenon DEF Leads
  <2>2. CASE i # 1
    <3>1. PICK j \in 1 .. Len(st) : i = j + 1
      <4>1. i - 1 \in 1 .. Len(st) /\ i = (i - 1) + 1
        BY <1>2, <1>3, <2>2
      <4> QED BY <4>1
    <3>2. r[i] = st[j]
      BY <1>3, <3>1
    <3> QED BY <3>2, Zenon DEF Stacked
  <2> QED BY <2>1, <2>2
<1>7. ASSUME NEW i \in 1 .. Len(r) - 1
      PROVE  /\ w[i] \in Words /\ r[i] = Move(r[i + 1], w[i])
             /\ GoesTo(CoresAt(lrstates)[r[i + 1] + 1], w[i], CoresAt(lrstates)[r[i] + 1])
  <2>1. CASE i = 1
    <3>1. r[i] = n /\ w[i] = x
      BY <1>3, <1>4, <2>1
    <3>2. r[i + 1] = st[1]
      BY <1>1, <1>2, <1>3, <2>1
    <3> QED BY <3>1, <3>2, Zenon DEF Leads
  <2>2. CASE i # 1
    <3>1. PICK j \in 1 .. Len(st) - 1 : i = j + 1
      <4>1. i - 1 \in 1 .. Len(st) - 1 /\ i = (i - 1) + 1
        BY <1>2, <1>3, <2>2
      <4> QED BY <4>1
    <3>2. r[i] = st[j] /\ w[i] = vs[j]
      BY <1>2, <1>3, <1>4, <3>1
    <3>3. r[i + 1] = st[j + 1]
      <4>1. PICK h \in 1 .. Len(st) : h = j + 1
        BY <1>2, <3>1
      <4>2. r[h + 1] = st[h]
        BY <1>3
      <4> QED BY <3>1, <4>1, <4>2
    <3> QED BY <3>2, <3>3, Zenon DEF Stacked
  <2> QED BY <2>1, <2>2
<1>8. Len(w) = Len(r) /\ Len(r) > 0
  BY <1>2, <1>3, <1>4
<1> QED BY <1>3, <1>4, <1>5, <1>6, <1>7, <1>8, Zenon DEF Stacked

\* The states above another, and as many symbols, are popped.
IsBelow(r, w, st, m) == Stacked(r, w) /\ r[1] = st[m + 1] /\ Len(r) = Len(st) - m
LEMMA StackPopped ==
  ASSUME NEW st, NEW vs, Stacked(st, vs), NEW m \in Nat, m < Len(st),
         NEW r, r = SubSeq(st, m + 1, Len(st)), NEW w, w = SubSeq(vs, m + 1, Len(vs))
  PROVE  IsBelow(r, w, st, m)
<1>1. IsSeq(st) /\ IsSeq(vs) /\ Len(vs) = Len(st) /\ Len(st) > 0 /\ st[Len(st)] = 0
  BY DEF Stacked
<1>2. Len(st) \in Nat
  BY <1>1, SeqIs
<1>3. PICK n \in Nat : n = Len(st)
  BY <1>2
<1>11. m <= n /\ n <= Len(st) /\ n <= Len(vs)
  BY <1>1, <1>3
<1>12. r = SubSeq(st, m + 1, n) /\ w = SubSeq(vs, m + 1, n)
  BY <1>1, <1>3, Zenon
<1>13. IsSeq(st) /\ IsSeq(vs)
  BY <1>1
<1>14. IsPart(r, st, m, n) /\ IsPart(w, vs, m, n)
  BY <1>11, <1>12, <1>13, SeqSub
<1>4. IsSeq(r) /\ Len(r) = n - m /\ \A i \in 1 .. n - m : r[i] = st[m + i]
  BY <1>14, Zenon DEF IsPart
<1>5. IsSeq(w) /\ Len(w) = n - m /\ \A i \in 1 .. n - m : w[i] = vs[m + i]
  BY <1>14, Zenon DEF IsPart
<1>6. r[Len(r)] = 0
  <2>1. r[n - m] = st[m + (n - m)] /\ m + (n - m) = n
    BY <1>3, <1>4
  <2> QED BY <1>1, <1>3, <1>4, <2>1
<1>7. \A i \in 1 .. Len(r) : r[i] \in 0 .. Len(lrstates) - 1
  <2> TAKE i \in 1 .. Len(r)
  <2>1. PICK j \in 1 .. Len(st) : j = m + i
    BY <1>3, <1>4
  <2>2. r[i] = st[j]
    BY <1>4, <2>1
  <2> QED BY <2>2, Zenon DEF Stacked
<1>8. ASSUME NEW i \in 1 .. Len(r) - 1
      PROVE  /\ w[i] \in Words /\ r[i] = Move(r[i + 1], w[i])
             /\ GoesTo(CoresAt(lrstates)[r[i + 1] + 1], w[i], CoresAt(lrstates)[r[i] + 1])
  <2>1. PICK j \in 1 .. Len(st) - 1 : j = m + i
    BY <1>3, <1>4
  <2>2. r[i] = st[j] /\ w[i] = vs[j]
    BY <1>3, <1>4, <1>5, <2>1
  <2>3. r[i + 1] = st[j + 1]
    <3>1. PICK h \in 1 .. n - m : h = i + 1
      BY <1>3, <1>4
    <3>2. r[h] = st[m + h] /\ m + h = j + 1
      BY <1>4, <2>1, <3>1
    <3> QED BY <3>1, <3>2
  <2> QED BY <2>2, <2>3, Zenon DEF Stacked
<1>9. Len(w) = Len(r) /\ Len(r) > 0 /\ Len(r) = Len(st) - m
  BY <1>3, <1>4, <1>5
<1>10. r[1] = st[m + 1]
  BY <1>3, <1>4
<1>15. Stacked(r, w)
  BY <1>4, <1>5, <1>6, <1>7, <1>8, <1>9, Zenon DEF Stacked
<1> QED BY <1>9, <1>10, <1>15, Zenon DEF IsBelow

-----------------------------------------------------------------------------
(* The steps of the parser keep its stacks. *)

\* An entry of the table is no YYF: there are not that many states, and an error is told
\* from both.
LEMMA ActIs ==
  ASSUME AtMade, NEW s \in 0 .. Len(lrstates) - 1, NEW t, NEW a, a = Act_num(s, t), a # YYF
  PROVE  ActOK(CoresAt(lrstates), s + 1, t, a)
<1>1. Machine(lrstates, actions, gotos, unfinished)
  BY Zenon DEF AtMade, Tables
<1>2. Len(lrstates) \in Nat
  BY <1>1, SeqIs DEF Machine
<1>3. PICK q \in 1 .. Len(lrstates) : q = s + 1
  BY <1>2
<1>4. t \in DOMAIN actions[q] /\ a = actions[q][t]
  <2>1. a = IF t \in DOMAIN actions[s + 1] THEN actions[s + 1][t] ELSE YYF
    BY Zenon DEF Act_num, yy_next
  <2> QED BY <1>3, <2>1, Zenon
<1>5. \A x \in DOMAIN actions[q] : ActOK(CoresAt(lrstates), q, x, actions[q][x])
  BY <1>1, Zenon DEF Machine
<1>6. ActOK(CoresAt(lrstates), q, t, a)
  BY <1>4, <1>5, Zenon
<1> QED BY <1>3, <1>6, Zenon

\* A shift leads to the state it pushes.
LEMMA ShiftLeads ==
  ASSUME AtMade, NEW s \in 0 .. Len(lrstates) - 1, NEW t,
         NEW n \in 1 .. Len(lrstates) - 1, n = Act_num(s, t)
  PROVE  Leads(s, t, n)
<1>1. Machine(lrstates, actions, gotos, unfinished)
  BY Zenon DEF AtMade, Tables
<1>2. Len(lrstates) \in Nat /\ Len(lrstates) <= MAXSTATE
  BY <1>1, SeqIs DEF Machine
<1>3. n # YYF
  BY <1>2, OccsAssumption, LalrAssumption DEF YYF
<1>4. ActOK(CoresAt(lrstates), s + 1, t, n)
  BY <1>3, ActIs, Zenon
<1>5. ISTERM(t) /\ GoesTo(CoresAt(lrstates)[s + 1], t, CoresAt(lrstates)[n + 1])
  <2>1. n > 0
    BY <1>2
  <2> QED BY <1>4, <2>1, Zenon DEF ActOK
<1>6. t \in Words
  BY <1>5 DEF ISTERM, Words
<1>7. n = Move(s, t)
  BY <1>5, Zenon DEF Move
<1>8. n \in 0 .. Len(lrstates) - 1
  BY <1>2
<1> QED BY <1>5, <1>6, <1>7, <1>8, Zenon DEF Leads

\* A state that can reduce n has it in its kernel, complete, or closes over it.
LEMMA ReduceAllowed ==
  ASSUME AtMade, NEW s \in 0 .. Len(lrstates) - 1, NEW t, NEW n \in 1 .. Len(prods),
         1 - n = Act_num(s, t)
  PROVE  Reduces(CoresAt(lrstates)[s + 1], n)
<1>1. Patched
  BY DEF AtMade
<1>2. Len(prods) \in Nat
  BY <1>1, PatchedIs
<1>3. PICK a \in Int : a = 1 - n
  BY <1>2
<1>4. a <= 0 /\ 1 - a = n
  BY <1>2, <1>3
<1>5. a # YYF
  BY <1>4 DEF YYF
<1>6. ActOK(CoresAt(lrstates), s + 1, t, a)
  BY <1>3, <1>5, ActIs, Zenon
<1> QED BY <1>4, <1>6, Zenon DEF ActOK

\* There is somewhere to go on a nonterminal that a state closes over.
LEMMA GotoLeads ==
  ASSUME AtMade, NEW s \in 0 .. Len(lrstates) - 1, NEW n,
         n \in Closure(CoresAt(lrstates)[s + 1])
  PROVE  Leads(s, prods[n].lhs, yy_next(gotos, s, prods[n].lhs))
<1>1. Patched /\ Machine(lrstates, actions, gotos, unfinished)
  BY Zenon DEF AtMade, Tables
<1>2. Len(lrstates) \in Nat
  BY <1>1, SeqIs DEF Machine
<1>3. PICK q \in 1 .. Len(lrstates) : q = s + 1
  BY <1>2
<1>4. lrstates[q].closed
  BY Zenon DEF AtMade
<1>5. n \in Closure(CoresAt(lrstates)[q])
  BY <1>3
<1>6. PICK x : x = prods[n].lhs
  OBVIOUS
<1>7. x \in DOMAIN gotos[q]
  BY <1>1, <1>4, <1>5, <1>6, Zenon DEF Machine
<1>8. PICK g : g = gotos[q][x]
  OBVIOUS
<1>9. GotoOK(CoresAt(lrstates), q, x, g)
  BY <1>1, <1>7, <1>8, Zenon DEF Machine
<1>10. yy_next(gotos, s, x) = g
  BY <1>3, <1>7, <1>8, Zenon DEF yy_next
<1>11. n \in 1 .. Len(prods)
  BY <1>5 DEF Closure
<1>12. x \in MINNONTERM .. MINACT - 1 /\ Len(terms) \in 0 .. MINNONTERM - 2
  BY <1>1, <1>6, <1>11, PatchedIs
<1>13. x \in Words
  BY <1>12 DEF Words
<1>14. ~ISTERM(x)
  BY <1>12, NumbersAssumption DEF ISTERM
<1>15. Move(s, x) = g
  BY <1>10, <1>14, Zenon DEF Move
<1>16. g \in 0 .. Len(lrstates) - 1
  <2>1. g \in Int /\ g + 1 \in DOMAIN CoresAt(lrstates)
    BY <1>9, Zenon DEF GotoOK
  <2>2. g + 1 \in 1 .. Len(lrstates)
    BY <2>1 DEF CoresAt
  <2> QED BY <1>2, <2>1, <2>2
<1>17. GoesTo(CoresAt(lrstates)[s + 1], x, CoresAt(lrstates)[g + 1])
  BY <1>3, <1>9, Zenon DEF GotoOK
<1>18. Leads(s, x, g)
  BY <1>13, <1>15, <1>16, <1>17, Zenon DEF Leads
<1> QED BY <1>6, <1>10, <1>18, Zenon

\* A production that can be reduced is spelt on top of the stack.
LEMMA ReducedSpelt ==
  ASSUME AtMade, NEW st, NEW vs, Stacked(st, vs), NEW n,
         Reduces(CoresAt(lrstates)[st[1] + 1], n)
  PROVE  Spelt(st, vs, 1, n, Len(prods[n].rhs))
<1>1. Patched
  BY DEF AtMade
<1>2. n \in 1 .. Len(prods)
  BY Zenon DEF Reduces
<1>3. PICK d \in Nat : d = Len(prods[n].rhs)
  BY <1>1, <1>2, PatchedIs
<1>4. Len(st) \in Nat /\ Len(st) > 0
  BY SeqIs DEF Stacked
<1>5. 1 \in 1 .. Len(st)
  BY <1>4
<1>6. CASE <<n, d>> \in CoresAt(lrstates)[st[1] + 1]
  <2>1. Spelt(st, vs, 1, n, d)
    BY <1>5, <1>6, Spells, Zenon
  <2> QED BY <1>3, <2>1, Zenon
<1>7. CASE n \in Closure(CoresAt(lrstates)[st[1] + 1]) /\ d = 0
  <2>1. 1 + d <= Len(st) /\ d <= Len(prods[n].rhs) /\ 1 + d = 1
    BY <1>3, <1>4, <1>7
  <2>2. \A j \in 1 .. d : vs[1 + j - 1] = prods[n].rhs[d + 1 - j]
    <3>1. 1 .. d = {}
      BY <1>7
    <3> QED BY <3>1
  <2>3. n \in Closure(CoresAt(lrstates)[st[1 + d] + 1])
    BY <1>7, <2>1, Zenon
  <2>4. Spelt(st, vs, 1, n, d)
    BY <1>2, <2>1, <2>2, <2>3, Zenon DEF Spelt
  <2> QED BY <1>3, <2>4, Zenon
<1>8. <<n, d>> \in CoresAt(lrstates)[st[1] + 1] \/ (n \in Closure(CoresAt(lrstates)[st[1] + 1]) /\ d = 0)
  BY <1>3, Zenon DEF Reduces
<1> QED BY <1>6, <1>7, <1>8

\* yy_init_stack() (occs.m).
LEMMA StartStep ==
  ASSUME AtMade, Start
  PROVE  at' = "parse" /\ AtMade' /\ Stacks'
<1>1. /\ at' = "parse" /\ stack' = <<0>> /\ values' = <<NONE>>
      /\ prods' = prods /\ file' = file /\ does' = does /\ goal' = goal /\ lrstates' = lrstates
      /\ actions' = actions /\ gotos' = gotos /\ unfinished' = unfinished
  BY Zenon DEF Start, built, machine
<1>2. Patched /\ Machine(lrstates, actions, gotos, unfinished)
  BY Zenon DEF AtMade, Tables
<1>3. AtMade'
  <2>1. Tables' /\ Patched'
    <3>1. PICK L : L = lrstates
      OBVIOUS
    <3>2. PICK A : A = actions
      OBVIOUS
    <3>3. PICK G : G = gotos
      OBVIOUS
    <3>4. PICK U : U = unfinished
      OBVIOUS
    <3>5. Tables'
      BY <1>1, <1>2, <3>1, <3>2, <3>3, <3>4, TablesMade, Zenon
    <3>6. Patched'
      BY <1>1, <1>2, SamePatched, Zenon
    <3> QED BY <3>5, <3>6
  <2>2. (\A s \in 1 .. Len(lrstates) : lrstates[s].closed)'
    BY <1>1 DEF AtMade
  <2> QED BY <2>1, <2>2 DEF AtMade
<1>4. PICK st : st = <<0>>
  OBVIOUS
<1>5. PICK vs : vs = <<NONE>>
  OBVIOUS
<1>6. Stacked(st, vs)
  <2>1. IsSeq(st) /\ Len(st) = 1 /\ st[1] = 0 /\ IsSeq(vs) /\ Len(vs) = 1
    BY <1>4, <1>5, SeqOfOne
  <2>2. 0 \in 0 .. Len(lrstates) - 1
    BY <1>2, SeqIs DEF Machine
  <2>3. Len(vs) = Len(st) /\ Len(st) > 0 /\ st[Len(st)] = 0 /\ 1 .. Len(st) - 1 = {}
        /\ \A i \in 1 .. Len(st) : st[i] = 0
    BY <2>1
  <2> QED BY <2>1, <2>2, <2>3, Zenon DEF Stacked
<1>7. Stacked(st, vs)'
  BY <1>1, <1>6, SameStacked, Zenon
<1>8. Stacks'
  BY <1>1, <1>4, <1>5, <1>7, Zenon DEF Stacks
<1> QED BY <1>1, <1>3, <1>8

\* yy_shift() pushes the state its table leads to, and the token.
LEMMA ShiftStep ==
  ASSUME AtMade, Stacks, yy_shift
  PROVE  AtMade' /\ (at' = "overflow" \/ (at' = at /\ Stacks'))
<1>1. UnchangedInParse
  BY Zenon DEF yy_shift
<1>2. AtMade' /\ \A st, vs : Stacked(st, vs)' <=> Stacked(st, vs)
  BY <1>1, MadeKept, Zenon
<1>3. PICK n \in 1 .. Len(lrstates) - 1 :
        /\ Parsing(n)
        /\ IF Full(stack)
           THEN at' = "overflow" /\ UNCHANGED <<rest, lookahead, stack, values, trace>>
           ELSE /\ stack' = <<n>> \o stack /\ values' = <<lookahead>> \o values
                /\ trace' = Append(trace, lookahead) /\ at' = at
                /\ lookahead' = Next_token(rest) /\ rest' = Without(rest)
  BY Zenon DEF yy_shift
<1>4. CASE at' = "overflow"
  BY <1>2, <1>4
<1>5. CASE stack' = <<n>> \o stack /\ values' = <<lookahead>> \o values /\ at' = at
  <2>1. PICK st : st = stack
    OBVIOUS
  <2>2. PICK vs : vs = values
    OBVIOUS
  <2>3. PICK t : t = lookahead
    OBVIOUS
  <2>4. PICK r : r = <<n>> \o st
    OBVIOUS
  <2>5. PICK w : w = <<t>> \o vs
    OBVIOUS
  <2>6. Stacked(st, vs)
    BY <2>1, <2>2, Zenon DEF Stacks
  <2>7. Head(st) = st[1]
    BY <2>6, SeqTail DEF Stacked
  <2>8. n = Act_num(st[1], t)
    BY <1>3, <2>1, <2>3, <2>7, Zenon DEF Parsing
  <2>9. st[1] \in 0 .. Len(lrstates) - 1
    <3>1. 1 \in 1 .. Len(st)
      BY <2>6, SeqIs DEF Stacked
    <3> QED BY <2>6, <3>1, Zenon DEF Stacked
  <2>10. Leads(st[1], t, n)
    BY <2>8, <2>9, ShiftLeads, Zenon
  <2>11. Stacked(r, w)
    BY <2>4, <2>5, <2>6, <2>10, StackPushed, Zenon
  <2>12. Stacked(r, w)'
    BY <1>2, <2>11, Zenon
  <2>13. stack' = r /\ values' = w
    BY <1>5, <2>1, <2>2, <2>3, <2>4, <2>5, Zenon
  <2>14. Stacks'
    BY <2>12, <2>13, Zenon DEF Stacks
  <2> QED BY <1>2, <1>5, <2>14
<1> QED BY <1>3, <1>4, <1>5, Zenon

\* A stack has a top.
LEMMA StackTop ==
  ASSUME NEW st, NEW vs, Stacked(st, vs)
  PROVE  1 \in 1 .. Len(st) /\ Head(st) = st[1] /\ st[1] \in 0 .. Len(lrstates) - 1
<1>1. IsSeq(st) /\ Len(st) > 0
  BY DEF Stacked
<1>2. 1 \in 1 .. Len(st) /\ Head(st) = st[1]
  BY <1>1, SeqIs, SeqTail
<1>3. st[1] \in 0 .. Len(lrstates) - 1
  BY <1>2, Zenon DEF Stacked
<1> QED BY <1>2, <1>3

\* yy_reduce() finds its symbols on the stack, and the state below goes on (occs.m).
LEMMA ReduceStep ==
  ASSUME AtMade, Stacks, yy_reduce
  PROVE  AtMade' /\ (at' \in {"returned", "accepted", "undefined"} \/ (at' = at /\ Stacks'))
<1>1. UnchangedInParse
  BY Zenon DEF yy_reduce
<1>2. AtMade' /\ \A st, vs : Stacked(st, vs)' <=> Stacked(st, vs)
  BY <1>1, MadeKept, Zenon
<1>3. PICK n \in DOMAIN prods :
        /\ Parsing(1 - n)
        /\ \/ at' \in {"returned", "accepted", "undefined"}
           \/ /\ n # 1
              /\ stack' = <<yy_next(gotos, Head(Popped(stack, Len(prods[n].rhs))), prods[n].lhs)>>
                            \o Popped(stack, Len(prods[n].rhs))
              /\ values' = <<prods[n].lhs>> \o Popped(values, Len(prods[n].rhs))
              /\ at' = at
  BY Zenon DEF yy_reduce
<1>4. CASE at' \in {"returned", "accepted", "undefined"}
  BY <1>2, <1>4
<1>5. CASE /\ n # 1
           /\ stack' = <<yy_next(gotos, Head(Popped(stack, Len(prods[n].rhs))), prods[n].lhs)>>
                         \o Popped(stack, Len(prods[n].rhs))
           /\ values' = <<prods[n].lhs>> \o Popped(values, Len(prods[n].rhs))
           /\ at' = at
  <2>1. PICK st : st = stack
    OBVIOUS
  <2>2. PICK vs : vs = values
    OBVIOUS
  <2>3. PICK t : t = lookahead
    OBVIOUS
  <2>4. PICK x : x = prods[n].lhs
    OBVIOUS
  <2>5. Stacked(st, vs)
    BY <2>1, <2>2, Zenon DEF Stacks
  <2>6. 1 \in 1 .. Len(st) /\ Head(st) = st[1] /\ st[1] \in 0 .. Len(lrstates) - 1
    BY <2>5, StackTop, Zenon
  <2>7. n \in 1 .. Len(prods)
    <3>1. IsSeq(prods)
      BY DEF AtMade, Patched
    <3> QED BY <3>1, SeqIs
  <2>8. PICK d \in Nat : d = Len(prods[n].rhs)
    <3>1. Patched
      BY DEF AtMade
    <3> QED BY <2>7, <3>1, PatchedIs
  <2>9. 1 - n = Act_num(st[1], t)
    BY <1>3, <2>1, <2>3, <2>6, Zenon DEF Parsing
  <2>10. Reduces(CoresAt(lrstates)[st[1] + 1], n)
    BY <2>6, <2>7, <2>9, ReduceAllowed, Zenon
  <2>11. Spelt(st, vs, 1, n, d)
    BY <2>5, <2>8, <2>10, ReducedSpelt, Zenon
  <2>12. 1 + d <= Len(st) /\ n \in Closure(CoresAt(lrstates)[st[1 + d] + 1])
    BY <1>5, <2>11, Zenon DEF Spelt
  <2>13. PICK left : left = SubSeq(st, d + 1, Len(st))
    OBVIOUS
  <2>14. PICK under : under = SubSeq(vs, d + 1, Len(vs))
    OBVIOUS
  <2>15. d < Len(st) /\ 1 + d = d + 1
    <3>1. Len(st) \in Nat
      BY <2>5, SeqIs DEF Stacked
    <3> QED BY <2>12, <3>1
  <2>16. Stacked(left, under) /\ left[1] = st[d + 1]
    <3>1. IsBelow(left, under, st, d)
      BY <2>5, <2>13, <2>14, <2>15, StackPopped
    <3> QED BY <3>1, Zenon DEF IsBelow
  <2>17. Head(left) = left[1] /\ left[1] \in 0 .. Len(lrstates) - 1
    BY <2>16, StackTop, Zenon
  <2>18. PICK g : g = yy_next(gotos, left[1], x)
    OBVIOUS
  <2>19. Leads(left[1], x, g)
    <3>1. n \in Closure(CoresAt(lrstates)[left[1] + 1])
      BY <2>12, <2>15, <2>16, Zenon
    <3> QED BY <2>4, <2>17, <2>18, <3>1, GotoLeads, Zenon
  <2>20. PICK r : r = <<g>> \o left
    OBVIOUS
  <2>21. PICK w : w = <<x>> \o under
    OBVIOUS
  <2>22. Stacked(r, w)
    BY <2>16, <2>19, <2>20, <2>21, StackPushed, Zenon
  <2>23. Stacked(r, w)'
    BY <1>2, <2>22, Zenon
  <2>24. Popped(stack, Len(prods[n].rhs)) = left /\ Popped(values, Len(prods[n].rhs)) = under
    BY <2>1, <2>2, <2>8, <2>13, <2>14 DEF Popped
  <2>25. stack' = r /\ values' = w
    BY <1>5, <2>4, <2>17, <2>18, <2>20, <2>21, <2>24, Zenon
  <2>26. Stacks'
    BY <2>23, <2>25, Zenon DEF Stacks
  <2> QED BY <1>2, <1>5, <2>26
<1> QED BY <1>3, <1>4, <1>5, Zenon

\* yy_recover() leaves the stacks alone while it looks, and when it throws a token away.
LEMMA RecoverStep ==
  ASSUME AtMade, Stacks, yy_recover \/ Discard
  PROVE  AtMade' /\ Stacks' /\ at' \in {"aborted", "recover"}
<1>1. UnchangedInParse /\ stack' = stack /\ values' = values
  BY Zenon DEF yy_recover, Discard
<1>2. at' \in {"aborted", "recover"}
  <2>1. CASE yy_recover
    <3>1. at' = IF Counted /\ yynerrs' > YYMAXERR THEN "aborted" ELSE "recover"
      BY <2>1, Zenon DEF yy_recover
    <3> QED BY <3>1, Zenon
  <2>2. CASE Discard
    <3>1. at = "recover" /\ at' = IF lookahead' = _EOI_ THEN "aborted" ELSE at
      BY <2>2, Zenon DEF Discard
    <3> QED BY <3>1, Zenon
  <2> QED BY <2>1, <2>2
<1>3. AtMade' /\ \A st, vs : Stacked(st, vs)' <=> Stacked(st, vs)
  BY <1>1, MadeKept, Zenon
<1>4. PICK st : st = stack
  OBVIOUS
<1>5. PICK vs : vs = values
  OBVIOUS
<1>6. Stacked(st, vs)'
  BY <1>3, <1>4, <1>5, Zenon DEF Stacks
<1>7. stack' = st /\ values' = vs
  BY <1>1, <1>4, <1>5
<1> QED BY <1>2, <1>3, <1>6, <1>7, Zenon DEF Stacks

\* The states that recovery pops take their values with them.
LEMMA RecoveredStep ==
  ASSUME AtMade, Stacks, Recovered
  PROVE  AtMade' /\ Stacks' /\ at' \in {"aborted", "parse"}
<1>1. /\ UnchangedInParse /\ Recovering # {}
      /\ stack' = SubSeq(stack, Min(Recovering), Len(stack))
      /\ values' = SubSeq(values, Len(values) - Len(stack') + 1, Len(values))
      /\ at' = IF lookahead = _EOI_ THEN "aborted" ELSE "parse"
  BY Zenon DEF Recovered
<1>2. at' \in {"aborted", "parse"}
  BY <1>1, Zenon
<1>3. AtMade' /\ \A st, vs : Stacked(st, vs)' <=> Stacked(st, vs)
  BY <1>1, MadeKept, Zenon
<1>4. PICK st : st = stack
  OBVIOUS
<1>5. PICK vs : vs = values
  OBVIOUS
<1>6. Stacked(st, vs)
  BY <1>4, <1>5, Zenon DEF Stacks
<1>7. IsSeq(st) /\ Len(st) \in Nat /\ DOMAIN st = 1 .. Len(st) /\ Len(vs) = Len(st)
  BY <1>6, SeqIs DEF Stacked
<1>8. PICK k : k = Min(Recovering)
  OBVIOUS
<1>9. k \in 1 .. Len(st)
  <2>1. Recovering \subseteq 1 .. Len(st)
    BY <1>4, <1>7 DEF Recovering
  <2>2. Recovering \subseteq Nat
    BY <2>1
  <2>3. k \in Recovering
    BY <1>1, <1>8, <2>2, MinIs, Zenon
  <2> QED BY <2>1, <2>3
<1>10. PICK m \in Nat : k = m + 1
  <2>1. k - 1 \in Nat /\ k = (k - 1) + 1
    BY <1>7, <1>9
  <2> QED BY <2>1
<1>11. m < Len(st)
  BY <1>7, <1>9, <1>10
<1>12. PICK r : r = SubSeq(st, m + 1, Len(st))
  OBVIOUS
<1>13. PICK w : w = SubSeq(vs, m + 1, Len(vs))
  OBVIOUS
<1>14. Stacked(r, w) /\ Len(r) = Len(st) - m
  <2>1. IsBelow(r, w, st, m)
    BY <1>6, <1>11, <1>12, <1>13, StackPopped
  <2> QED BY <2>1, Zenon DEF IsBelow
<1>15. stack' = r
  BY <1>1, <1>4, <1>8, <1>10, <1>12, Zenon
<1>16. Len(vs) - Len(r) + 1 = m + 1
  BY <1>7, <1>14
<1>17. values' = w
  BY <1>1, <1>5, <1>13, <1>15, <1>16, Zenon
<1>18. Stacked(r, w)'
  BY <1>3, <1>14, Zenon
<1>19. Stacks'
  BY <1>15, <1>17, <1>18, Zenon DEF Stacks
<1> QED BY <1>2, <1>3, <1>19

-----------------------------------------------------------------------------
(* What an action finds. *)

\* The first z symbols of production p, the last of them on top.
Shows(vs, p, z) ==
  /\ p \in 1 .. Len(prods) /\ z \in Nat /\ z <= Len(vs) /\ z <= Len(prods[p].rhs)
  /\ \A j \in 1 .. z : vs[j] = prods[p].rhs[z + 1 - j]

IsReversed(vs, p, z) == SubSeq(vs, 1, z) = Reverse(SubSeq(prods[p].rhs, 1, z))

\* Shows, in the words of the property.
LEMMA ShownReversed ==
  ASSUME Patched, NEW vs, IsSeq(vs), NEW p, NEW z, Shows(vs, p, z)
  PROVE  IsReversed(vs, p, z)
<1>1. p \in 1 .. Len(prods) /\ z \in Nat /\ z <= Len(vs) /\ z <= Len(prods[p].rhs)
  BY DEF Shows
<1>2. PICK R : R = prods[p].rhs
  OBVIOUS
<1>3. IsSeq(R)
  BY <1>1, <1>2, PatchedIs
<1>13. PICK o \in Nat : o = 0
  OBVIOUS
<1>14. o <= z /\ z <= Len(R) /\ o + 1 = 1
  BY <1>1, <1>2, <1>13
<1>4. PICK r : r = SubSeq(vs, o + 1, z)
  OBVIOUS
<1>5. PICK q : q = SubSeq(R, o + 1, z)
  OBVIOUS
<1>6. IsPart(r, vs, o, z)
  BY <1>1, <1>4, <1>14, SeqSub
<1>7. IsPart(q, R, o, z)
  BY <1>1, <1>3, <1>5, <1>14, SeqSub
<1>8. IsSeq(r) /\ Len(r) = z /\ Len(q) = z
  BY <1>1, <1>6, <1>7, <1>13 DEF IsPart
<1>9. r = [j \in 1 .. z |-> r[j]]
  BY <1>8, SeqMade
<1>10. Reverse(q) = [j \in 1 .. z |-> q[(z - j) + 1]]
  BY <1>8 DEF Reverse
<1>11. ASSUME NEW j \in 1 .. z PROVE r[j] = q[(z - j) + 1]
  <2>1. r[j] = vs[j]
    BY <1>1, <1>6, <1>13 DEF IsPart
  <2>2. PICK h \in 1 .. z : h = (z - j) + 1
    BY <1>1
  <2>3. q[h] = R[h]
    BY <1>1, <1>7, <1>13 DEF IsPart
  <2>4. vs[j] = R[z + 1 - j] /\ z + 1 - j = h
    BY <1>1, <1>2, <2>2 DEF Shows
  <2> QED BY <2>1, <2>2, <2>3, <2>4
<1>12. r = Reverse(q)
  BY <1>9, <1>10, <1>11
<1>15. SubSeq(vs, 1, z) = Reverse(SubSeq(prods[p].rhs, 1, z))
  BY <1>2, <1>4, <1>5, <1>12, <1>14, Zenon
<1> QED BY <1>15 DEF IsReversed

\* What is spelt on the stack of states is on that of values.
LEMMA SpeltShows ==
  ASSUME AtMade, NEW st, NEW vs, Stacked(st, vs), NEW p, NEW z \in Nat, Spelt(st, vs, 1, p, z)
  PROVE  Shows(vs, p, z)
<1>1. IsSeq(st) /\ Len(vs) = Len(st)
  BY DEF Stacked
<1>2. Len(st) \in Nat /\ 1 + z <= Len(st)
  BY <1>1, SeqIs DEF Spelt
<1>3. z <= Len(vs)
  BY <1>1, <1>2
<1>4. \A j \in 1 .. z : 1 + j - 1 = j
  OBVIOUS
<1>5. \A j \in 1 .. z : vs[j] = prods[p].rhs[z + 1 - j]
  BY <1>4 DEF Spelt
<1>6. p \in 1 .. Len(prods) /\ z <= Len(prods[p].rhs)
  BY Zenon DEF Spelt
<1> QED BY <1>3, <1>5, <1>6, Zenon DEF Shows

\* An action at the left end finds nothing of its own.
LEMMA NothingShown ==
  ASSUME Patched, NEW vs, IsSeq(vs), NEW p \in 1 .. Len(prods)
  PROVE  Shows(vs, p, 0)
<1>1. Len(prods[p].rhs) \in Nat /\ Len(vs) \in Nat
  BY PatchedIs, SeqIs
<1>2. 0 <= Len(prods[p].rhs) /\ 0 <= Len(vs) /\ 0 \in Nat /\ 1 .. 0 = {}
  BY <1>1
<1> QED BY <1>2, Zenon DEF Shows

\* What is left of an action in the production it was written in.
LEMMA ActionShown ==
  ASSUME AtMade, NEW st, NEW vs, Stacked(st, vs), NEW n \in 1 .. Len(prods),
         Spelt(st, vs, 1, n, Len(prods[n].rhs))
  PROVE  Shows(vs, does[n].in, does[n].size)
<1>1. Patched /\ Machine(lrstates, actions, gotos, unfinished)
  BY Zenon DEF AtMade, Tables
<1>2. PICK p : p = does[n].in
  OBVIOUS
<1>3. PICK z : z = does[n].size
  OBVIOUS
<1>4. WhereFrom(n)
  BY <1>1 DEF Patched
<1>5. /\ p \in 1 .. Len(prods) /\ z \in 0 .. Len(prods[p].rhs)
      /\ p = n => z = 0 \/ z = Len(prods[n].rhs)
      /\ p # n =>
           /\ n # 1 /\ Len(prods[n].rhs) = 0
           /\ \A m \in 1 .. Len(prods) : \A i \in 1 .. Len(prods[m].rhs) :
                prods[m].rhs[i] = prods[n].lhs => m = p /\ i = z + 1
  BY <1>2, <1>3, <1>4, Zenon DEF WhereFrom
<1>6. Len(prods) \in Nat /\ Len(prods[p].rhs) \in Nat /\ Len(prods[n].rhs) \in Nat
  BY <1>1, <1>5, PatchedIs
<1>7. z \in Nat
  BY <1>5, <1>6
<1>8. IsSeq(st) /\ IsSeq(vs) /\ Len(st) \in Nat
  BY SeqIs DEF Stacked
<1>9. CASE z = 0
  BY <1>1, <1>2, <1>3, <1>5, <1>8, <1>9, NothingShown, Zenon
<1>10. CASE p = n /\ z = Len(prods[n].rhs)
  BY <1>2, <1>3, <1>7, <1>10, SpeltShows, Zenon
<1>11. CASE p # n
  <2>1. PICK s : s = st[1] + 1
    OBVIOUS
  <2>2. 1 \in 1 .. Len(st) /\ st[1] \in 0 .. Len(lrstates) - 1
    BY StackTop, Zenon
  <2>3. s \in 1 .. Len(lrstates)
    <3>1. Len(lrstates) \in Nat
      BY <1>1, SeqIs DEF Machine
    <3> QED BY <2>1, <2>2, <3>1
  <2>4. PICK C : C = CoresAt(lrstates)[s]
    OBVIOUS
  <2>5. n \in Closure(C)
    <3>1. n # 1 /\ 1 + Len(prods[n].rhs) = 1
      BY <1>5, <1>11
    <3>2. n \in Closure(CoresAt(lrstates)[st[1 + Len(prods[n].rhs)] + 1])
      BY <3>1, Zenon DEF Spelt
    <3> QED BY <2>1, <2>4, <3>1, <3>2, Zenon
  <2>6. PICK x : x = prods[n].lhs
    OBVIOUS
  <2>7. x # 0
    BY <1>1, <2>6, PatchedIs, NumbersAssumption
  <2>8. (\E c \in C : Ahead(c) = x) \/ (\E m \in Closure(C) : Ahead(<<m, 0>>) = x)
    BY <2>5, <2>6, ClosureHasReason, Zenon
  <2>9. CASE \E c \in C : Ahead(c) = x
    <3>1. PICK c \in C : Ahead(c) = x
      BY <2>9
    <3>2. C = CoresOf(lrstates[s].kernel)
      BY <2>3, <2>4 DEF CoresAt
    <3>3. PICK k \in 1 .. Len(lrstates[s].kernel) :
            c = <<lrstates[s].kernel[k].prod, lrstates[s].kernel[k].dot>>
      BY <3>2 DEF CoresOf
    <3>4. PICK it : it = lrstates[s].kernel[k]
      OBVIOUS
    <3>5. IsItem(it)
      BY <1>1, <2>3, <3>4, Zenon DEF Machine, StateOK
    <3>6. PICK m : m = it.prod
      OBVIOUS
    <3>7. PICK i : i = it.dot
      OBVIOUS
    <3>8. c = <<m, i>> /\ c[1] = m /\ c[2] = i
      BY <3>3, <3>4, <3>6, <3>7
    <3>9. m \in 1 .. Len(prods) /\ i \in 0 .. Len(prods[m].rhs)
      BY <3>5, <3>6, <3>7, Zenon DEF IsItem
    <3>10. Len(prods[m].rhs) \in Nat
      BY <1>1, <3>9, PatchedIs
    <3>11. i + 1 \in 1 .. Len(prods[m].rhs) /\ prods[m].rhs[i + 1] = x
      <4>1. Ahead(c) = IF i < Len(prods[m].rhs) THEN prods[m].rhs[i + 1] ELSE 0
        BY <3>8, Zenon DEF Ahead
      <4> QED BY <2>7, <3>1, <3>9, <3>10, <4>1
    <3>12. m = p /\ i + 1 = z + 1
      BY <1>5, <1>11, <2>6, <3>9, <3>11, Zenon
    <3>13. i = z
      BY <1>7, <3>9, <3>10, <3>12
    <3>14. <<p, z>> \in CoresAt(lrstates)[st[1] + 1]
      BY <2>1, <2>4, <3>8, <3>12, <3>13, Zenon
    <3>15. Spelt(st, vs, 1, p, z)
      BY <1>7, <2>2, <3>14, Spells, Zenon
    <3>16. Shows(vs, p, z)
      BY <1>7, <3>15, SpeltShows, Zenon
    <3> QED BY <1>2, <1>3, <3>16, Zenon
  <2>10. CASE \E m \in Closure(C) : Ahead(<<m, 0>>) = x
    <3>1. PICK m \in Closure(C) : Ahead(<<m, 0>>) = x
      BY <2>10
    <3>2. m \in 1 .. Len(prods)
      BY DEF Closure
    <3>3. Len(prods[m].rhs) \in Nat
      BY <1>1, <3>2, PatchedIs
    <3>4. 1 \in 1 .. Len(prods[m].rhs) /\ prods[m].rhs[1] = x
      BY <2>7, <3>1, <3>3 DEF Ahead
    <3>5. 1 = z + 1
      BY <1>5, <1>11, <2>6, <3>2, <3>4, Zenon
    <3>6. z = 0
      BY <1>7, <3>5
    <3> QED BY <1>1, <1>2, <1>3, <1>5, <1>8, <3>6, NothingShown, Zenon
  <2> QED BY <2>8, <2>9, <2>10
<1> QED BY <1>5, <1>9, <1>10, <1>11

\* The property, from what is on the stacks.
LEMMA PropertyFollows ==
  ASSUME at = "parse" => AtMade /\ Stacks
  PROVE  ActionsSeeTheirSymbols
<1> SUFFICES ASSUME AtMade, Stacks
             PROVE  /\ Len(values) = Len(stack)
                    /\ \A i \in 1 .. Len(stack) - 1 : stack[i] = Move(stack[i + 1], values[i])
                    /\ \A n \in DOMAIN prods : Parsing(1 - n) =>
                         /\ SubSeq(values, 1, Len(prods[n].rhs)) = Reverse(prods[n].rhs)
                         /\ SubSeq(values, 1, does[n].size)
                              = Reverse(SubSeq(prods[does[n].in].rhs, 1, does[n].size))
  BY Zenon DEF ActionsSeeTheirSymbols
<1>1. Patched /\ Stacked(stack, values)
  BY Zenon DEF AtMade, Stacks
<1>2. /\ Len(values) = Len(stack) /\ IsSeq(values)
      /\ \A i \in 1 .. Len(stack) - 1 : stack[i] = Move(stack[i + 1], values[i])
  BY <1>1, Zenon DEF Stacked
<1>3. ASSUME NEW n \in DOMAIN prods, Parsing(1 - n)
      PROVE  /\ SubSeq(values, 1, Len(prods[n].rhs)) = Reverse(prods[n].rhs)
             /\ SubSeq(values, 1, does[n].size)
                  = Reverse(SubSeq(prods[does[n].in].rhs, 1, does[n].size))
  <2>1. n \in 1 .. Len(prods)
    <3>1. IsSeq(prods)
      BY <1>1 DEF Patched
    <3> QED BY <3>1, SeqIs
  <2>2. Head(stack) = stack[1] /\ stack[1] \in 0 .. Len(lrstates) - 1
    BY <1>1, StackTop, Zenon
  <2>3. 1 - n = Act_num(stack[1], lookahead)
    BY <1>3, <2>2, Zenon DEF Parsing
  <2>4. Reduces(CoresAt(lrstates)[stack[1] + 1], n)
    BY <2>1, <2>2, <2>3, ReduceAllowed, Zenon
  <2>5. PICK d \in Nat : d = Len(prods[n].rhs)
    BY <1>1, <2>1, PatchedIs
  <2>6. Spelt(stack, values, 1, n, d)
    BY <1>1, <2>4, <2>5, ReducedSpelt, Zenon
  <2>7. Shows(values, n, d)
    BY <1>1, <2>6, SpeltShows, Zenon
  <2>8. SubSeq(values, 1, d) = Reverse(SubSeq(prods[n].rhs, 1, d))
    <3>1. IsReversed(values, n, d)
      BY <1>1, <1>2, <2>7, ShownReversed, Zenon
    <3> QED BY <3>1 DEF IsReversed
  <2>9. SubSeq(prods[n].rhs, 1, d) = prods[n].rhs
    <3>1. PICK R : R = prods[n].rhs
      OBVIOUS
    <3>2. IsSeq(R)
      BY <1>1, <2>1, <3>1, PatchedIs
    <3>3. PICK S : R \in Seq(S)
      BY <3>2 DEF IsSeq
    <3>4. SubSeq(R, 1, Len(R)) = R
      BY <3>3
    <3> QED BY <2>5, <3>1, <3>4
  <2>10. Shows(values, does[n].in, does[n].size)
    BY <1>1, <2>1, <2>5, <2>6, ActionShown, Zenon
  <2>11. SubSeq(values, 1, does[n].size)
           = Reverse(SubSeq(prods[does[n].in].rhs, 1, does[n].size))
    <3>1. IsReversed(values, does[n].in, does[n].size)
      BY <1>1, <1>2, <2>10, ShownReversed, Zenon
    <3> QED BY <3>1 DEF IsReversed
  <2> QED BY <2>5, <2>8, <2>9, <2>11, Zenon
<1> QED BY <1>2, <1>3

-----------------------------------------------------------------------------
(* The invariant: what holds at every stage. *)

ByStage ==
  /\ at = "read" => Reading
  /\ at = "first" => Ready
  /\ at = "patched" => Patched
  /\ at = "lr" => AtLr
  /\ at = "close" => AtClose
  /\ at \in {"sort", "sorted"} => AtSort
  /\ at = "shift" => AtShift
  /\ at = "made" => AtMade
  /\ at \in {"parse", "recover"} => AtMade /\ Stacks

\* When nothing changes.
LEMMA BusyStutters ==
  ASSUME UNCHANGED vars
  PROVE  /\ Patched => Patched'
         /\ AtLr => AtLr'
         /\ AtClose => AtClose'
         /\ AtSort => AtSort'
         /\ AtShift => AtShift'
         /\ AtMade => AtMade'
         /\ Stacks => Stacks'
<1>1. /\ lrstates' = lrstates /\ actions' = actions /\ gotos' = gotos /\ unfinished' = unfinished
      /\ cur_state' = cur_state /\ prods' = prods /\ file' = file /\ does' = does /\ goal' = goal
      /\ items' = items /\ did' = did /\ stack' = stack /\ values' = values
  BY Zenon DEF vars, grammar, built, closing, machine, parser
<1>2. UnchangedInParse
  BY Zenon DEF vars, grammar, built, closing, machine, parser, UnchangedInParse
<1>3. ASSUME Patched PROVE Patched'
  BY <1>1, <1>3, SamePatched, Zenon
<1>4. ASSUME Tables PROVE Tables'
  <2>1. PICK L : L = lrstates
    OBVIOUS
  <2>2. PICK A : A = actions
    OBVIOUS
  <2>3. PICK G : G = gotos
    OBVIOUS
  <2>4. PICK U : U = unfinished
    OBVIOUS
  <2>5. Machine(L, A, G, U)
    BY <1>4, <2>1, <2>2, <2>3, <2>4, Zenon DEF Tables
  <2> QED BY <1>1, <2>1, <2>2, <2>3, <2>4, <2>5, TablesMade, Zenon
<1>5. ASSUME AtLr PROVE AtLr'
  <2>1. Waiting(lrstates, unfinished, NONE)'
    BY <1>1, <1>5, Zenon DEF AtLr, Waiting, NONE
  <2> QED BY <1>3, <1>4, <1>5, <2>1, Zenon DEF AtLr
<1>6. ASSUME AtMade PROVE AtMade'
  BY <1>2, <1>6, MadeKept, Zenon
<1>7. ASSUME Stacks PROVE Stacks'
  <2>1. PICK st : st = stack
    OBVIOUS
  <2>2. PICK vs : vs = values
    OBVIOUS
  <2>3. Stacked(st, vs)
    BY <1>7, <2>1, <2>2, Zenon DEF Stacks
  <2>4. Stacked(st, vs)'
    BY <1>1, <2>3, SameStacked, Zenon
  <2> QED BY <1>1, <2>1, <2>2, <2>4, Zenon DEF Stacks
<1>8. ASSUME Busy
      PROVE  Busy' /\ CurCores' = CurCores /\ gotos'[cur_state'] = gotos[cur_state]
  BY <1>1, <1>8, BusyKept, Zenon
<1>9. PICK C : C = CurCores
  OBVIOUS
<1>10. PICK q : q = items
  OBVIOUS
<1>11. PICK row : row = DOMAIN gotos[cur_state]
  OBVIOUS
<1>12. PICK T : T = DOMAIN items
  OBVIOUS
<1>13. ASSUME AtClose PROVE AtClose'
  <2>1. Busy /\ Covers(C, T) /\ (~did => IsClosed(C, T))
    BY <1>9, <1>12, <1>13, Zenon DEF AtClose
  <2>2. Covers(C, T)' /\ (~did' => IsClosed(C, T)')
    BY <1>1, <2>1, SameMachine, Zenon
  <2>3. CurCores' = C /\ DOMAIN items' = T
    BY <1>1, <1>8, <1>9, <1>12, <2>1
  <2> QED BY <1>8, <2>1, <2>2, <2>3, Zenon DEF AtClose
<1>14. ASSUME AtSort PROVE AtSort'
  <2>1. Busy /\ Moving(C, q, {})
    BY <1>9, <1>10, <1>14, Zenon DEF AtSort
  <2>2. Moving(C, q, {})'
    BY <1>1, <2>1, SameMachine, Zenon
  <2>3. CurCores' = C /\ items' = q
    BY <1>1, <1>8, <1>9, <1>10, <2>1
  <2> QED BY <1>8, <2>1, <2>2, <2>3, Zenon DEF AtSort
<1>15. ASSUME AtShift PROVE AtShift'
  <2>1. /\ Busy /\ Moving(C, q, row)
        /\ \A k \in 1 .. Len(q) : Ahead(<<q[k].prod, q[k].dot>>) # 0
    BY <1>9, <1>10, <1>11, <1>15, Zenon DEF AtShift
  <2>2. Moving(C, q, row)'
    BY <1>1, <2>1, SameMachine, Zenon
  <2>3. (\A k \in 1 .. Len(q) : Ahead(<<q[k].prod, q[k].dot>>) # 0)'
    BY <1>1, <2>1, SameMachine, Zenon
  <2>4. CurCores' = C /\ items' = q /\ DOMAIN gotos'[cur_state'] = row
    BY <1>1, <1>8, <1>9, <1>10, <1>11, <2>1
  <2> QED BY <1>8, <2>1, <2>2, <2>3, <2>4, Zenon DEF AtShift
<1> QED BY <1>3, <1>5, <1>6, <1>7, <1>13, <1>14, <1>15

\* Reading the grammar file keeps the invariant of its stage.
LEMMA ReadKeeps == ASSUME ByStage, ReadNext PROVE ByStage'
<1>1. at = "read"
  BY Zenon DEF ReadNext, Type, Lhs, Rhs, Symbol, Action, StartOpt, NestTooDeep, EndOpt, EndRep, Prec,
               EndOfFile, Made
<1>2. Reading
  BY <1>1, Zenon DEF ByStage
<1>3. \/ at' = "read" /\ Reading'
      \/ at' = "first" /\ Ready'
      \/ at' \in {"fatal", "undefined", "errors"}
  BY <1>1, <1>2, ReadStep, Zenon
<1> QED BY <1>3 DEF ByStage

\* So does first().
LEMMA FirstKeeps == ASSUME ByStage, FirstNext PROVE ByStage'
<1>1. at = "first"
  BY Zenon DEF FirstNext, FirstClosure, FirstPass
<1>2. Ready
  BY <1>1, Zenon DEF ByStage
<1>3. at' = "first" /\ Ready'
  BY <1>2, FirstStep, Zenon
<1> QED BY <1>3 DEF ByStage

\* The stages of yypatch.c and yystate.c, one after the other.
LEMMA LalrKeeps == ASSUME ByStage, LalrNext PROVE ByStage'
<1>1. CASE patch
  <2>1. at = "first"
    BY <1>1, Zenon DEF patch, FirstDone
  <2>2. Ready
    BY <2>1, Zenon DEF ByStage
  <2>3. at' = "fatal" \/ (at' = "patched" /\ Patched')
    BY <1>1, <2>1, <2>2, PatchStep, Zenon
  <2> QED BY <2>3 DEF ByStage
<1>2. CASE make_parse_tables
  <2>1. at = "patched"
    BY <1>2, Zenon DEF make_parse_tables
  <2>2. Patched
    BY <2>1, Zenon DEF ByStage
  <2>3. at' = "fatal" \/ (at' = "lr" /\ AtLr')
    BY <1>2, <2>1, <2>2, MakeTablesStep, Zenon
  <2> QED BY <2>3 DEF ByStage
<1>3. CASE get_unfinished
  <2>1. at = "lr"
    BY <1>3, Zenon DEF get_unfinished
  <2>2. AtLr
    BY <2>1, Zenon DEF ByStage
  <2>3. at' = "fatal" \/ (at' = "close" /\ AtClose')
    BY <1>3, <2>1, <2>2, GetUnfinishedStep, Zenon
  <2> QED BY <2>3 DEF ByStage
<1>4. CASE closure
  <2>1. at = "close"
    BY <1>4, Zenon DEF closure
  <2>2. AtClose
    BY <2>1, Zenon DEF ByStage
  <2>3. at' = "fatal" \/ (at' = "close" /\ AtClose')
    BY <1>4, <2>1, <2>2, ClosureStep, Zenon
  <2> QED BY <2>3 DEF ByStage
<1>5. CASE kclosure
  <2>1. at = "close"
    BY <1>5, Zenon DEF kclosure
  <2>2. AtClose
    BY <2>1, Zenon DEF ByStage
  <2>3. at' = "fatal" \/ (at' = "sort" /\ AtSort')
    BY <1>5, <2>1, <2>2, KclosureStep, Zenon
  <2> QED BY <2>3 DEF ByStage
<1>6. CASE sort
  <2>1. at = "sort"
    BY <1>6, Zenon DEF sort
  <2>2. AtSort
    BY <2>1, Zenon DEF ByStage
  <2>3. at' = "sorted" /\ AtSort'
    BY <1>6, <2>1, <2>2, SortStep, Zenon
  <2> QED BY <2>3 DEF ByStage
<1>7. CASE move_eps
  <2>1. at = "sorted"
    BY <1>7, Zenon DEF move_eps
  <2>2. AtSort
    BY <2>1, Zenon DEF ByStage
  <2>3. at' = "fatal" \/ (at' = "shift" /\ AtShift')
    BY <1>7, <2>1, <2>2, MoveEpsStep, Zenon
  <2> QED BY <2>3 DEF ByStage
<1>8. CASE newstate
  <2>1. at = "shift"
    BY <1>8, Zenon DEF newstate
  <2>2. AtShift
    BY <2>1, Zenon DEF ByStage
  <2>3. at' = "fatal" \/ (at' = "shift" /\ AtShift')
    BY <1>8, <2>1, <2>2, NewstateStep, Zenon
  <2> QED BY <2>3 DEF ByStage
<1>9. CASE closed
  <2>1. at = "shift"
    BY <1>9, Zenon DEF closed
  <2>2. AtShift
    BY <2>1, Zenon DEF ByStage
  <2>3. at' = "lr" /\ AtLr'
    BY <1>9, <2>1, <2>2, ClosedStep, Zenon
  <2> QED BY <2>3 DEF ByStage
<1>10. CASE add_reductions
  <2>1. at = "lr"
    BY <1>10, Zenon DEF add_reductions
  <2>2. AtLr
    BY <2>1, Zenon DEF ByStage
  <2>3. at' = "lr" /\ AtLr'
    BY <1>10, <2>1, <2>2, AddReductionsStep, Zenon
  <2> QED BY <2>3 DEF ByStage
<1>11. CASE print_tab
  <2>1. at = "lr"
    BY <1>11, Zenon DEF print_tab
  <2>2. AtLr
    BY <2>1, Zenon DEF ByStage
  <2>3. at' = "made" /\ AtMade'
    BY <1>11, <2>1, <2>2, PrintTabStep, Zenon
  <2> QED BY <2>3 DEF ByStage
<1> QED BY <1>1, <1>2, <1>3, <1>4, <1>5, <1>6, <1>7, <1>8, <1>9, <1>10, <1>11, Zenon DEF LalrNext

\* The parser that is made, on any stream of tokens.
LEMMA ParseKeeps == ASSUME ByStage, ParseNext PROVE ByStage'
<1>1. CASE Start
  <2>1. at = "made"
    BY <1>1, Zenon DEF Start
  <2>2. AtMade
    BY <2>1, Zenon DEF ByStage
  <2>3. at' = "parse" /\ AtMade' /\ Stacks'
    BY <1>1, <2>1, <2>2, StartStep, Zenon
  <2> QED BY <2>3 DEF ByStage
<1>2. CASE yy_shift
  <2>1. at = "parse"
    BY <1>2, Zenon DEF yy_shift, Parsing
  <2>2. AtMade /\ Stacks
    BY <2>1 DEF ByStage
  <2>3. AtMade' /\ (at' = "overflow" \/ (at' = "parse" /\ Stacks'))
    BY <1>2, <2>1, <2>2, ShiftStep, Zenon
  <2> QED BY <2>3 DEF ByStage
<1>3. CASE yy_reduce
  <2>1. at = "parse"
    BY <1>3, Zenon DEF yy_reduce, Parsing
  <2>2. AtMade /\ Stacks
    BY <2>1 DEF ByStage
  <2>3. AtMade' /\ (at' \in {"returned", "accepted", "undefined"} \/ (at' = "parse" /\ Stacks'))
    BY <1>3, <2>1, <2>2, ReduceStep, Zenon
  <2> QED BY <2>3 DEF ByStage
<1>4. CASE yy_recover
  <2>1. at = "parse"
    BY <1>4, Zenon DEF yy_recover, Parsing
  <2>2. AtMade /\ Stacks
    BY <2>1 DEF ByStage
  <2>3. AtMade' /\ Stacks' /\ at' \in {"aborted", "recover"}
    BY <1>4, <2>1, <2>2, RecoverStep, Zenon
  <2> QED BY <2>3 DEF ByStage
<1>5. CASE Recovered
  <2>1. at = "recover"
    BY <1>5, Zenon DEF Recovered
  <2>2. AtMade /\ Stacks
    BY <2>1 DEF ByStage
  <2>3. AtMade' /\ Stacks' /\ at' \in {"aborted", "parse"}
    BY <1>5, <2>1, <2>2, RecoveredStep, Zenon
  <2> QED BY <2>3 DEF ByStage
<1>6. CASE Discard
  <2>1. at = "recover"
    BY <1>6, Zenon DEF Discard
  <2>2. AtMade /\ Stacks
    BY <2>1 DEF ByStage
  <2>3. AtMade' /\ Stacks' /\ at' \in {"aborted", "recover"}
    BY <1>6, <2>1, <2>2, RecoverStep, Zenon
  <2> QED BY <2>3 DEF ByStage
<1> QED BY <1>1, <1>2, <1>3, <1>4, <1>5, <1>6, Zenon DEF ParseNext

\* The invariant holds from the grammar file to the last token.
LEMMA StageHolds == Spec => []ByStage
<1>1. OccsInit => ByStage
  <2> SUFFICES ASSUME OccsInit PROVE ByStage
    OBVIOUS
  <2>1. Init
    BY DEF OccsInit, LalrInit
  <2>2. at = "read" /\ Reading
    BY <2>1, InitReading DEF Init
  <2> QED BY <2>2 DEF ByStage
<1>2. ByStage /\ [Next]_vars => ByStage'
  <2> SUFFICES ASSUME ByStage, [Next]_vars PROVE ByStage'
    OBVIOUS
  <2>1. CASE UNCHANGED vars
    <3>1. at' = at
      BY <2>1, Zenon DEF vars, grammar
    <3>2. /\ Patched => Patched'
          /\ AtLr => AtLr'
          /\ AtClose => AtClose'
          /\ AtSort => AtSort'
          /\ AtShift => AtShift'
          /\ AtMade => AtMade'
          /\ Stacks => Stacks'
      BY <2>1, BusyStutters, Zenon
    <3>3. (Reading => Reading') /\ (Ready => Ready')
      <4>1. UNCHANGED <<file, made, built, order>>
        BY <2>1, Zenon DEF vars, grammar, closing
      <4> QED BY <4>1, ReadingStutters, Zenon
    <3> QED BY <3>1, <3>2, <3>3, Zenon DEF ByStage
  <2>2. CASE ReadNext
    BY <2>2, ReadKeeps, Zenon
  <2>3. CASE FirstNext
    BY <2>3, FirstKeeps, Zenon
  <2>4. CASE LalrNext
    BY <2>4, LalrKeeps, Zenon
  <2>5. CASE ParseNext
    BY <2>5, ParseKeeps, Zenon
  <2> QED BY <2>1, <2>2, <2>3, <2>4, <2>5, Zenon DEF Next
<1> QED BY <1>1, <1>2, PTL DEF Spec

\* In every parser that occs makes of a grammar file, the symbols below the states on the
\* stack are those that lead to them, and every action, also one from the middle of a
\* right-hand side, finds its symbols on the value stack; after recovery too.
THEOREM ActionsAlwaysSeeTheirSymbols == Spec => []ActionsSeeTheirSymbols
<1>1. ByStage => ActionsSeeTheirSymbols
  <2> SUFFICES ASSUME ByStage PROVE ActionsSeeTheirSymbols
    OBVIOUS
  <2>1. at = "parse" => AtMade /\ Stacks
    BY DEF ByStage
  <2> QED BY <2>1, PropertyFollows, Zenon
<1> QED BY <1>1, StageHolds, PTL
==============================================================================
