---------------------------- MODULE Llama_proofs ----------------------------
(***************************************************************************)
(* What is true of llama for every grammar, every stream of tokens and     *)
(* every limit: recovery gets somewhere, whatever the tables say; FIRST,   *)
(* FOLLOW and SELECT are the least sets their rules allow, in whatever     *)
(* order the symbols are visited; the tables printed from them answer a    *)
(* parser with the production they select; and the parser accepts what the *)
(* productions derive, and, without conflicts, everything they derive.     *)
(***************************************************************************)
EXTENDS Llama, Grammar_proofs

-----------------------------------------------------------------------------
(* Recovery. *)

\* A sequence of whatever.
IsTrace == \E S : trace \in Seq(S)

\* An error has just been recovered from, and the next step matches its token.
Aligned == stack # <<>> /\ ISTERM(Tos) /\ Tos = lookahead

Owes == yynerrs = Cardinality(Matched) + 1

\* RecoveryConsumes is not inductive: two errors might follow each other without a token in
\* between.  IInv adds why they do not: once there is one more error than tokens matched,
\* the parser is in recovery, or what it looks at is the synchronising token on its stack.
IInv ==
  /\ file \in Files
  /\ IsTrace
  /\ yynerrs \in Nat
  /\ RecoveryConsumes
  /\ Owes => at \notin {"read", "first", "follow", "tables", "made"}
  /\ at = "parse" /\ Owes => Aligned
  /\ at = "synch" => stack # <<>> /\ yy_in_synch(Tos)

-----------------------------------------------------------------------------
\* The tokens matched so far are finitely many.
LEMMA MatchedFinite ==
  ASSUME IsTrace
  PROVE  IsFiniteSet(Matched) /\ Cardinality(Matched) \in Nat
<1>1. PICK S : trace \in Seq(S)  BY DEF IsTrace
<1>2. DOMAIN trace = 1 .. Len(trace) /\ Len(trace) \in Nat  BY <1>1
<1>3. IsFiniteSet(1 .. Len(trace))  BY <1>2, FS_Interval
<1>4. Matched \subseteq 1 .. Len(trace)  BY <1>2 DEF Matched
<1> QED  BY <1>3, <1>4, FS_Subset, FS_CardinalityType

\* A token that is matched is one more.
LEMMA TokenMatched ==
  ASSUME IsTrace, NEW x, ISTERM(x), trace' = Append(trace, x), file' = file
  PROVE  IsTrace' /\ Cardinality(Matched)' = Cardinality(Matched) + 1
<1>1. PICK S : trace \in Seq(S)  BY DEF IsTrace
<1>2. trace \in Seq(S \cup {x})  BY <1>1
<1>3. trace' \in Seq(S \cup {x})  BY <1>2
<1>4. /\ DOMAIN trace = 1 .. Len(trace) /\ Len(trace) \in Nat
      /\ DOMAIN trace' = 1 .. Len(trace) + 1
      /\ \A i \in 1 .. Len(trace) : trace'[i] = trace[i]
      /\ trace'[Len(trace) + 1] = x
  BY <1>2
<1>5. Matched' = Matched \cup {Len(trace) + 1}
  BY <1>4 DEF Matched, ISTERM, terms
<1>6. Len(trace) + 1 \notin Matched  BY <1>4 DEF Matched
<1> QED  BY <1>3, <1>5, <1>6, MatchedFinite, FS_AddElement DEF IsTrace

\* An action that is done matches none.
LEMMA ActionDone ==
  ASSUME IsTrace, NEW x, ~ISTERM(x), trace' = Append(trace, x), file' = file
  PROVE  IsTrace' /\ Matched' = Matched
<1>1. PICK S : trace \in Seq(S)  BY DEF IsTrace
<1>2. trace \in Seq(S \cup {x})  BY <1>1
<1>3. trace' \in Seq(S \cup {x})  BY <1>2
<1>4. /\ DOMAIN trace = 1 .. Len(trace) /\ Len(trace) \in Nat
      /\ DOMAIN trace' = 1 .. Len(trace) + 1
      /\ \A i \in 1 .. Len(trace) : trace'[i] = trace[i]
      /\ trace'[Len(trace) + 1] = x
  BY <1>2
<1>5. Matched' = Matched  BY <1>4 DEF Matched, ISTERM, terms
<1> QED  BY <1>3, <1>5 DEF IsTrace

\* A symbol is of one kind.
LEMMA Kinds ==
  ASSUME file \in Files, NEW x, ISTERM(x)
  PROVE  ~ISACT(x) /\ ~ISNONTERM(x)
BY NumbersAssumption DEF ISTERM, ISACT, ISNONTERM, terms

-----------------------------------------------------------------------------
\* Before a parser runs nothing is counted, and nothing matched.
LEMMA InitIInv == LlamaInit => IInv
<1> SUFFICES ASSUME LlamaInit PROVE IInv
  OBVIOUS
<1>1. file \in Files /\ at = "read" /\ trace = <<>> /\ yynerrs = 0
  BY DEF LlamaInit, Init
<1>2. IsTrace
  <2>1. trace \in Seq({})  BY <1>1
  <2> QED  BY <2>1 DEF IsTrace
<1>3. Matched = {}  BY <1>1 DEF Matched
<1>4. Cardinality(Matched) = 0  BY <1>3, FS_EmptySet
<1> QED  BY <1>1, <1>2, <1>4 DEF IInv, RecoveryConsumes, Owes

\* A step that matches nothing, counts nothing and does not go on from recovery.
LEMMA Elsewhere ==
  ASSUME IInv, UNCHANGED <<file, trace, yynerrs>>,
         at' = "synch" => (at = "synch" /\ UNCHANGED stack),
         at' \in {"read", "first", "follow", "tables", "made"}
           => at \in {"read", "first", "follow", "tables", "made"},
         at' = "parse" => at = "made" \/ (at = "parse" /\ ~Aligned)
  PROVE  IInv'
<1>1. Cardinality(Matched)' = Cardinality(Matched)
  BY DEF Matched, ISTERM, terms
<1>2. IsTrace'  BY DEF IInv, IsTrace
<1> QED  BY <1>1, <1>2, MatchedFinite
         DEF IInv, RecoveryConsumes, Owes, yy_in_synch, Tos

-----------------------------------------------------------------------------
\* Reading the grammar file does not touch the parser, and ends in the stage "first".
LEMMA ReadIInv == IInv /\ ReadNext /\ UNCHANGED <<sets, parser>> => IInv'
<1> SUFFICES ASSUME IInv, ReadNext, UNCHANGED <<sets, parser>> PROVE IInv'
  OBVIOUS
<1> USE DEF parser
<1>1. ASSUME NEW c, Made(c), NEW g, Becomes(g)
      PROVE  at = "read" /\ at' \in {"read", "fatal"} /\ file' = file
  BY <1>1 DEF Made, Becomes
<1>2. at = "read" /\ at' \in {"read", "first", "fatal", "errors", "undefined"} /\ file' = file
  <2>1. CASE EndOfFile    BY <2>1 DEF EndOfFile
  <2>2. CASE NestTooDeep  BY <2>2 DEF NestTooDeep, Made
  <2>3. CASE Type \/ Lhs \/ Rhs \/ Symbol \/ Action
    BY <2>3, <1>1 DEF Type, Lhs, Rhs, Symbol, Action
  <2>4. CASE StartOpt \/ EndOpt \/ EndRep \/ Prec
    BY <2>4, <1>1 DEF StartOpt, EndOpt, EndRep, Prec
  <2> QED  BY <2>1, <2>2, <2>3, <2>4 DEF ReadNext
<1> QED  BY <1>2, Elsewhere

\* Neither does the analysis.
LEMMA AnalysisIInv ==
  /\ IInv
  /\ \/ FirstNext /\ UNCHANGED <<sets, parser>>
     \/ init \/ follow_closure \/ FollowPass \/ llselect \/ tables
  => IInv'
<1> SUFFICES ASSUME IInv,
                    \/ FirstNext /\ UNCHANGED <<sets, parser>>
                    \/ init \/ follow_closure \/ FollowPass \/ llselect \/ tables
             PROVE  IInv'
  OBVIOUS
<1>1. /\ at \in {"first", "follow", "tables"}
      /\ at' \in {"first", "follow", "tables", "made", "uncompilable"}
      /\ UNCHANGED <<file, parser>>
  <2>1. CASE FirstNext /\ UNCHANGED <<sets, parser>>
    BY <2>1 DEF FirstNext, FirstClosure, FirstPass
  <2>2. CASE init            BY <2>2 DEF init, FirstDone
  <2>3. CASE follow_closure  BY <2>3 DEF follow_closure
  <2>4. CASE FollowPass      BY <2>4 DEF FollowPass
  <2>5. CASE llselect        BY <2>5 DEF llselect
  <2>6. CASE tables          BY <2>6 DEF tables
  <2> QED  BY <2>1, <2>2, <2>3, <2>4, <2>5, <2>6
<1> QED  BY <1>1, Elsewhere DEF parser

\* The one step that counts an error finds one less than allowed: the lookahead is not
\* the synchronising token.
LEMMA ErrorIInv == IInv /\ yy_synch => IInv'
<1> SUFFICES ASSUME IInv, yy_synch PROVE IInv'
  OBVIOUS
<1>1. UNCHANGED <<file, stack, trace>> /\ yynerrs' = yynerrs + 1
  BY DEF yy_synch, UnchangedInParse
<1>2. Cardinality(Matched)' = Cardinality(Matched) /\ IsTrace'
  BY <1>1 DEF IInv, IsTrace, Matched, ISTERM, terms
<1>3. ~Aligned
  BY Kinds DEF IInv, yy_synch, Unexpected, Aligned
<1>4. ~Owes  BY <1>3 DEF IInv, yy_synch, Parsing
<1>5. yynerrs <= Cardinality(Matched)
  BY <1>4, MatchedFinite DEF IInv, Owes, RecoveryConsumes
<1>6. at' \in {"aborted", "popping"}  BY DEF yy_synch
<1> QED  BY <1>1, <1>2, <1>5, <1>6, MatchedFinite DEF IInv, RecoveryConsumes

\* The one step that matches a token pays for the error.
LEMMA AdvanceIInv == IInv /\ Advance => IInv'
<1> SUFFICES ASSUME IInv, Advance PROVE IInv'
  OBVIOUS
<1>1. /\ UNCHANGED <<file, yynerrs, at>> /\ at = "parse"
      /\ ISTERM(lookahead) /\ trace' = Append(trace, lookahead)
  BY DEF Advance, UnchangedInParse, Parsing
<1>2. IsTrace' /\ Cardinality(Matched)' = Cardinality(Matched) + 1
  BY <1>1, TokenMatched DEF IInv
<1> QED  BY <1>1, <1>2, MatchedFinite DEF IInv, RecoveryConsumes, Owes

\* Recovery ends at the synchronising token, which is next.
LEMMA SynchronisedIInv == IInv /\ Synchronised => IInv'
<1> SUFFICES ASSUME IInv, Synchronised PROVE IInv'
  OBVIOUS
<1>1. UNCHANGED <<file, lookahead, stack, trace, yynerrs>> /\ at' \in {"aborted", "parse"}
  BY DEF Synchronised, UnchangedInParse
<1>2. Cardinality(Matched)' = Cardinality(Matched) /\ IsTrace'
  BY <1>1 DEF IInv, IsTrace, Matched, ISTERM, terms
<1>3. at' = "parse" => lookahead = Tos  BY DEF Synchronised
<1>4. stack # <<>> /\ ISTERM(Tos)
  BY LlamaAssumption DEF IInv, Synchronised, yy_in_synch, ISTERM, terms
<1>5. at' = "parse" => Aligned'
  BY <1>1, <1>3, <1>4 DEF Aligned, Tos, ISTERM, terms
<1> QED  BY <1>1, <1>2, <1>5 DEF IInv, RecoveryConsumes

\* The other steps of the parser.
LEMMA ParseIInv == IInv /\ ParseNext => IInv'
<1> SUFFICES ASSUME IInv, ParseNext PROVE IInv'
  OBVIOUS
<1> USE DEF UnchangedInParse
<1>1. CASE Start
  <2>1. at = "made" /\ at' = "parse" /\ UNCHANGED <<file, trace, yynerrs>>
    BY <1>1 DEF Start
  <2> QED  BY <2>1, Elsewhere
<1>2. CASE act
  <2>1. ~ISTERM(Tos)  BY <1>2, Kinds DEF act, IInv
  <2>2. IsTrace' /\ Matched' = Matched  BY <1>2, <2>1, ActionDone DEF act, IInv
  <2>3. Owes => FALSE  BY <1>2, <2>1 DEF IInv, act, Parsing, Aligned
  <2>4. Cardinality(Matched)' = Cardinality(Matched)  BY <2>2
  <2>5. UNCHANGED <<file, yynerrs>> /\ at' \in {"parse", "returned"}
    BY <1>2 DEF act, Parsing
  <2> QED  BY <2>2, <2>3, <2>4, <2>5 DEF IInv, RecoveryConsumes, Owes
<1>3. CASE Advance       BY <1>3, AdvanceIInv
<1>4. CASE Replace
  <2>1. ~Aligned  BY <1>4, Kinds DEF Replace, IInv, Aligned
  <2>2. /\ UNCHANGED <<file, trace, yynerrs>> /\ at = "parse"
        /\ at' \in {"overflow", "parse"}
    BY <1>4 DEF Replace, Parsing
  <2> QED  BY <2>1, <2>2, Elsewhere
<1>5. CASE Accept        BY <1>5, Elsewhere DEF Accept
<1>6. CASE yy_synch      BY <1>6, ErrorIInv
<1>7. CASE Pop           BY <1>7, Elsewhere DEF Pop
<1>8. CASE Popped
  <2>1. Cardinality(Matched)' = Cardinality(Matched) /\ IsTrace'
    BY <1>8 DEF Popped, IInv, IsTrace, Matched, ISTERM, terms
  <2> QED  BY <1>8, <2>1 DEF Popped, IInv, RecoveryConsumes, Tos, yy_in_synch
<1>9. CASE Discard       BY <1>9, Elsewhere DEF Discard
<1>10. CASE Synchronised BY <1>10, SynchronisedIInv
<1> QED  BY <1>1, <1>2, <1>3, <1>4, <1>5, <1>6, <1>7, <1>8, <1>9, <1>10 DEF ParseNext

-----------------------------------------------------------------------------
\* In every parser that llama makes, there are never more errors than tokens matched,
\* plus one: recovery (llama.m:305-336) is never entered twice at the same place.
THEOREM RecoveryAlwaysConsumes == Spec => []RecoveryConsumes
<1>1. IInv /\ [Next]_vars => IInv'
  <2> SUFFICES ASSUME IInv, [Next]_vars PROVE IInv'
    OBVIOUS
  <2>1. CASE ReadNext /\ UNCHANGED <<sets, parser>>   BY <2>1, ReadIInv
  <2>2. CASE FirstNext /\ UNCHANGED <<sets, parser>>  BY <2>2, AnalysisIInv
  <2>3. CASE init \/ follow_closure \/ FollowPass \/ llselect \/ tables
    BY <2>3, AnalysisIInv
  <2>4. CASE ParseNext  BY <2>4, ParseIInv
  <2>5. CASE UNCHANGED vars
    BY <2>5 DEF vars, grammar, parser, IInv, IsTrace, RecoveryConsumes, Owes, Matched, Aligned,
                ISTERM, terms, Tos, yy_in_synch
  <2> QED  BY <2>1, <2>2, <2>3, <2>4, <2>5 DEF Next
<1>2. IInv => RecoveryConsumes  BY DEF IInv
<1> QED  BY InitIInv, <1>1, <1>2, PTL DEF Spec

-----------------------------------------------------------------------------
(* The tables. *)

\* What a parser reads in the row p of a table for the token t: yy_next().
Read(p, t) ==
  IF p = <<>> THEN YYF
  ELSE IF p[1] = 0 THEN p[t + 2]
  ELSE IF {i \in 1 .. p[1] : p[2 * i] = t} = {} THEN YYF
  ELSE p[2 * Min({i \in 1 .. p[1] : p[2 * i] = t}) + 1]

\* A row of numbers of productions, with -1 where there is none.
IsRow(row) ==
  /\ row = [c \in 1 .. Len(terms) + 1 |-> row[c]]
  /\ \A c \in Columns : row[c + 1] \in Nat \cup {-1}

LEMMA NoEntry == cell(-1) = YYF
BY LlamaAssumption DEF cell, YYF

\* The even places of a packed row are columns, and what follows one is its entry.
PairsOf(cols, row) ==
  [j \in 1 .. 2 * Len(cols) |->
     IF j % 2 = 1 THEN cols[(j + 1) \div 2] ELSE cell(row[cols[(j + 1) \div 2] + 1])]

ArePairs(p, cols, row) ==
  /\ p # <<>> /\ p[1] = Len(cols)
  /\ \A i \in 1 .. Len(cols) : p[2 * i] = cols[i] /\ p[2 * i + 1] = cell(row[cols[i] + 1])

LEMMA PairsAre ==
  ASSUME NEW cols, IsSeq(cols), NEW row, NEW p, p = <<Len(cols)>> \o PairsOf(cols, row),
         Len(cols) > 0
  PROVE  ArePairs(p, cols, row)
<1>1. Len(cols) \in Nat /\ 2 * Len(cols) \in Nat
  BY SeqIs
<1>2. PICK q : q = PairsOf(cols, row)
  OBVIOUS
<1>3. q = [j \in 1 .. 2 * Len(cols) |-> q[j]]
  BY <1>2 DEF PairsOf
<1>4. IsSeq(q) /\ Len(q) = 2 * Len(cols)
  BY <1>1, <1>3, SeqFunction
<1>5. /\ IsSeq(p) /\ Len(p) = Len(q) + 1 /\ p[1] = Len(cols)
      /\ \A i \in 1 .. Len(q) : p[i + 1] = q[i]
  <2>1. PICK n : n = Len(cols)
    OBVIOUS
  <2>2. p = <<n>> \o q
    BY <1>2, <2>1
  <2>3. IsPushed(p, q, n)
    BY <1>4, <2>2, SeqPushed
  <2> QED BY <2>1, <2>3 DEF IsPushed
<1>6. p # <<>>
  BY <1>1, <1>4, <1>5, SeqIs
<1>7. ASSUME NEW i \in 1 .. Len(cols)
      PROVE  p[2 * i] = cols[i] /\ p[2 * i + 1] = cell(row[cols[i] + 1])
  <2>1. /\ 2 * i - 1 \in 1 .. Len(q) /\ (2 * i - 1) + 1 = 2 * i /\ (2 * i - 1) % 2 = 1
        /\ (2 * i) \div 2 = i
    BY <1>1, <1>4
  <2>2. /\ 2 * i \in 1 .. Len(q) /\ (2 * i) % 2 = 0 /\ (2 * i + 1) \div 2 = i
    BY <1>1, <1>4
  <2>3. p[2 * i] = q[2 * i - 1] /\ p[2 * i + 1] = q[2 * i]
    BY <1>5, <2>1, <2>2
  <2>4. q[2 * i - 1] = cols[i]
    BY <1>2, <1>4, <2>1 DEF PairsOf
  <2>5. q[2 * i] = cell(row[cols[i] + 1])
    BY <1>2, <1>4, <2>2 DEF PairsOf
  <2> QED BY <2>3, <2>4, <2>5
<1> QED BY <1>5, <1>6, <1>7 DEF ArePairs

\* The columns of a row that have an entry.
AreColumns(cols, row) ==
  /\ IsSeq(cols) /\ Len(cols) \in Nat
  /\ \A j \in 1 .. Len(cols) : cols[j] \in Columns /\ row[cols[j] + 1] # -1
  /\ \A t \in Columns : row[t + 1] # -1 => \E j \in 1 .. Len(cols) : cols[j] = t
LEMMA ColumnsAre ==
  ASSUME file \in Files, NEW row, IsRow(row), NEW cols,
         cols = Those([i \in DOMAIN row |-> i - 1], {c \in Columns : row[c + 1] # -1})
  PROVE  AreColumns(cols, row)
<1>1. Len(terms) \in Nat
  BY TermsCount, NumbersAssumption
<1>2. PICK s : s = [i \in DOMAIN row |-> i - 1]
  OBVIOUS
<1>3. DOMAIN row = 1 .. Len(terms) + 1
  BY DEF IsRow
<1>4. s = [i \in 1 .. Len(terms) + 1 |-> s[i]] /\ \A i \in 1 .. Len(terms) + 1 : s[i] = i - 1
  BY <1>2, <1>3
<1>5. IsSeq(s) /\ Len(s) = Len(terms) + 1
  BY <1>1, <1>4, SeqFunction
<1>6. PICK S : S = {c \in Columns : row[c + 1] # -1}
  OBVIOUS
<1>7. /\ IsSeq(cols) /\ \A j \in 1 .. Len(cols) : cols[j] \in S
      /\ \A i \in 1 .. Len(s) : s[i] \in S => \E j \in 1 .. Len(cols) : cols[j] = s[i]
  <2>1. cols = Those(s, S)
    BY <1>2, <1>6
  <2>2. AreThose(cols, s, S)
    BY <1>5, <2>1, ThoseAre
  <2> QED BY <2>2 DEF AreThose
<1>8. ASSUME NEW t \in Columns, row[t + 1] # -1
      PROVE  \E j \in 1 .. Len(cols) : cols[j] = t
  <2>1. t + 1 \in 1 .. Len(s) /\ s[t + 1] = t
    BY <1>1, <1>4, <1>5 DEF Columns
  <2>2. t \in S
    BY <1>6, <1>8
  <2> QED BY <1>7, <2>1, <2>2
<1>9. Len(cols) \in Nat
  BY <1>7, SeqIs
<1> QED BY <1>6, <1>7, <1>8, <1>9 DEF AreColumns

\* sys_pairs() loses nothing but what does not fit in a YY_TTYPE.
LEMMA PairsRead ==
  ASSUME file \in Files, NEW row, IsRow(row), NEW p, p = sys_pairs(row), NEW t \in Columns
  PROVE  Read(p, t) = cell(row[t + 1])
<1>1. PICK cols : cols = Those([i \in DOMAIN row |-> i - 1], {c \in Columns : row[c + 1] # -1})
  OBVIOUS
<1>2. /\ IsSeq(cols) /\ Len(cols) \in Nat
      /\ \A j \in 1 .. Len(cols) : cols[j] \in Columns /\ row[cols[j] + 1] # -1
      /\ row[t + 1] # -1 => \E j \in 1 .. Len(cols) : cols[j] = t
  <2>1. AreColumns(cols, row)
    BY <1>1, ColumnsAre
  <2> QED BY <2>1 DEF AreColumns
<1>3. p = IF cols = <<>> THEN <<>>
          ELSE IF Len(cols) > threshold THEN <<0>> \o [i \in DOMAIN row |-> cell(row[i])]
          ELSE <<Len(cols)>> \o PairsOf(cols, row)
  BY <1>1 DEF sys_pairs, PairsOf
<1>4. Len(terms) \in Nat /\ t \in Nat
  BY TermsCount, NumbersAssumption DEF Columns
<1>5. CASE cols = <<>>
  <2>1. p = <<>> /\ Len(cols) = 0
    BY <1>3, <1>5
  <2>2. row[t + 1] = -1
    BY <1>2, <2>1
  <2> QED BY <2>1, <2>2, NoEntry DEF Read
<1>6. CASE cols # <<>> /\ Len(cols) > threshold
  <2>1. PICK q : q = [i \in DOMAIN row |-> cell(row[i])]
    OBVIOUS
  <2>2. DOMAIN row = 1 .. Len(terms) + 1
    BY DEF IsRow
  <2>3. q = [i \in 1 .. Len(terms) + 1 |-> q[i]] /\ \A i \in 1 .. Len(terms) + 1 : q[i] = cell(row[i])
    BY <2>1, <2>2
  <2>4. IsSeq(q) /\ Len(q) = Len(terms) + 1
    BY <1>4, <2>3, SeqFunction
  <2>5. p = <<0>> \o q
    BY <1>3, <1>6, <2>1
  <2>6. /\ IsSeq(p) /\ Len(p) = Len(terms) + 2 /\ p[1] = 0
        /\ \A i \in 1 .. Len(q) : p[i + 1] = q[i]
    BY <1>4, <2>4, <2>5, SeqPush
  <2>7. p # <<>>
    BY <1>4, <2>6, SeqIs
  <2>8. t + 1 \in 1 .. Len(q) /\ (t + 1) + 1 = t + 2 /\ t + 1 \in 1 .. Len(terms) + 1
    BY <1>4, <2>4 DEF Columns
  <2>9. p[t + 2] = cell(row[t + 1])
    BY <2>3, <2>6, <2>8
  <2> QED BY <2>6, <2>7, <2>9 DEF Read
<1>7. CASE cols # <<>> /\ ~(Len(cols) > threshold)
  <2>1. Len(cols) > 0
    BY <1>2, <1>7, SeqIs
  <2>2. p = <<Len(cols)>> \o PairsOf(cols, row)
    BY <1>3, <1>7
  <2>3. /\ p # <<>> /\ p[1] = Len(cols)
        /\ \A i \in 1 .. Len(cols) : p[2 * i] = cols[i] /\ p[2 * i + 1] = cell(row[cols[i] + 1])
    <3>1. ArePairs(p, cols, row)
      BY <1>2, <2>1, <2>2, PairsAre
    <3> QED BY <3>1 DEF ArePairs
  <2>4. PICK hits : hits = {i \in 1 .. p[1] : p[2 * i] = t}
    OBVIOUS
  <2>5. \A i \in hits : i \in 1 .. Len(cols) /\ cols[i] = t
    BY <2>3, <2>4
  <2>6. \A i \in 1 .. Len(cols) : cols[i] = t => i \in hits
    BY <2>3, <2>4
  <2>7. Read(p, t) = IF hits = {} THEN YYF ELSE p[2 * Min(hits) + 1]
    BY <2>1, <2>3, <2>4 DEF Read
  <2>8. CASE hits = {}
    <3>1. row[t + 1] = -1
      BY <1>2, <2>6, <2>8
    <3> QED BY <2>7, <2>8, <3>1, NoEntry
  <2>9. CASE hits # {}
    <3>1. hits \subseteq Nat
      BY <2>5
    <3>2. Min(hits) \in hits
      BY <2>9, <3>1, MinIs
    <3>3. PICK m \in 1 .. Len(cols) : m = Min(hits) /\ cols[m] = t
      BY <2>5, <3>2
    <3>4. p[2 * m + 1] = cell(row[t + 1])
      BY <2>3, <3>3
    <3> QED BY <2>7, <2>9, <3>3, <3>4
  <2> QED BY <2>8, <2>9
<1> QED BY <1>5, <1>6, <1>7

\* The cell of a row is the last production of those the token selects.
LastOf(A, t, n) == n \in Claims(A, t) /\ \A m \in Claims(A, t) : m <= n

LEMMA MaxIs ==
  ASSUME NEW n \in Nat, NEW S, S \subseteq 1 .. n, S # {}
  PROVE  Max(S) \in S /\ \A x \in S : x <= Max(S)
<1> DEFINE T == {k \in Nat : \E x \in S : k = n - x}
<1>1. T # {}
  <2>1. PICK x \in S : TRUE
    OBVIOUS
  <2>2. n - x \in Nat
    BY <2>1
  <2> QED BY <2>2
<1>2. PICK k \in T : \A j \in T : k <= j
  <2>1. T \subseteq Nat
    OBVIOUS
  <2> HIDE DEF T
  <2> QED BY <1>1, <2>1, LeastNat
<1>3. PICK m \in S : k = n - m
  BY <1>2
<1>4. \A x \in S : m >= x
  <2> TAKE x \in S
  <2>1. n - x \in T
    OBVIOUS
  <2>2. k <= n - x
    BY <1>2, <2>1
  <2> QED BY <1>3, <2>2
<1>5. Max(S) \in S /\ \A x \in S : Max(S) >= x
  BY <1>4, Zenon DEF Max
<1> QED BY <1>5

LEMMA RowIs ==
  ASSUME file \in Files, IsSeq(prods), NEW A
  PROVE  /\ IsRow(fill_row(A))
         /\ \A t \in Columns :
              \/ Claims(A, t) = {} /\ fill_row(A)[t + 1] = -1
              \/ \E n \in 1 .. Len(prods) : LastOf(A, t, n) /\ fill_row(A)[t + 1] = n - 1
<1>1. Len(terms) \in Nat /\ Len(prods) \in Nat
  BY TermsCount, NumbersAssumption, SeqIs
<1>2. PICK row : row = fill_row(A)
  OBVIOUS
<1>3. row = [c \in 1 .. Len(terms) + 1 |-> row[c]]
  BY <1>2 DEF fill_row
<1>4. ASSUME NEW t \in Columns
      PROVE  \/ Claims(A, t) = {} /\ row[t + 1] = -1
             \/ \E n \in 1 .. Len(prods) : LastOf(A, t, n) /\ row[t + 1] = n - 1
  <2>1. t \in Nat /\ t + 1 \in 1 .. Len(terms) + 1 /\ (t + 1) - 1 = t
    BY <1>1 DEF Columns
  <2>2. PICK S : S = Claims(A, t)
    OBVIOUS
  <2>3. row[t + 1] = IF S = {} THEN -1 ELSE Max(S) - 1
    BY <1>2, <2>1, <2>2 DEF fill_row
  <2>4. S \subseteq 1 .. Len(prods)
    BY <2>2 DEF Claims, Productions
  <2>5. ASSUME S # {} PROVE Max(S) \in S /\ \A x \in S : x <= Max(S)
    BY <1>1, <2>4, <2>5, MaxIs
  <2> QED BY <2>2, <2>3, <2>4, <2>5 DEF LastOf
<1>5. \A c \in Columns : row[c + 1] \in Nat \cup {-1}
  <2> TAKE c \in Columns
  <2>1. row[c + 1] = -1 \/ \E n \in 1 .. Len(prods) : row[c + 1] = n - 1
    BY <1>4
  <2> QED BY <1>1, <2>1
<1> QED BY <1>2, <1>3, <1>4, <1>5 DEF IsRow

\* The tables are printed, and there is a row in them.
Printed ==
  /\ Len(nonterms) > 0
  /\ Yyd = [i \in DOMAIN nonterms |-> sys_pairs(fill_row(Val(i)))]

\* What yy_next() answers.
Answers ==
  \A A \in Nonterms, t \in Columns :
    \/ Claims(A, t) = {} /\ yy_next(A, t) = YYF
    \/ \E n \in 1 .. Len(prods) : LastOf(A, t, n) /\ yy_next(A, t) = (n - 1) % TTYPE

LEMMA PrintedAnswers ==
  ASSUME GrammarBuilt, Printed
  PROVE  Answers
<1>1. /\ file \in Files /\ IsSeq(prods) /\ IsSeq(nonterms)
      /\ Len(nonterms) \in Nat /\ DOMAIN nonterms = 1 .. Len(nonterms)
      /\ Nonterms = NT(Len(nonterms))
  BY SeqIs, NontermsAre DEF GrammarBuilt, WellBuilt, Built
<1> SUFFICES ASSUME NEW A \in Nonterms, NEW t \in Columns
             PROVE  \/ Claims(A, t) = {} /\ yy_next(A, t) = YYF
                    \/ \E n \in 1 .. Len(prods) : LastOf(A, t, n) /\ yy_next(A, t) = (n - 1) % TTYPE
  BY DEF Answers
<1>2. PICK i : i = A - MINNONTERM + 1
  OBVIOUS
<1>3. i \in DOMAIN nonterms /\ Val(i) = A
  BY <1>1, <1>2, NumbersAssumption DEF NT, Val
<1>4. PICK row : row = fill_row(A)
  OBVIOUS
<1>5. PICK p : p = sys_pairs(row)
  OBVIOUS
<1>6. Yyd[i] = p
  BY <1>3, <1>4, <1>5 DEF Printed
<1>7. yy_next(A, t) = Read(p, t)
  BY <1>2, <1>6 DEF yy_next, Read
<1>8. Read(p, t) = cell(row[t + 1])
  BY <1>1, <1>4, <1>5, RowIs, PairsRead
<1>9. \/ Claims(A, t) = {} /\ row[t + 1] = -1
      \/ \E n \in 1 .. Len(prods) : LastOf(A, t, n) /\ row[t + 1] = n - 1
  BY <1>1, <1>4, RowIs
<1> QED BY <1>7, <1>8, <1>9, NoEntry DEF cell

-----------------------------------------------------------------------------
(* The FOLLOW sets, as a function F of the nonterminals.                   *)

FollowSets == [Nonterms -> SUBSET (0 .. EPSILON)]

\* What init() puts into the sets is in them.
Started(F) ==
  \A A \in Nonterms : /\ A = goal => _EOI_ \in F[A]
                      /\ \A u \in Uses(A) : Begins(After(u[1], u[2])) \subseteq F[A]

\* What follow_closure() makes of A adds nothing.
FollowAt(F, A)  == \A B \in Trailing(A) : F[A] \subseteq F[B]
FollowClosed(F) == Started(F) /\ \A A \in Nonterms : FollowAt(F, A)
IsLeast(G) ==
  G \in FollowSets /\ FollowClosed(G) /\ \A F \in FollowSets : FollowClosed(F) => NoMore(G, F)

\* The sets of llselect(): the least that are closed, without EPSILON; and the tokens
\* that select a production follow from them.
SetsLeast ==
  /\ \E G \in FollowSets : IsLeast(G) /\ follow = [A \in Nonterms |-> G[A] \ {EPSILON}]
  /\ select = [n \in DOMAIN prods |-> Select(n, follow)]

\* While they grow.
InOrder ==
  /\ IsSeq(order) /\ \A A \in Nonterms : \E k \in DOMAIN order : order[k] = A
  /\ \A k \in 1 .. Len(order) : order[k] \in Nonterms
  /\ turn \in Nat /\ turn > 0
FollowGrows ==
  /\ InOrder /\ follow \in FollowSets /\ Started(follow)
  /\ ~did => \A k \in 1 .. Len(order) : k < turn => FollowAt(follow, order[k])
  /\ \A F \in FollowSets : FollowClosed(F) => NoMore(follow, F)

\* While the grammar and its FIRST sets are the same, so are the conditions.
LEMMA SameBegins ==
  ASSUME UNCHANGED <<file, first, prods>>
  PROVE  \A t : Begins(t)' = Begins(t) /\ (Nullable(t)' <=> Nullable(t))
<1>1. \A x : FirstOf(x)' = FirstOf(x) /\ (NULLABLE(x)' <=> NULLABLE(x))
  BY DEF FirstOf, NULLABLE, ISTERM, ISNONTERM, EPSILON, terms
<1>2. \A t : NonActs(t)' = NonActs(t)
  BY DEF NonActs, ISACT
<1>3. \A t : Leading(t)' = Leading(t)
  BY <1>1, <1>2 DEF Leading
<1>4. \A t : Begins(t)' = Begins(t)
  BY <1>1, <1>3 DEF Begins
<1>5. \A t : Nullable(t)' <=> Nullable(t)
  BY <1>1, <1>2 DEF Nullable
<1> QED BY <1>4, <1>5

LEMMA SameFollow ==
  ASSUME UNCHANGED <<file, first, prods, nonterms, goal>>
  PROVE  /\ FollowSets' = FollowSets /\ Nonterms' = Nonterms /\ EPSILON' = EPSILON
         /\ \A A : Trailing(A)' = Trailing(A)
         /\ \A F : Started(F)' <=> Started(F)
         /\ \A F, A : FollowAt(F, A)' <=> FollowAt(F, A)
         /\ \A F : FollowClosed(F)' <=> FollowClosed(F)
         /\ \A F, G : NoMore(F, G)' <=> NoMore(F, G)
         /\ \A G : IsLeast(G)' <=> IsLeast(G)
<1>1. Nonterms' = Nonterms /\ EPSILON' = EPSILON
  BY DEF Nonterms, EPSILON, terms
<1>2. FollowSets' = FollowSets
  BY <1>1 DEF FollowSets
<1>3. \A t : Begins(t)' = Begins(t) /\ (Nullable(t)' <=> Nullable(t))
  BY SameBegins
<1>4. \A A : Uses(A)' = Uses(A)
  BY DEF Uses
<1>5. \A n, i : After(n, i)' = After(n, i)
  BY DEF After
<1>6. \A A : Productions(A)' = Productions(A)
  BY DEF Productions
<1>7. \A A : Trailing(A)' = Trailing(A)
  BY <1>1, <1>3, <1>4, <1>5, <1>6 DEF Trailing
<1>8. \A F : Started(F)' <=> Started(F)
  BY <1>1, <1>3, <1>4, <1>5 DEF Started
<1>9. \A F, A : FollowAt(F, A)' <=> FollowAt(F, A)
  BY <1>7 DEF FollowAt
<1>10. \A F : FollowClosed(F)' <=> FollowClosed(F)
  BY <1>1, <1>8, <1>9 DEF FollowClosed
<1>11. \A F, G : NoMore(F, G)' <=> NoMore(F, G)
  BY <1>1 DEF NoMore
<1>12. \A G : IsLeast(G)' <=> IsLeast(G)
  BY <1>2, <1>10, <1>11 DEF IsLeast
<1> QED BY <1>1, <1>2, <1>7, <1>8, <1>9, <1>10, <1>11, <1>12

\* What can come after a use of a nonterminal begins with tokens, and the empty string.
LEMMA AfterBounded ==
  ASSUME GrammarBuilt, first \in FirstSets, NEW A, NEW u \in Uses(A)
  PROVE  Begins(After(u[1], u[2])) \subseteq 1 .. EPSILON
<1>1. file \in Files /\ WellBuilt(Built) /\ IsSeq(prods)
  BY DEF GrammarBuilt, WellBuilt, Built
<1>2. PICK n : n = u[1]
  OBVIOUS
<1>3. PICK m : m = u[2]
  OBVIOUS
<1>4. n \in 1 .. Len(prods) /\ m \in DOMAIN prods[n].rhs
  <2>1. n \in DOMAIN prods /\ m \in DOMAIN prods[n].rhs
    BY <1>2, <1>3 DEF Uses
  <2> QED BY <1>1, <2>1, SeqIs
<1>5. PICK rhs : rhs = prods[n].rhs
  OBVIOUS
<1>6. IsSeq(rhs) /\ \A i \in 1 .. Len(rhs) : rhs[i] \in Vocabulary(Len(nonterms))
  BY <1>1, <1>4, <1>5, RuleIs
<1>7. m \in 1 .. Len(rhs)
  BY <1>4, <1>5, <1>6, SeqIs
<1>8. PICK t : t = SubSeq(rhs, m + 1, Len(rhs))
  OBVIOUS
<1>9. IsSeq(t) /\ \A i \in 1 .. Len(t) : i + m \in 1 .. Len(rhs) /\ t[i] = rhs[i + m]
  BY <1>6, <1>7, <1>8, SeqRest
<1>10. \A i \in 1 .. Len(t) : t[i] \in Vocabulary(Len(nonterms))
  BY <1>6, <1>9
<1>11. Begins(t) \subseteq 1 .. EPSILON
  BY <1>1, <1>9, <1>10, BeginsBounded
<1> QED BY <1>2, <1>3, <1>5, <1>8, <1>11 DEF After

\* init() puts in what belongs there, and no more.
LEMMA FollowStarts ==
  ASSUME GrammarBuilt, FirstGrows, init
  PROVE  FollowGrows'
<1>1. /\ UNCHANGED <<file, built, first, order>> /\ turn' = 1 /\ did' = FALSE
      /\ follow' = [A \in Nonterms |->
                      (IF A = goal THEN {_EOI_} ELSE {})
                        \cup UNION {Begins(After(u[1], u[2])) : u \in Uses(A)}]
  BY DEF init
<1>2. PICK G : G = follow'
  OBVIOUS
<1>3. first \in FirstSets /\ Len(terms) \in Nat
  BY TermsCount, NumbersAssumption DEF FirstGrows, GrammarBuilt
<1>4. \A A \in Nonterms : \A u \in Uses(A) : Begins(After(u[1], u[2])) \subseteq 1 .. EPSILON
  BY <1>3, AfterBounded
<1>5. 1 .. EPSILON \subseteq 0 .. EPSILON /\ _EOI_ \in 0 .. EPSILON
  BY <1>3 DEF EPSILON, _EOI_
<1>6. \A A \in Nonterms : UNION {Begins(After(u[1], u[2])) : u \in Uses(A)} \subseteq 0 .. EPSILON
  BY <1>4, <1>5
<1>7. G \in FollowSets
  BY <1>1, <1>2, <1>5, <1>6 DEF FollowSets
<1>8. Started(G)
  BY <1>1, <1>2 DEF Started
<1>9. ASSUME NEW F \in FollowSets, FollowClosed(F) PROVE NoMore(G, F)
  <2> SUFFICES ASSUME NEW A \in Nonterms PROVE G[A] \subseteq F[A]
    BY DEF NoMore
  <2>1. (A = goal => _EOI_ \in F[A]) /\ \A u \in Uses(A) : Begins(After(u[1], u[2])) \subseteq F[A]
    BY <1>9 DEF FollowClosed, Started
  <2>2. UNION {Begins(After(u[1], u[2])) : u \in Uses(A)} \subseteq F[A]
    BY <2>1
  <2> QED BY <1>1, <1>2, <2>1, <2>2
<1>10. UNCHANGED <<file, first, prods, nonterms, goal>>
  BY <1>1 DEF built
<1>11. /\ FollowSets' = FollowSets /\ Nonterms' = Nonterms /\ (Started(G)' <=> Started(G))
       /\ \A F : (FollowClosed(F)' <=> FollowClosed(F)) /\ (NoMore(G, F)' <=> NoMore(G, F))
  BY <1>10, SameFollow
<1>12. InOrder'
  BY <1>1, <1>11 DEF InOrder, FirstGrows, Ready
<1>13. ~ \E k \in 1 .. Len(order) : k < 1
  BY SeqIs DEF FirstGrows, Ready
<1>14. (~did => \A k \in 1 .. Len(order) : k < turn => FollowAt(follow, order[k]))'
  BY <1>1, <1>13
<1>15. (\A F \in FollowSets : FollowClosed(F) => NoMore(follow, F))'
  BY <1>2, <1>9, <1>11
<1>16. (follow \in FollowSets /\ Started(follow))'
  BY <1>2, <1>7, <1>8, <1>11
<1> QED BY <1>12, <1>14, <1>15, <1>16 DEF FollowGrows

\* follow_closure() goes towards the least sets.
LEMMA FollowStep ==
  ASSUME FollowGrows, follow_closure
  PROVE  FollowGrows'
<1>1. /\ UNCHANGED <<file, built, first, order>> /\ turn <= Len(order) /\ turn' = turn + 1
  BY DEF follow_closure
<1>2. Len(order) \in Nat /\ turn \in Nat /\ turn > 0
  BY SeqIs DEF FollowGrows, InOrder
<1>3. PICK A \in Nonterms : A = order[turn]
  BY <1>1, <1>2 DEF FollowGrows, InOrder
<1>4. /\ follow' = [B \in Nonterms |-> follow[B] \cup IF B \in Trailing(A) THEN follow[A] ELSE {}]
      /\ did' = (did \/ \E B \in Trailing(A) : ~(follow[A] \subseteq follow[B]))
  BY <1>3 DEF follow_closure
<1>5. PICK G : G = follow'
  OBVIOUS
<1>6. \A B \in Nonterms : G[B] = follow[B] \/ (B \in Trailing(A) /\ G[B] = follow[B] \cup follow[A])
  BY <1>4, <1>5
<1>7. follow \in FollowSets /\ Started(follow)
  BY DEF FollowGrows
<1>8. G \in FollowSets
  BY <1>4, <1>5, <1>7 DEF FollowSets
<1>9. Started(G)
  BY <1>6, <1>7 DEF Started
<1>10. ASSUME NEW F \in FollowSets, FollowClosed(F) PROVE NoMore(G, F)
  <2>1. NoMore(follow, F)
    BY <1>10 DEF FollowGrows
  <2> SUFFICES ASSUME NEW B \in Nonterms PROVE G[B] \subseteq F[B]
    BY DEF NoMore
  <2>2. follow[B] \subseteq F[B] /\ follow[A] \subseteq F[A]
    BY <2>1 DEF NoMore
  <2>3. B \in Trailing(A) => F[A] \subseteq F[B]
    BY <1>10 DEF FollowClosed, FollowAt
  <2> QED BY <1>6, <2>2, <2>3
<1>11. ASSUME ~did', NEW k \in 1 .. Len(order), k < turn + 1
       PROVE  FollowAt(G, order[k])
  <2>1. ~did /\ \A B \in Trailing(A) : follow[A] \subseteq follow[B]
    BY <1>4, <1>11
  <2>2. \A B \in Nonterms : G[B] = follow[B]
    BY <1>6, <2>1
  <2>3. G = follow
    BY <1>7, <1>8, <2>2 DEF FollowSets
  <2>4. CASE k < turn
    <3>1. FollowAt(follow, order[k])
      BY <2>1, <2>4 DEF FollowGrows
    <3> QED BY <2>3, <3>1
  <2>5. CASE k = turn
    <3>1. FollowAt(follow, A)
      BY <2>1 DEF FollowAt
    <3> QED BY <1>3, <2>3, <2>5, <3>1
  <2> QED BY <1>2, <1>11, <2>4, <2>5
<1>12. UNCHANGED <<file, first, prods, nonterms, goal>>
  BY <1>1 DEF built
<1>13. /\ FollowSets' = FollowSets /\ Nonterms' = Nonterms /\ (Started(G)' <=> Started(G))
       /\ \A F : (FollowClosed(F)' <=> FollowClosed(F)) /\ (NoMore(G, F)' <=> NoMore(G, F))
       /\ \A B : (FollowAt(G, B)' <=> FollowAt(G, B))
  BY <1>12, SameFollow
<1>14. InOrder'
  BY <1>1, <1>2, <1>13 DEF InOrder, FollowGrows
<1>15. (~did => \A k \in 1 .. Len(order) : k < turn => FollowAt(follow, order[k]))'
  <2> SUFFICES ASSUME ~did', NEW k \in 1 .. Len(order'), k < turn'
               PROVE  FollowAt(follow, order[k])'
    OBVIOUS
  <2>1. PICK B : B = order[k]
    OBVIOUS
  <2>2. FollowAt(G, B)
    BY <1>1, <1>11, <2>1
  <2>3. FollowAt(G, B)' /\ order' = order
    BY <1>1, <1>13, <2>2
  <2> QED BY <1>5, <2>1, <2>3
<1>16. (\A F \in FollowSets : FollowClosed(F) => NoMore(follow, F))'
  BY <1>5, <1>10, <1>13
<1>17. (follow \in FollowSets /\ Started(follow))'
  BY <1>5, <1>8, <1>9, <1>13
<1> QED BY <1>14, <1>15, <1>16, <1>17 DEF FollowGrows

\* Another pass.
LEMMA FollowAgain ==
  ASSUME FollowGrows, FollowPass
  PROVE  FollowGrows'
<1>1. UNCHANGED <<file, built, first, order, follow>> /\ turn' = 1
  BY DEF FollowPass, sets
<1>2. UNCHANGED <<file, first, prods, nonterms, goal>>
  BY <1>1 DEF built
<1>3. PICK G : G = follow
  OBVIOUS
<1>4. /\ FollowSets' = FollowSets /\ Nonterms' = Nonterms /\ (Started(G)' <=> Started(G))
      /\ \A F : (FollowClosed(F)' <=> FollowClosed(F)) /\ (NoMore(G, F)' <=> NoMore(G, F))
  BY <1>2, SameFollow
<1>5. InOrder'
  BY <1>1, <1>4 DEF InOrder, FollowGrows
<1>6. ~ \E k \in 1 .. Len(order) : k < 1
  BY SeqIs DEF FollowGrows, InOrder
<1>7. (~did => \A k \in 1 .. Len(order) : k < turn => FollowAt(follow, order[k]))'
  BY <1>1, <1>6
<1>8. (\A F \in FollowSets : FollowClosed(F) => NoMore(follow, F))'
  BY <1>1, <1>3, <1>4 DEF FollowGrows
<1>9. (follow \in FollowSets /\ Started(follow))'
  BY <1>1, <1>3, <1>4 DEF FollowGrows
<1> QED BY <1>5, <1>7, <1>8, <1>9 DEF FollowGrows

\* The tokens that select a production depend on the grammar and its sets alone.
LEMMA SameSelect ==
  ASSUME UNCHANGED <<file, first, prods>>
  PROVE  \A n, F : Select(n, F)' = Select(n, F)
<1>1. \A t : Begins(t)' = Begins(t) /\ (Nullable(t)' <=> Nullable(t))
  BY SameBegins
<1>2. EPSILON' = EPSILON
  BY DEF EPSILON, terms
<1>3. \A n : prods'[n] = prods[n]
  OBVIOUS
<1> QED BY <1>1, <1>2, <1>3 DEF Select

\* A pass that changed nothing: the sets are closed, the least that are.
LEMMA Selected ==
  ASSUME FollowGrows, llselect
  PROVE  SetsLeast' /\ follow' \in FollowSets'
<1>1. PICK G : G = follow
  OBVIOUS
<1>2. /\ UNCHANGED <<file, built, first>> /\ turn > Len(order) /\ ~did
      /\ follow' = [A \in Nonterms |-> G[A] \ {EPSILON}]
      /\ select' = [n \in DOMAIN prods |-> Select(n, follow')]
  BY <1>1 DEF llselect
<1>3. UNCHANGED <<file, first, prods, nonterms, goal>>
  BY <1>2 DEF built
<1>4. G \in FollowSets
  BY <1>1 DEF FollowGrows
<1>5. ASSUME NEW A \in Nonterms PROVE FollowAt(G, A)
  <2>1. PICK k \in DOMAIN order : order[k] = A
    BY DEF FollowGrows, InOrder
  <2>2. k \in 1 .. Len(order) /\ k < turn
    BY <1>2, <2>1, SeqIs DEF FollowGrows, InOrder
  <2> QED BY <1>1, <1>2, <2>1, <2>2 DEF FollowGrows
<1>6. IsLeast(G)
  BY <1>1, <1>4, <1>5 DEF IsLeast, FollowClosed, FollowGrows
<1>7. /\ FollowSets' = FollowSets /\ Nonterms' = Nonterms /\ EPSILON' = EPSILON
      /\ IsLeast(G)'
  BY <1>3, <1>6, SameFollow
<1>8. (\E H \in FollowSets : IsLeast(H) /\ follow = [A \in Nonterms |-> H[A] \ {EPSILON}])'
  BY <1>2, <1>4, <1>7
<1>9. PICK f : f = follow'
  OBVIOUS
<1>10. \A n : Select(n, f)' = Select(n, f)
  BY <1>3, SameSelect
<1>11. (select = [n \in DOMAIN prods |-> Select(n, follow)])'
  BY <1>2, <1>3, <1>9, <1>10
<1>12. follow' \in FollowSets'
  BY <1>2, <1>4, <1>7 DEF FollowSets
<1> QED BY <1>8, <1>11, <1>12 DEF SetsLeast

\* From then on they stay.
LEMMA SetsStay ==
  ASSUME UNCHANGED <<file, first, prods, nonterms, goal, order, turn, did, follow, select>>
  PROVE  (SetsLeast => SetsLeast') /\ (FollowGrows => FollowGrows')
<1>1. PICK G : G = follow
  OBVIOUS
<1>2. /\ FollowSets' = FollowSets /\ Nonterms' = Nonterms /\ EPSILON' = EPSILON
      /\ \A F : /\ Started(F)' <=> Started(F)
                /\ FollowClosed(F)' <=> FollowClosed(F)
                /\ NoMore(G, F)' <=> NoMore(G, F)
                /\ IsLeast(F)' <=> IsLeast(F)
  BY SameFollow
<1>3. \A B : FollowAt(G, B)' <=> FollowAt(G, B)
  BY SameFollow
<1>4. ASSUME SetsLeast PROVE SetsLeast'
  <2>1. (\E H \in FollowSets : IsLeast(H) /\ follow = [A \in Nonterms |-> H[A] \ {EPSILON}])'
    BY <1>2, <1>4 DEF SetsLeast
  <2>2. \A n : Select(n, G)' = Select(n, G)
    BY SameSelect
  <2>3. (select = [n \in DOMAIN prods |-> Select(n, follow)])'
    BY <1>1, <1>4, <2>2 DEF SetsLeast
  <2> QED BY <2>1, <2>3 DEF SetsLeast
<1>5. ASSUME FollowGrows PROVE FollowGrows'
  <2>1. InOrder'
    BY <1>2, <1>5 DEF InOrder, FollowGrows
  <2>2. (~did => \A k \in 1 .. Len(order) : k < turn => FollowAt(follow, order[k]))'
    <3> SUFFICES ASSUME ~did, NEW k \in 1 .. Len(order), k < turn
                 PROVE  FollowAt(follow, order[k])'
      OBVIOUS
    <3>1. PICK B : B = order[k]
      OBVIOUS
    <3>2. FollowAt(G, B)
      BY <1>1, <1>5, <3>1 DEF FollowGrows
    <3>3. FollowAt(G, B)'
      BY <1>3, <3>2
    <3> QED BY <1>1, <3>1, <3>3
  <2>3. (\A F \in FollowSets : FollowClosed(F) => NoMore(follow, F))'
    BY <1>1, <1>2, <1>5 DEF FollowGrows
  <2>4. (follow \in FollowSets /\ Started(follow))'
    BY <1>1, <1>2, <1>5 DEF FollowGrows
  <2> QED BY <2>1, <2>2, <2>3, <2>4 DEF FollowGrows
<1> QED BY <1>4, <1>5

-----------------------------------------------------------------------------
(* The stages, from the grammar file to the last token. *)

Before  == {"read", "first", "fatal", "undefined", "errors"}
Running == {"made", "parse", "popping", "synch"}

\* The parser, whatever its tables.
IsSymbol(x) == ISTERM(x) \/ x \in Nonterms \cup (MINACT .. MINACT + acts - 1)
ParserTyped ==
  /\ IsSeq(stack) /\ Len(stack) <= YYMAXDEPTH
  /\ \A i \in 1 .. Len(stack) : IsSymbol(stack[i])
  /\ IsSeq(rest) /\ \A i \in 1 .. Len(rest) : rest[i] \in 1 .. Len(terms)
  /\ lookahead \in 0 .. Len(terms)
  /\ at = "synch" => stack # <<>> /\ yy_in_synch(Tos)

SetsTyped ==
  /\ first = <<>> \/ first \in FirstSets
  /\ follow = <<>> \/ follow \in FollowSets

FirstExact == at \notin Before => FirstLeast
AnalysisExact == at \notin Before \cup {"follow"} => SetsLeast
TablesExact == at \in Running => Answers

ByStage ==
  /\ GrammarBuilt /\ SetsTyped /\ ParserTyped
  /\ at = "read" => Reading /\ first = <<>> /\ follow = <<>> /\ stack = <<>>
  /\ at = "first" => FirstGrows /\ follow = <<>>
  /\ at = "follow" => FollowGrows
  /\ at \notin Before => first \in FirstSets
  /\ FirstExact /\ AnalysisExact
  /\ at \in Running => Printed

\* The grammar and what was made of it stay.
LEMMA GrammarStays ==
  ASSUME UNCHANGED <<file, built>>, GrammarBuilt
  PROVE  GrammarBuilt'
<1>1. PICK w : w = Built
  OBVIOUS
<1>2. Built' = w
  BY <1>1 DEF Built, built
<1>3. WellBuilt(w)'
  BY <1>1, SameWellBuilt DEF GrammarBuilt
<1> QED BY <1>2, <1>3 DEF GrammarBuilt

LEMMA LeastStays ==
  ASSUME UNCHANGED <<file, prods, nonterms, first>>
  PROVE  (FirstLeast => FirstLeast') /\ FirstSets' = FirstSets
<1>1. /\ FirstSets' = FirstSets /\ Nonterms' = Nonterms
      /\ \A F : FirstClosed(F)' <=> FirstClosed(F)
  BY SameFirst
<1>2. PICK G : G = first
  OBVIOUS
<1>3. \A F : NoMore(G, F)' <=> NoMore(G, F)
  BY <1>1 DEF NoMore
<1>4. ASSUME FirstLeast PROVE FirstLeast'
  <2>1. FirstClosed(G)'
    BY <1>1, <1>2, <1>4 DEF FirstLeast
  <2>2. \A F \in FirstSets' : FirstClosed(F)' => NoMore(G, F)'
    BY <1>1, <1>2, <1>3, <1>4 DEF FirstLeast
  <2> QED BY <1>2, <2>1, <2>2 DEF FirstLeast
<1> QED BY <1>1, <1>4

LEMMA TablesStay ==
  ASSUME UNCHANGED <<file, prods, nonterms, select, Yyd>>, Printed
  PROVE  Printed'
<1>1. Columns' = Columns
  BY DEF Columns, terms
<1>2. \A A, t : Claims(A, t)' = Claims(A, t)
  BY DEF Claims, Productions
<1>3. \A A : fill_row(A)' = fill_row(A)
  BY <1>2 DEF fill_row, terms
<1>4. \A row : sys_pairs(row)' = sys_pairs(row)
  BY <1>1 DEF sys_pairs
<1>5. \A i : sys_pairs(fill_row(Val(i)))' = sys_pairs(fill_row(Val(i)))
  <2> TAKE i
  <2>1. PICK A : A = Val(i)
    OBVIOUS
  <2>2. PICK row : row = fill_row(A)
    OBVIOUS
  <2>3. fill_row(A)' = row /\ sys_pairs(row)' = sys_pairs(row) /\ Val(i)' = A
    BY <1>3, <1>4, <2>1, <2>2 DEF Val
  <2> QED BY <2>1, <2>2, <2>3
<1> QED BY <1>5 DEF Printed

\* When the analysis is over it changes no more.
LEMMA AnalysisStays ==
  ASSUME ByStage, UNCHANGED <<file, built, first, closing, sets>>
  PROVE  /\ GrammarBuilt' /\ SetsTyped' /\ FirstSets' = FirstSets
         /\ FirstLeast => FirstLeast'
         /\ SetsLeast => SetsLeast'
         /\ Printed => Printed'
         /\ Nonterms' = Nonterms /\ acts' = acts
<1>1. /\ UNCHANGED <<file, prods, nonterms, goal, acts>>
      /\ UNCHANGED <<first, order, turn, did, follow, select, Yyd>>
  BY DEF built, closing, sets
<1>2. Nonterms' = Nonterms /\ FollowSets' = FollowSets
  BY <1>1, SameFollow
<1>3. GrammarBuilt'
  BY GrammarStays DEF ByStage
<1>4. FirstSets' = FirstSets
  BY <1>1, LeastStays
<1>5. SetsTyped'
  BY <1>1, <1>2, <1>4 DEF SetsTyped, ByStage
<1> QED BY <1>1, <1>2, <1>3, <1>4, <1>5, LeastStays, SetsStay, TablesStay

\* A parser that does not run does not change.
LEMMA ParserStays ==
  ASSUME ParserTyped, UNCHANGED <<file, parser>>, at' # "synch",
         stack = <<>> \/ UNCHANGED <<nonterms, acts>>
  PROVE  ParserTyped'
<1>1. stack' = stack /\ rest' = rest /\ lookahead' = lookahead
  BY DEF parser
<1>2. Len(terms)' = Len(terms)
  BY DEF terms
<1>3. \A i \in 1 .. Len(stack) : IsSymbol(stack[i])'
  <2>1. CASE stack = <<>>
    <3>1. 1 .. Len(stack) = {}
      BY <2>1, SeqOfNone
    <3> QED BY <3>1
  <2>2. CASE UNCHANGED <<nonterms, acts>>
    <3>1. \A x : IsSymbol(x)' <=> IsSymbol(x)
      BY <2>2 DEF IsSymbol, ISTERM, Nonterms, terms
    <3> TAKE i \in 1 .. Len(stack)
    <3>2. PICK x : x = stack[i]
      OBVIOUS
    <3>3. IsSymbol(x)'
      BY <3>1, <3>2 DEF ParserTyped
    <3> QED BY <1>1, <3>2, <3>3
  <2> QED BY <2>1, <2>2
<1> QED BY <1>1, <1>2, <1>3 DEF ParserTyped

\* Before the first call.
LEMMA FirstStage == LlamaInit => ByStage
<1> SUFFICES ASSUME LlamaInit PROVE ByStage
  OBVIOUS
<1>1. /\ Init /\ at = "read" /\ first = <<>> /\ follow = <<>>
      /\ stack = <<>> /\ rest = <<>> /\ lookahead = _EOI_
  BY DEF LlamaInit, Init
<1>2. Reading
  BY <1>1, InitReading
<1>3. GrammarBuilt
  BY <1>2 DEF Reading, GrammarBuilt
<1>4. Len(terms) \in Nat
  BY <1>3, TermsCount, NumbersAssumption DEF GrammarBuilt
<1>5. ParserTyped
  <2>1. IsSeq(stack) /\ IsSeq(rest) /\ 1 .. Len(stack) = {} /\ 1 .. Len(rest) = {} /\ Len(stack) = 0
    BY <1>1, SeqOfNone
  <2>2. lookahead \in 0 .. Len(terms)
    BY <1>1, <1>4 DEF _EOI_
  <2> QED BY <1>1, <2>1, <2>2, LlamaAssumption DEF ParserTyped
<1>6. SetsTyped
  BY <1>1 DEF SetsTyped
<1>7. at \in Before /\ at \notin Running
  BY <1>1 DEF Before, Running
<1> QED BY <1>1, <1>2, <1>3, <1>5, <1>6, <1>7 DEF ByStage, FirstExact, AnalysisExact

\* The grammar file is read.
LEMMA ReadStage == ByStage /\ ReadNext /\ UNCHANGED <<sets, parser>> => ByStage'
<1> SUFFICES ASSUME ByStage, ReadNext, UNCHANGED <<sets, parser>> PROVE ByStage'
  OBVIOUS
<1>1. at = "read"
  BY Zenon DEF ReadNext, Type, Lhs, Rhs, Symbol, Action, StartOpt, NestTooDeep, EndOpt, EndRep, Prec,
               EndOfFile, Made
<1>2. Reading /\ first = <<>> /\ follow = <<>> /\ stack = <<>> /\ ParserTyped
  BY <1>1 DEF ByStage
<1>3. GrammarBuilt'
  BY <1>1, <1>2, ReadBuilt
<1>4. /\ at' \in {"read", "first", "fatal", "undefined", "errors"} /\ file' = file
      /\ at' # "first" => first' = first
      /\ at' = "first" => FirstGrows'
  BY <1>1, <1>2, ReadFirst
<1>5. at' = "read" => Reading'
  BY <1>1, <1>2, ReadStep
<1>6. follow' = <<>> /\ stack' = <<>>
  BY <1>2 DEF sets, parser
<1>7. SetsTyped'
  <2>1. at' = "first" => (first \in FirstSets)'
    BY <1>4 DEF FirstGrows
  <2> QED BY <1>2, <1>4, <1>6, <2>1 DEF SetsTyped
<1>8. at' # "synch"
  BY <1>4
<1>9. ParserTyped'
  BY <1>2, <1>4, <1>8, ParserStays
<1>10. at' \in Before /\ at' \notin Running /\ at' # "follow"
  BY <1>4 DEF Before, Running
<1> QED BY <1>2, <1>3, <1>4, <1>5, <1>6, <1>7, <1>9, <1>10
        DEF ByStage, FirstExact, AnalysisExact, Before, Running

\* The FIRST sets.
LEMMA ClosureStage == ByStage /\ FirstNext /\ UNCHANGED <<sets, parser>> => ByStage'
<1> SUFFICES ASSUME ByStage, FirstNext, UNCHANGED <<sets, parser>> PROVE ByStage'
  OBVIOUS
<1>1. at = "first" /\ at' = "first" /\ UNCHANGED <<file, made, built, order>>
  BY DEF FirstNext, FirstClosure, FirstPass
<1>2. FirstGrows /\ follow = <<>> /\ ParserTyped /\ GrammarBuilt
  BY <1>1 DEF ByStage
<1>3. FirstGrows'
  BY <1>2, ClosureGrows, PassGrows DEF FirstNext
<1>4. GrammarBuilt'
  BY <1>1, <1>2, GrammarStays
<1>5. follow' = <<>> /\ (first \in FirstSets)'
  BY <1>2, <1>3 DEF sets, FirstGrows
<1>6. SetsTyped'
  BY <1>5 DEF SetsTyped
<1>7. UNCHANGED <<nonterms, acts, file>> /\ at' # "synch"
  BY <1>1 DEF built
<1>8. ParserTyped'
  BY <1>2, <1>7, ParserStays
<1>9. at' \in Before /\ at' \notin Running /\ at' # "follow" /\ at' # "read"
  BY <1>1 DEF Before, Running
<1> QED BY <1>1, <1>3, <1>4, <1>5, <1>6, <1>8, <1>9
        DEF ByStage, FirstExact, AnalysisExact, Before, Running

\* The FOLLOW sets.
LEMMA FollowStage ==
  ByStage /\ (init \/ follow_closure \/ FollowPass) => ByStage'
<1> SUFFICES ASSUME ByStage, init \/ follow_closure \/ FollowPass PROVE ByStage'
  OBVIOUS
<1>1. /\ UNCHANGED <<file, made, built, first, order, parser>> /\ at' = "follow"
      /\ (init /\ at = "first" /\ FirstDone) \/ (~init /\ at = "follow")
  BY DEF init, follow_closure, FollowPass, FirstDone, sets
<1>2. UNCHANGED <<file, prods, nonterms, first, acts>>
  BY <1>1 DEF built
<1>3. first \in FirstSets /\ FirstLeast
  <2>1. CASE at = "first" /\ FirstDone
    <3>1. FirstGrows
      BY <2>1 DEF ByStage
    <3> QED BY <2>1, <3>1, DoneLeast DEF FirstGrows
  <2>2. CASE at = "follow"
    BY <2>2 DEF ByStage, FirstExact, Before
  <2> QED BY <1>1, <2>1, <2>2
<1>4. FirstLeast' /\ (first \in FirstSets)'
  BY <1>2, <1>3, LeastStays
<1>5. FollowGrows'
  <2>1. CASE init
    <3>1. FirstGrows /\ GrammarBuilt
      BY <2>1 DEF ByStage, init, FirstDone
    <3> QED BY <2>1, <3>1, FollowStarts
  <2>2. CASE ~init
    <3>1. FollowGrows
      BY <1>1, <2>2 DEF ByStage
    <3> QED BY <2>2, <3>1, FollowStep, FollowAgain
  <2> QED BY <2>1, <2>2
<1>6. GrammarBuilt'
  BY <1>1, GrammarStays DEF ByStage
<1>7. SetsTyped'
  BY <1>4, <1>5 DEF SetsTyped, FollowGrows
<1>8. ParserTyped'
  <2>1. at' # "synch" /\ ParserTyped
    BY <1>1 DEF ByStage
  <2> QED BY <1>1, <1>2, <2>1, ParserStays
<1> QED BY <1>1, <1>4, <1>5, <1>6, <1>7, <1>8 DEF ByStage, FirstExact, AnalysisExact, Before, Running

\* The SELECT sets.
LEMMA SelectStage == ByStage /\ llselect => ByStage'
<1> SUFFICES ASSUME ByStage, llselect PROVE ByStage'
  OBVIOUS
<1>1. UNCHANGED <<file, built, first, parser>> /\ at = "follow" /\ at' = "tables"
  BY DEF llselect
<1>2. UNCHANGED <<file, prods, nonterms, first, acts>>
  BY <1>1 DEF built
<1>3. first \in FirstSets /\ FirstLeast /\ FollowGrows
  BY <1>1 DEF ByStage, FirstExact, Before
<1>4. FirstLeast' /\ (first \in FirstSets)'
  BY <1>2, <1>3, LeastStays
<1>5. SetsLeast' /\ (follow \in FollowSets)'
  BY <1>3, Selected
<1>6. GrammarBuilt'
  BY <1>1, GrammarStays DEF ByStage
<1>7. SetsTyped'
  BY <1>4, <1>5 DEF SetsTyped
<1>8. ParserTyped'
  <2>1. at' # "synch" /\ ParserTyped
    BY <1>1 DEF ByStage
  <2> QED BY <1>1, <1>2, <2>1, ParserStays
<1> QED BY <1>1, <1>4, <1>5, <1>6, <1>7, <1>8 DEF ByStage, FirstExact, AnalysisExact, Before, Running

\* Conflicts are counted, of finitely many cells.
LEMMA RefusedCounted == GrammarBuilt => Cardinality(Refused) \in Nat
<1> SUFFICES ASSUME GrammarBuilt PROVE Cardinality(Refused) \in Nat
  OBVIOUS
<1>1. IsSeq(prods) /\ Len(terms) \in Nat
  BY TermsCount, NumbersAssumption DEF GrammarBuilt, WellBuilt, Built
<1>2. Len(prods) \in Nat /\ DOMAIN prods = 1 .. Len(prods)
  BY <1>1, SeqIs
<1>3. IsFiniteSet(Columns) /\ IsFiniteSet(DOMAIN prods)
  BY <1>1, <1>2, FS_Interval DEF Columns
<1>4. IsFiniteSet(Columns \X (DOMAIN prods))
  BY <1>3, FS_Product
<1>5. Refused \subseteq Columns \X (DOMAIN prods)
  BY DEF Refused
<1> QED BY <1>4, <1>5, FS_Subset, FS_CardinalityType

\* The tables are printed.
LEMMA TablesStage == ByStage /\ tables => ByStage'
<1> SUFFICES ASSUME ByStage, tables PROVE ByStage'
  OBVIOUS
<1>1. /\ UNCHANGED <<file, nonterms, acts, prods, sp, goal, first, order, turn, did, follow, select>>
      /\ UNCHANGED parser /\ at = "tables" /\ at' \in {"uncompilable", "made"}
      /\ nerrors' = nerrors + Cardinality(Refused)
      /\ Yyd' = [i \in DOMAIN nonterms |-> sys_pairs(fill_row(Val(i)))]
      /\ at' = "made" => Yyd' # <<>>
  BY DEF tables, closing
<1>2. first \in FirstSets /\ FirstLeast /\ SetsLeast /\ GrammarBuilt /\ follow \in FollowSets
  <2>1. first \in FirstSets /\ FirstLeast /\ SetsLeast /\ GrammarBuilt
    BY <1>1 DEF ByStage, FirstExact, AnalysisExact, Before
  <2>2. PICK G \in FollowSets : follow = [A \in Nonterms |-> G[A] \ {EPSILON}]
    BY <2>1 DEF SetsLeast
  <2> QED BY <2>1, <2>2 DEF FollowSets
<1>3. FirstLeast' /\ (first \in FirstSets)'
  BY <1>1, <1>2, LeastStays
<1>4. SetsLeast'
  BY <1>1, <1>2, SetsStay
<1>5. (follow \in FollowSets)'
  <2>1. FollowSets' = FollowSets
    BY <1>1, SameFollow
  <2> QED BY <1>1, <1>2, <2>1
<1>6. GrammarBuilt'
  <2>1. PICK w : w = Built
    OBVIOUS
  <2>2. PICK v : v = Built'
    OBVIOUS
  <2>3. WellBuilt(w) /\ file \in Files
    BY <1>2, <2>1 DEF GrammarBuilt
  <2>4. /\ DOMAIN v = DOMAIN w /\ v.nonterms = w.nonterms /\ v.acts = w.acts /\ v.prods = w.prods
        /\ v.sp = w.sp /\ v.goal = w.goal /\ v.nerrors = w.nerrors + Cardinality(Refused)
    BY <1>1, <2>1, <2>2 DEF Built
  <2>5. v.nerrors \in Nat
    BY <1>2, <2>3, <2>4, RefusedCounted DEF WellBuilt, WithinLimits
  <2>6. WithinLimits(v)
    BY <2>3, <2>4, <2>5 DEF WithinLimits, WellBuilt
  <2>7. WellBuilt(v)
    BY <2>3, <2>4, <2>6 DEF WellBuilt
  <2>8. WellBuilt(v)'
    BY <1>1, <2>7, SameWellBuilt
  <2> QED BY <1>1, <2>2, <2>3, <2>8 DEF GrammarBuilt
<1>7. SetsTyped'
  BY <1>3, <1>5 DEF SetsTyped
<1>8. ParserTyped'
  <2>1. at' # "synch" /\ ParserTyped
    BY <1>1 DEF ByStage
  <2> QED BY <1>1, <2>1, ParserStays
<1>9. at' = "made" => Printed'
  <2> SUFFICES ASSUME at' = "made" PROVE Printed'
    OBVIOUS
  <2>1. IsSeq(nonterms)
    BY <1>2 DEF GrammarBuilt, WellBuilt, Built
  <2>2. Len(nonterms) \in Nat /\ DOMAIN nonterms = 1 .. Len(nonterms)
    BY <2>1, SeqIs
  <2>3. Len(nonterms) > 0
    <3>1. ASSUME Len(nonterms) = 0 PROVE FALSE
      <4>1. DOMAIN nonterms = {}
        BY <2>2, <3>1
      <4>2. Yyd' = <<>>
        <5>1. Yyd' = [i \in {} |-> sys_pairs(fill_row(Val(i)))]
          BY <1>1, <4>1
        <5> QED BY <5>1
      <4> QED BY <1>1, <4>2
    <3> QED BY <2>2, <3>1
  <2>6. \A A, t : Claims(A, t)' = Claims(A, t)
    BY <1>1 DEF Claims, Productions
  <2>7. \A A : fill_row(A)' = fill_row(A)
    BY <1>1, <2>6 DEF fill_row, terms
  <2>8. \A row : sys_pairs(row)' = sys_pairs(row)
    BY <1>1 DEF sys_pairs, Columns, terms
  <2>9. \A i : sys_pairs(fill_row(Val(i)))' = sys_pairs(fill_row(Val(i)))
    <3> TAKE i
    <3>1. PICK A : A = Val(i)
      OBVIOUS
    <3>2. PICK row : row = fill_row(A)
      OBVIOUS
    <3>3. fill_row(A)' = row /\ sys_pairs(row)' = sys_pairs(row) /\ Val(i)' = A
      BY <2>7, <2>8, <3>1, <3>2 DEF Val
    <3> QED BY <3>1, <3>2, <3>3
  <2>10. nonterms' = nonterms
    BY <1>1
  <2> QED BY <1>1, <2>3, <2>9, <2>10 DEF Printed
<1> QED BY <1>1, <1>3, <1>4, <1>6, <1>7, <1>8, <1>9
        DEF ByStage, FirstExact, AnalysisExact, Before, Running

\* What a parser does leaves the grammar and the tables.
LEMMA ParserKeeps ==
  ASSUME ByStage, UNCHANGED <<file, made, built, first, closing, sets>>, at \in Running,
         at' \in Running \cup {"accepted", "aborted", "returned", "overflow"}, ParserTyped'
  PROVE  ByStage'
<1>1. at \notin Before \cup {"follow"} /\ at' \notin Before \cup {"follow"}
  BY DEF Running, Before
<1>2. FirstLeast /\ SetsLeast /\ Printed /\ first \in FirstSets
  BY <1>1 DEF ByStage, FirstExact, AnalysisExact
<1>3. /\ GrammarBuilt' /\ SetsTyped' /\ FirstSets' = FirstSets
      /\ FirstLeast' /\ SetsLeast' /\ Printed'
  BY <1>2, AnalysisStays
<1>4. at' \notin {"read", "first", "follow"}
  BY <1>1 DEF Before
<1>5. first' \in FirstSets'
  BY <1>2, <1>3
<1> QED BY <1>1, <1>3, <1>4, <1>5 DEF ByStage, FirstExact, AnalysisExact

\* yylex() answers tokens, or the end of the input.
LEMMA NextToken ==
  ASSUME NEW s, IsSeq(s), NEW n \in Nat, \A i \in 1 .. Len(s) : s[i] \in 1 .. n
  PROVE  /\ Next_token(s) \in 0 .. n /\ IsSeq(Without(s))
         /\ \A i \in 1 .. Len(Without(s)) : Without(s)[i] \in 1 .. n
<1>1. CASE s = <<>>
  BY <1>1 DEF Next_token, Without, _EOI_
<1>2. CASE s # <<>>
  <2>1. Len(s) > 0 /\ Len(s) \in Nat
    BY <1>2, SeqIs
  <2>2. /\ IsSeq(Tail(s)) /\ Len(Tail(s)) = Len(s) - 1 /\ Head(s) = s[1]
        /\ \A i \in 1 .. Len(s) - 1 : Tail(s)[i] = s[i + 1]
    BY <2>1, SeqTail
  <2>3. \A i \in 1 .. Len(s) - 1 : Tail(s)[i] \in 1 .. n
    <3> TAKE i \in 1 .. Len(s) - 1
    <3>1. i + 1 \in 1 .. Len(s)
      BY <2>1
    <3> QED BY <2>2, <3>1
  <2>4. Head(s) \in 1 .. n
    BY <2>1, <2>2
  <2> QED BY <1>2, <2>2, <2>3, <2>4 DEF Next_token, Without
<1> QED BY <1>1, <1>2

\* Parts of what a parser has, in the next state.
Stacked(s)   == /\ IsSeq(s) /\ Len(s) <= YYMAXDEPTH
                /\ \A i \in 1 .. Len(s) : IsSymbol(s[i])
Given(s, x)  == /\ IsSeq(s) /\ \A i \in 1 .. Len(s) : s[i] \in 1 .. Len(terms)
                /\ x \in 0 .. Len(terms)

LEMMA PartsTyped ==
  ASSUME UNCHANGED <<file, nonterms, acts>>, Stacked(stack'), Given(rest', lookahead'),
         at' = "synch" => stack' # <<>> /\ yy_in_synch(Head(stack'))
  PROVE  ParserTyped'
<1>1. \A x : IsSymbol(x)' <=> IsSymbol(x)
  BY DEF IsSymbol, ISTERM, Nonterms, terms
<1>2. \A i \in 1 .. Len(stack') : IsSymbol(stack[i])'
  <2> TAKE i \in 1 .. Len(stack')
  <2>1. PICK x : x = stack'[i]
    OBVIOUS
  <2>2. IsSymbol(x)'
    BY <1>1, <2>1 DEF Stacked
  <2> QED BY <2>1, <2>2
<1>3. at' = "synch" => (stack # <<>> /\ yy_in_synch(Tos))'
  BY DEF Tos, yy_in_synch
<1>4. terms' = terms
  BY DEF terms
<1>5. (IsSeq(rest) /\ (\A i \in 1 .. Len(rest) : rest[i] \in 1 .. Len(terms)))'
  BY <1>4 DEF Given
<1>6. (lookahead \in 0 .. Len(terms))'
  BY <1>4 DEF Given
<1>7. (IsSeq(stack) /\ Len(stack) <= YYMAXDEPTH)'
  BY DEF Stacked
<1> QED BY <1>2, <1>3, <1>5, <1>6, <1>7 DEF ParserTyped

\* A symbol less on the stack.
LEMMA TailStacked ==
  ASSUME NEW s, Stacked(s), s # <<>>
  PROVE  /\ Stacked(Tail(s)) /\ Head(s) = s[1] /\ IsSymbol(s[1]) /\ Len(Tail(s)) = Len(s) - 1
         /\ Len(s) \in Nat /\ Len(s) > 0
<1>1. IsSeq(s) /\ Len(s) <= YYMAXDEPTH /\ \A i \in 1 .. Len(s) : IsSymbol(s[i])
  BY DEF Stacked
<1>2. Len(s) > 0 /\ Len(s) \in Nat
  BY <1>1, SeqIs
<1>3. /\ IsSeq(Tail(s)) /\ Len(Tail(s)) = Len(s) - 1 /\ Head(s) = s[1]
      /\ \A i \in 1 .. Len(s) - 1 : Tail(s)[i] = s[i + 1]
  BY <1>1, <1>2, SeqTail
<1>4. \A i \in 1 .. Len(s) - 1 : IsSymbol(Tail(s)[i])
  <2> TAKE i \in 1 .. Len(s) - 1
  <2>1. i + 1 \in 1 .. Len(s)
    BY <1>2
  <2>2. IsSymbol(s[i + 1])
    BY <1>1, <2>1
  <2> QED BY <1>3, <2>2
<1>5. Len(Tail(s)) <= YYMAXDEPTH
  BY <1>1, <1>2, <1>3, LlamaAssumption
<1>6. IsSymbol(s[1])
  <2>1. 1 \in 1 .. Len(s)
    BY <1>2
  <2> QED BY <1>1, <2>1
<1> QED BY <1>2, <1>3, <1>4, <1>5, <1>6 DEF Stacked

\* The symbols of a right-hand side may be pushed.
LEMMA RhsSymbols ==
  ASSUME GrammarBuilt, NEW n \in 1 .. Len(prods)
  PROVE  IsSeq(prods[n].rhs) /\ \A i \in 1 .. Len(prods[n].rhs) : IsSymbol(prods[n].rhs[i])
<1>1. file \in Files /\ WellBuilt(Built) /\ acts \in Nat
  BY DEF GrammarBuilt, WellBuilt, Built
<1>2. PICK p : p = prods[n]
  OBVIOUS
<1>3. /\ IsSeq(p.rhs) /\ \A i \in 1 .. Len(p.rhs) : p.rhs[i] \in Vocabulary(Len(nonterms))
      /\ IsSeq(nonterms)
  BY <1>1, <1>2, RuleIs
<1>4. ActsBelow(p, acts)
  BY <1>1, <1>2 DEF WellBuilt, WithinLimits, Built
<1>5. ASSUME NEW i \in 1 .. Len(p.rhs) PROVE IsSymbol(p.rhs[i])
  <2>1. PICK x : x = p.rhs[i]
    OBVIOUS
  <2>2. x \in Vocabulary(Len(nonterms))
    BY <1>3, <2>1
  <2>3. ISACT(x) => x < MINACT + acts
    BY <1>4, <2>1 DEF ActsBelow
  <2>4. NT(Len(nonterms)) = Nonterms
    BY <1>3, NontermsAre
  <2> QED BY <1>1, <2>1, <2>2, <2>3, <2>4, NumbersAssumption
          DEF IsSymbol, Vocabulary, ISTERM, ISACT
<1> QED BY <1>2, <1>3, <1>5

\* What is on top of the stack, and is no token or action, has a row in the tables.
LEMMA TopNonterm ==
  ASSUME file \in Files, acts \in Nat, NEW x, IsSymbol(x), ISNONTERM(x)
  PROVE  x \in Nonterms
<1>1. Len(terms) \in 0 .. MINNONTERM - 2
  BY TermsCount
<1> QED BY <1>1, NumbersAssumption DEF IsSymbol, ISNONTERM, ISTERM

\* A row names productions.
LEMMA AnswerIs ==
  ASSUME GrammarBuilt, Printed, NEW A \in Nonterms, NEW t \in Columns
  PROVE  /\ yy_next(A, t) \in 0 .. TTYPE - 1
         /\ yy_next(A, t) # YYF => yy_next(A, t) + 1 \in 1 .. Len(prods)
<1>1. Answers
  BY PrintedAnswers
<1>2. Len(prods) \in Nat
  BY SeqIs DEF GrammarBuilt, WellBuilt, Built
<1>3. YYF \in 0 .. TTYPE - 1
  BY LlamaAssumption DEF YYF
<1>4. CASE yy_next(A, t) = YYF
  BY <1>3, <1>4
<1>5. CASE \E n \in 1 .. Len(prods) : yy_next(A, t) = (n - 1) % TTYPE
  <2>1. PICK n \in 1 .. Len(prods) : yy_next(A, t) = (n - 1) % TTYPE
    BY <1>5
  <2>2. PICK y : y = yy_next(A, t)
    OBVIOUS
  <2>3. PICK k \in Nat : k = n - 1
    BY <2>1
  <2>4. y = k % TTYPE
    BY <2>1, <2>2, <2>3
  <2>5. y \in 0 .. TTYPE - 1 /\ y <= k
    BY <2>4, LlamaAssumption
  <2>6. y + 1 \in 1 .. Len(prods)
    BY <1>2, <2>3, <2>5
  <2> QED BY <2>2, <2>5, <2>6
<1> QED BY <1>1, <1>4, <1>5 DEF Answers

\* Two sequences of symbols.
LEMMA JoinSymbols ==
  ASSUME NEW s, IsSeq(s), NEW t, IsSeq(t),
         \A i \in 1 .. Len(s) : IsSymbol(s[i]), \A i \in 1 .. Len(t) : IsSymbol(t[i])
  PROVE  IsSeq(s \o t) /\ \A i \in 1 .. Len(s \o t) : IsSymbol((s \o t)[i])
<1>1. /\ IsSeq(s \o t) /\ Len(s \o t) = Len(s) + Len(t)
      /\ \A i \in 1 .. Len(s) : (s \o t)[i] = s[i]
      /\ \A i \in 1 .. Len(t) : (s \o t)[Len(s) + i] = t[i]
  BY SeqConcat
<1>2. Len(s) \in Nat /\ Len(t) \in Nat
  BY SeqIs
<1>3. ASSUME NEW i \in 1 .. Len(s \o t) PROVE IsSymbol((s \o t)[i])
  <2>1. CASE i \in 1 .. Len(s)
    <3>1. (s \o t)[i] = s[i] /\ IsSymbol(s[i])
      BY <1>1, <2>1
    <3> QED BY <3>1
  <2>2. CASE i \notin 1 .. Len(s)
    <3>1. PICK j : j = i - Len(s)
      OBVIOUS
    <3>2. j \in 1 .. Len(t) /\ i = Len(s) + j
      BY <1>1, <1>2, <2>2, <3>1
    <3>3. (s \o t)[i] = t[j] /\ IsSymbol(t[j])
      BY <1>1, <3>2
    <3> QED BY <3>3
  <2> QED BY <2>1, <2>2
<1> QED BY <1>1, <1>3

\* What a parser has.
LEMMA ParserParts ==
  ASSUME ByStage
  PROVE  /\ Stacked(stack) /\ Given(rest, lookahead) /\ file \in Files
         /\ Len(terms) \in Nat /\ GrammarBuilt
         /\ Given(Without(rest), Next_token(rest))
         /\ at = "synch" => stack # <<>> /\ yy_in_synch(Tos)
<1>1. ParserTyped /\ GrammarBuilt
  BY DEF ByStage
<1>2. Len(terms) \in Nat /\ file \in Files
  BY <1>1, TermsCount, NumbersAssumption DEF GrammarBuilt
<1>3. Stacked(stack)
  BY <1>1 DEF Stacked, ParserTyped
<1>4. Given(rest, lookahead)
  BY <1>1 DEF Given, ParserTyped
<1>5. PICK n \in Nat : n = Len(terms)
  BY <1>2
<1>6. IsSeq(rest) /\ \A i \in 1 .. Len(rest) : rest[i] \in 1 .. n
  BY <1>4, <1>5 DEF Given
<1>7. /\ Next_token(rest) \in 0 .. n /\ IsSeq(Without(rest))
      /\ \A i \in 1 .. Len(Without(rest)) : Without(rest)[i] \in 1 .. n
  BY <1>6, NextToken
<1> QED BY <1>1, <1>2, <1>3, <1>4, <1>5, <1>7 DEF Given, ParserTyped

\* A step of a parser that keeps its parts.
LEMMA PartsKeep ==
  ASSUME ByStage, UnchangedInParse, at \in Running,
         at' \in Running \cup {"accepted", "aborted", "returned", "overflow"},
         Stacked(stack'), Given(rest', lookahead'),
         at' = "synch" => stack' # <<>> /\ yy_in_synch(Head(stack'))
  PROVE  ByStage'
<1>1. UNCHANGED <<file, made, built, first, closing, sets>> /\ UNCHANGED <<file, nonterms, acts>>
  BY DEF UnchangedInParse, built
<1>2. ParserTyped'
  BY <1>1, PartsTyped
<1> QED BY <1>1, <1>2, ParserKeeps

\* yyparse() starts, with a stream of tokens.
LEMMA StartStage == ByStage /\ Start => ByStage'
<1> SUFFICES ASSUME ByStage, Start PROVE ByStage'
  OBVIOUS
<1>1. /\ at = "made" /\ at' = "parse" /\ stack' = <<MINNONTERM>> /\ given' \in Streams
      /\ lookahead' = Next_token(given') /\ rest' = Without(given')
      /\ UNCHANGED <<file, made, built, first, closing, sets>>
  BY DEF Start
<1>2. GrammarBuilt /\ Printed /\ Len(terms) \in Nat
  BY <1>1, ParserParts DEF ByStage, Running
<1>3. MINNONTERM \in Nonterms
  <2>1. IsSeq(nonterms)
    BY <1>2 DEF GrammarBuilt, WellBuilt, Built
  <2>2. Len(nonterms) \in Nat /\ Len(nonterms) > 0 /\ Nonterms = NT(Len(nonterms))
    BY <1>2, <2>1, SeqIs, NontermsAre DEF Printed
  <2> QED BY <2>2, NumbersAssumption DEF NT
<1>4. Stacked(stack')
  <2>1. PICK s : s = <<MINNONTERM>>
    OBVIOUS
  <2>2. IsSeq(s) /\ Len(s) = 1 /\ s[1] = MINNONTERM
    BY <2>1, SeqOfOne
  <2>3. \A i \in 1 .. Len(s) : IsSymbol(s[i])
    BY <1>3, <2>2 DEF IsSymbol
  <2>4. Len(s) <= YYMAXDEPTH
    BY <2>2, LlamaAssumption
  <2> QED BY <1>1, <2>1, <2>2, <2>3, <2>4 DEF Stacked
<1>5. Given(rest', lookahead')
  <2>1. PICK g : g = given'
    OBVIOUS
  <2>2. PICK n \in Nat : n = Len(terms)
    BY <1>2
  <2>3. g \in BoundedSeq(1 .. n, Tokens)
    BY <1>1, <2>1, <2>2 DEF Streams
  <2>4. PICK m \in 0 .. Tokens : g \in [1 .. m -> 1 .. n]
    BY <2>3 DEF BoundedSeq, SeqOf
  <2>5. m \in Nat
    BY <2>4, LlamaAssumption
  <2>6. g \in Seq(1 .. n)
    BY <2>4, <2>5
  <2>7. IsSeq(g) /\ \A i \in 1 .. Len(g) : g[i] \in 1 .. n
    BY <2>6 DEF IsSeq
  <2>8. /\ Next_token(g) \in 0 .. n /\ IsSeq(Without(g))
        /\ \A i \in 1 .. Len(Without(g)) : Without(g)[i] \in 1 .. n
    BY <2>7, NextToken
  <2> QED BY <1>1, <2>1, <2>2, <2>8 DEF Given
<1>6. UNCHANGED <<file, nonterms, acts>>
  BY <1>1 DEF built
<1>7. ParserTyped'
  BY <1>1, <1>4, <1>5, <1>6, PartsTyped
<1> QED BY <1>1, <1>7, ParserKeeps DEF Running

\* A production is pushed.
LEMMA ReplaceStage == ByStage /\ Replace => ByStage'
<1> SUFFICES ASSUME ByStage, Replace PROVE ByStage'
  OBVIOUS
<1>1. PICK num : num = yy_next(Tos, lookahead)
  OBVIOUS
<1>2. PICK new : new = Yy_pushtab(num) \o Tail(stack)
  OBVIOUS
<1>3. /\ at = "parse" /\ stack # <<>> /\ ISNONTERM(Tos) /\ num # YYF
      /\ \/ Len(new) > YYMAXDEPTH /\ at' = "overflow" /\ stack' = stack
         \/ ~(Len(new) > YYMAXDEPTH) /\ stack' = new /\ at' = at
      /\ UNCHANGED <<rest, lookahead>> /\ UnchangedInParse
  BY <1>1, <1>2 DEF Replace, Parsing
<1>4. Stacked(stack) /\ Given(rest, lookahead) /\ GrammarBuilt /\ file \in Files
  BY ParserParts
<1>5. acts \in Nat /\ Printed
  BY <1>3, <1>4 DEF GrammarBuilt, WellBuilt, Built, ByStage, Running
<1>6. Stacked(Tail(stack)) /\ IsSymbol(Tos)
  BY <1>3, <1>4, TailStacked DEF Tos
<1>7. Tos \in Nonterms
  BY <1>3, <1>4, <1>5, <1>6, TopNonterm
<1>8. lookahead \in Columns
  BY <1>4 DEF Given, Columns
<1>9. num + 1 \in 1 .. Len(prods)
  BY <1>1, <1>3, <1>4, <1>5, <1>7, <1>8, AnswerIs
<1>10. PICK rhs : rhs = prods[num + 1].rhs
  OBVIOUS
<1>11. IsSeq(rhs) /\ \A i \in 1 .. Len(rhs) : IsSymbol(rhs[i])
  BY <1>4, <1>9, <1>10, RhsSymbols
<1>12. PICK left : left = Tail(stack)
  OBVIOUS
<1>13. IsSeq(left) /\ \A i \in 1 .. Len(left) : IsSymbol(left[i])
  BY <1>6, <1>12 DEF Stacked
<1>14. new = rhs \o left
  BY <1>2, <1>10, <1>12 DEF Yy_pushtab
<1>15. IsSeq(new) /\ \A i \in 1 .. Len(new) : IsSymbol(new[i])
  BY <1>11, <1>13, <1>14, JoinSymbols
<1>16. Len(new) \in Nat
  BY <1>15, SeqIs
<1>17. Stacked(stack')
  <2>1. CASE stack' = stack
    BY <1>4, <2>1
  <2>2. CASE ~(Len(new) > YYMAXDEPTH) /\ stack' = new
    <3>1. Len(new) <= YYMAXDEPTH
      BY <1>16, <2>2, LlamaAssumption
    <3> QED BY <1>15, <2>2, <3>1 DEF Stacked
  <2> QED BY <1>3, <2>1, <2>2
<1>18. Given(rest', lookahead')
  BY <1>3, <1>4
<1> QED BY <1>3, <1>17, <1>18, PartsKeep DEF Running

\* The other steps take a symbol from the stack, or a token from the input.
LEMMA ParseStage == ByStage /\ ParseNext => ByStage'
<1> SUFFICES ASSUME ByStage, ParseNext PROVE ByStage'
  OBVIOUS
<1>1. /\ Stacked(stack) /\ Given(rest, lookahead) /\ Given(Without(rest), Next_token(rest))
      /\ at = "synch" => stack # <<>> /\ yy_in_synch(Tos)
  BY ParserParts
<1>2. stack # <<>> => Stacked(Tail(stack))
  BY <1>1, TailStacked
<1>3. CASE Start
  BY <1>3, StartStage
<1>4. CASE Replace
  BY <1>4, ReplaceStage
<1>5. CASE act
  <2>1. /\ at = "parse" /\ stack # <<>> /\ stack' \in {stack, Tail(stack)}
        /\ at' \in {"parse", "returned"} /\ rest' = rest /\ lookahead' = lookahead /\ UnchangedInParse
    BY <1>5 DEF act, Parsing
  <2>2. Stacked(stack') /\ Given(rest', lookahead')
    BY <1>1, <1>2, <2>1
  <2> QED BY <2>1, <2>2, PartsKeep DEF Running
<1>6. CASE Advance
  <2>1. /\ at = "parse" /\ stack # <<>> /\ stack' = Tail(stack) /\ at' = at
        /\ rest' = Without(rest) /\ lookahead' = Next_token(rest) /\ UnchangedInParse
    BY <1>6 DEF Advance, Parsing
  <2>2. Stacked(stack') /\ Given(rest', lookahead')
    BY <1>1, <1>2, <2>1
  <2> QED BY <2>1, <2>2, PartsKeep DEF Running
<1>7. CASE Accept
  <2>1. /\ at = "parse" /\ at' = "accepted" /\ stack' = stack
        /\ rest' = rest /\ lookahead' = lookahead /\ UnchangedInParse
    BY <1>7 DEF Accept
  <2>2. Stacked(stack') /\ Given(rest', lookahead')
    BY <1>1, <2>1
  <2> QED BY <2>1, <2>2, PartsKeep DEF Running
<1>8. CASE yy_synch
  <2>1. /\ at = "parse" /\ at' \in {"aborted", "popping"} /\ stack' = stack
        /\ rest' = rest /\ lookahead' = lookahead /\ UnchangedInParse
    BY <1>8 DEF yy_synch, Parsing
  <2>2. Stacked(stack') /\ Given(rest', lookahead')
    BY <1>1, <2>1
  <2> QED BY <2>1, <2>2, PartsKeep DEF Running
<1>9. CASE Pop
  <2>1. /\ at = "popping" /\ at' = at /\ stack # <<>> /\ stack' = Tail(stack)
        /\ rest' = rest /\ lookahead' = lookahead /\ UnchangedInParse
    BY <1>9 DEF Pop
  <2>2. Stacked(stack') /\ Given(rest', lookahead')
    BY <1>1, <1>2, <2>1
  <2> QED BY <2>1, <2>2, PartsKeep DEF Running
<1>10. CASE Popped
  <2>1. /\ at = "popping" /\ at' \in {"aborted", "synch"} /\ stack' = stack
        /\ rest' = rest /\ lookahead' = lookahead /\ UnchangedInParse
        /\ at' = "synch" => stack' # <<>> /\ yy_in_synch(Head(stack'))
    BY <1>10 DEF Popped, Tos
  <2>2. Stacked(stack') /\ Given(rest', lookahead')
    BY <1>1, <2>1
  <2> QED BY <2>1, <2>2, PartsKeep DEF Running
<1>11. CASE Discard
  <2>1. /\ at = "synch" /\ at' = at /\ stack' = stack
        /\ rest' = Without(rest) /\ lookahead' = Next_token(rest) /\ UnchangedInParse
    BY <1>11 DEF Discard
  <2>2. Stacked(stack') /\ Given(rest', lookahead')
    BY <1>1, <2>1
  <2>3. stack' # <<>> /\ yy_in_synch(Head(stack'))
    BY <1>1, <2>1 DEF Tos
  <2> QED BY <2>1, <2>2, <2>3, PartsKeep DEF Running
<1>12. CASE Synchronised
  <2>1. /\ at = "synch" /\ at' \in {"aborted", "parse"} /\ stack' = stack
        /\ rest' = rest /\ lookahead' = lookahead /\ UnchangedInParse
    BY <1>12 DEF Synchronised
  <2>2. Stacked(stack') /\ Given(rest', lookahead')
    BY <1>1, <2>1
  <2> QED BY <2>1, <2>2, PartsKeep DEF Running
<1> QED BY <1>3, <1>4, <1>5, <1>6, <1>7, <1>8, <1>9, <1>10, <1>11, <1>12 DEF ParseNext

LEMMA StageStutters == ByStage /\ UNCHANGED vars => ByStage'
<1> SUFFICES ASSUME ByStage, UNCHANGED vars PROVE ByStage'
  OBVIOUS
<1>1. /\ UNCHANGED <<file, made, built, at, first, closing, sets, parser>> /\ UNCHANGED grammar
  BY DEF vars, grammar
<1>2. /\ UNCHANGED <<file, made, built, order, nonterms, acts, prods, goal, first, turn, did, at>>
      /\ UNCHANGED <<follow, select, stack, rest, lookahead>>
  BY <1>1 DEF built, closing, sets, parser
<1>3. /\ GrammarBuilt' /\ SetsTyped' /\ FirstSets' = FirstSets
      /\ FirstLeast => FirstLeast'
      /\ SetsLeast => SetsLeast'
      /\ Printed => Printed'
  BY <1>1, AnalysisStays
<1>4. (Reading => Reading') /\ (FirstGrows => FirstGrows')
  BY <1>1, <1>2, ReadingStutters, GrowsStutters
<1>5. FollowGrows => FollowGrows'
  BY <1>2, SetsStay
<1>6. ParserTyped'
  <2>1. /\ Stacked(stack) /\ Given(rest, lookahead)
        /\ at = "synch" => stack # <<>> /\ yy_in_synch(Tos)
    BY ParserParts
  <2>2. Stacked(stack') /\ Given(rest', lookahead') /\ UNCHANGED <<file, nonterms, acts>>
    BY <1>2, <2>1
  <2>3. at' = "synch" => stack' # <<>> /\ yy_in_synch(Head(stack'))
    BY <1>2, <2>1 DEF Tos
  <2> QED BY <2>2, <2>3, PartsTyped
<1>7. at' = at /\ first' = first /\ follow' = follow /\ stack' = stack
  BY <1>2
<1> QED BY <1>3, <1>4, <1>5, <1>6, <1>7 DEF ByStage, FirstExact, AnalysisExact

\* The invariant holds from the grammar file to the last token.
LEMMA StageHolds == Spec => []ByStage
<1>1. ByStage /\ [Next]_vars => ByStage'
  BY ReadStage, ClosureStage, FollowStage, SelectStage, TablesStage, ParseStage, StageStutters
     DEF Next
<1> QED BY FirstStage, <1>1, PTL DEF Spec

-----------------------------------------------------------------------------
\* GrammarTypeOK, for llama.
LEMMA StageTyped == ByStage => GrammarTypeOK
<1> SUFFICES ASSUME ByStage PROVE GrammarTypeOK
  OBVIOUS
<1>1. GrammarBuilt /\ SetsTyped
  BY DEF ByStage
<1>2. /\ file \in Files /\ WellBuilt(Built) /\ IsSeq(nonterms) /\ acts \in Nat /\ IsSeq(sp)
      /\ Len(nonterms) <= MINACT - MINNONTERM
      /\ goal \in NT(Len(nonterms)) \cup {NONE}
      /\ Len(prods) <= MAXPROD /\ nerrors \in Nat
      /\ \A i \in 1 .. Len(sp) : sp[i].rhs # NONE => prods[sp[i].rhs].lhs = sp[i].lhs
  BY <1>1 DEF GrammarBuilt, WellBuilt, WithinLimits, Built
<1>3. Nonterms = NT(Len(nonterms)) /\ DOMAIN sp = 1 .. Len(sp)
  BY <1>2, SeqIs, NontermsAre
<1>4. ASSUME NEW n \in 1 .. Len(prods)
      PROVE  /\ prods[n].lhs \in Nonterms /\ Len(prods[n].rhs) <= MAXRHS
             /\ \A i \in DOMAIN prods[n].rhs :
                  \/ ISTERM(prods[n].rhs[i]) \/ prods[n].rhs[i] \in Nonterms
                  \/ prods[n].rhs[i] \in MINACT .. MINACT + acts - 1
  <2>1. prods[n].lhs \in Nonterms /\ Len(prods[n].rhs) <= MAXRHS
    BY <1>2, RuleIs
  <2>2. IsSeq(prods[n].rhs) /\ \A i \in 1 .. Len(prods[n].rhs) : IsSymbol(prods[n].rhs[i])
    BY <1>1, RhsSymbols
  <2>3. DOMAIN prods[n].rhs = 1 .. Len(prods[n].rhs)
    BY <2>2, SeqIs
  <2> QED BY <2>1, <2>2, <2>3 DEF IsSymbol
<1>5. \A A \in DOMAIN first : A \in Nonterms /\ first[A] \subseteq 1 .. EPSILON
  <2>1. CASE first = <<>>
    BY <2>1, SeqOfNone
  <2>2. CASE first \in FirstSets
    BY <2>2 DEF FirstSets
  <2> QED BY <1>1, <2>1, <2>2 DEF SetsTyped
<1>6. Len(prods) <= MAXPROD + IF LLAMA THEN 0 ELSE acts
  BY <1>2, LlamaAssumption, NumbersAssumption
<1> QED BY <1>2, <1>3, <1>4, <1>5, <1>6 DEF GrammarTypeOK

\* The types of llama and its parsers: productions of symbols there are and within the
\* limits of acts.c, sets of tokens, cells that fit a YY_TTYPE, and a stack that never
\* holds more than YYMAXDEPTH symbols, all of them known to the tables.
THEOREM LlamaTypeCorrect == Spec => []TypeOK
<1>1. ByStage => TypeOK
  <2> SUFFICES ASSUME ByStage PROVE TypeOK
    OBVIOUS
  <2>1. GrammarTypeOK
    BY StageTyped
  <2>2. /\ Stacked(stack) /\ Given(rest, lookahead)
        /\ at = "synch" => stack # <<>> /\ yy_in_synch(Tos)
    BY ParserParts
  <2>3. \A i \in DOMAIN stack :
          ISTERM(stack[i]) \/ stack[i] \in Nonterms \cup (MINACT .. MINACT + acts - 1)
    BY <2>2, SeqIs DEF Stacked, IsSymbol
  <2>4. \A A \in DOMAIN follow : A \in Nonterms /\ follow[A] \subseteq 0 .. EPSILON
    <3>1. CASE follow = <<>>
      BY <3>1, SeqOfNone
    <3>2. CASE follow \in FollowSets
      BY <3>2 DEF FollowSets
    <3> QED BY <3>1, <3>2 DEF ByStage, SetsTyped
  <2>5. at = "made" => \A A \in Nonterms, t \in Columns : yy_next(A, t) \in 0 .. TTYPE - 1
    BY AnswerIs DEF ByStage, Running
  <2> QED BY <2>1, <2>2, <2>3, <2>4, <2>5 DEF TypeOK, Stacked, Given
<1> QED BY <1>1, StageHolds, PTL

\* first() (first.c) goes over the symbol table in the order of its buckets, until nothing
\* changes: whatever the order, it ends with sets that are closed under first_closure(),
\* the least there are.
THEOREM FirstSetsLeast == Spec => []FirstExact
<1>1. ByStage => FirstExact
  BY DEF ByStage
<1> QED BY <1>1, StageHolds, PTL

\* So do follow() (llfollow.c) and select() (llselect.c): the FOLLOW sets are the least
\* that are closed, and the SELECT sets are made of them.
THEOREM AnalysisLeast == Spec => []AnalysisExact
<1>1. ByStage => AnalysisExact
  BY DEF ByStage
<1> QED BY <1>1, StageHolds, PTL

\* A table that sys_pairs() packed (syslib.c), of rows in pairs, whole rows, and rows that
\* are not there, answers for every nonterminal and token the last production the token
\* selects, or YYF where there is none; of its number, what fits in a YY_TTYPE.
THEOREM TablesAnswer == Spec => []TablesExact
<1>1. ByStage => TablesExact
  BY PrintedAnswers DEF ByStage, TablesExact
<1> QED BY <1>1, StageHolds, PTL

-----------------------------------------------------------------------------
(* Sequences, put together and taken apart. *)

\* A sequence and an element in front of it.
LEMMA SeqFront ==
  ASSUME NEW S, NEW s \in Seq(S), NEW x \in S
  PROVE  /\ <<x>> \o s \in Seq(S) /\ <<x>> \o s # <<>>
         /\ Head(<<x>> \o s) = x /\ Tail(<<x>> \o s) = s
<1>1. <<x>> \in Seq(S) /\ Len(<<x>>) = 1 /\ <<x>>[1] = x /\ Len(s) \in Nat
  OBVIOUS
<1>2. PICK q : q = <<x>> \o s
  OBVIOUS
<1>3. q \in Seq(S) /\ Len(q) = Len(s) + 1 /\ q[1] = x /\ \A i \in 1 .. Len(s) : q[i + 1] = s[i]
  BY <1>1, <1>2
<1>4. q # <<>> /\ Head(q) = x
  BY <1>1, <1>3
<1>5. /\ Tail(q) \in Seq(S) /\ Len(Tail(q)) = Len(s)
      /\ \A i \in 1 .. Len(s) : Tail(q)[i] = s[i]
  BY <1>1, <1>3, <1>4
<1>6. Tail(q) = s
  BY <1>5
<1> QED BY <1>2, <1>3, <1>4, <1>6

\* A sequence is its first element and the others.
LEMMA SeqSplit ==
  ASSUME NEW S, NEW s \in Seq(S), s # <<>>
  PROVE  Head(s) \in S /\ Tail(s) \in Seq(S) /\ s = <<Head(s)>> \o Tail(s)
<1>1. Len(s) \in Nat /\ Len(s) > 0
  OBVIOUS
<1>2. Head(s) \in S /\ Head(s) = s[1]
  BY <1>1
<1>3. /\ Tail(s) \in Seq(S) /\ Len(Tail(s)) = Len(s) - 1
      /\ \A i \in 1 .. Len(s) - 1 : Tail(s)[i] = s[i + 1]
  BY <1>1
<1>4. PICK x \in S : x = Head(s)
  BY <1>2
<1>5. PICK t \in Seq(S) : t = Tail(s)
  BY <1>3
<1>6. PICK q : q = <<x>> \o t
  OBVIOUS
<1>7. q \in Seq(S) /\ Len(q) = Len(t) + 1 /\ q[1] = x /\ \A i \in 1 .. Len(t) : q[i + 1] = t[i]
  BY <1>6
<1>8. Len(q) = Len(s) /\ \A i \in 1 .. Len(s) : q[i] = s[i]
  <2>1. Len(q) = Len(s)
    BY <1>1, <1>3, <1>5, <1>7
  <2>2. ASSUME NEW i \in 1 .. Len(s) PROVE q[i] = s[i]
    <3>1. CASE i = 1
      BY <1>2, <1>4, <1>7, <3>1
    <3>2. CASE i # 1
      <4>1. i - 1 \in 1 .. Len(t) /\ (i - 1) + 1 = i
        BY <1>1, <1>3, <1>5, <3>2
      <4>2. q[i] = t[i - 1]
        BY <1>7, <4>1
      <4>3. t[i - 1] = s[i]
        BY <1>3, <1>5, <4>1
      <4> QED BY <4>2, <4>3
    <3> QED BY <3>1, <3>2
  <2> QED BY <2>1, <2>2
<1>9. q = s
  BY <1>7, <1>8
<1> QED BY <1>2, <1>3, <1>4, <1>5, <1>6, <1>9

\* Three sequences, one after the other.
LEMMA SeqAssociates ==
  ASSUME NEW S, NEW r \in Seq(S), NEW s \in Seq(S), NEW t \in Seq(S)
  PROVE  (r \o s) \o t = r \o (s \o t) /\ r \o s \in Seq(S) /\ <<>> \o s = s
OBVIOUS

LEMMA SeqMoves ==
  ASSUME NEW S, NEW r \in Seq(S), NEW t \in Seq(S), NEW x \in S
  PROVE  Append(r, x) \o t = r \o (<<x>> \o t) /\ Append(r, x) \in Seq(S)
<1>1. Append(r, x) = r \o <<x>> /\ <<x>> \in Seq(S)
  OBVIOUS
<1> QED BY <1>1, SeqAssociates

-----------------------------------------------------------------------------
(* What the productions derive. *)

ActNumbers == MINACT .. MINACT + acts - 1
Symbols    == (1 .. Len(terms)) \cup Nonterms \cup ActNumbers
Forms      == Seq(Symbols)
Strings    == Seq(1 .. Len(terms))

\* Of a sequence of symbols s, a sequence of tokens and actions w, and its tokens u.
Triples        == Forms \X Forms \X Strings
Has(D, s, w, u) == <<s, w, u>> \in D
HasNone(D)   == Has(D, <<>>, <<>>, <<>>)
HasTokens(D) ==
  \A s, w \in Forms : \A u \in Strings : \A x \in 1 .. Len(terms) :
    Has(D, s, w, u) => Has(D, <<x>> \o s, <<x>> \o w, <<x>> \o u)
HasActs(D) ==
  \A s, w \in Forms : \A u \in Strings : \A x \in ActNumbers :
    Has(D, s, w, u) => Has(D, <<x>> \o s, <<x>> \o w, u)
HasRules(D) ==
  \A s, w \in Forms : \A u \in Strings : \A n \in 1 .. Len(prods) :
    Has(D, prods[n].rhs \o s, w, u) => Has(D, <<prods[n].lhs>> \o s, w, u)
IsDerivation(D) == HasNone(D) /\ HasTokens(D) /\ HasActs(D) /\ HasRules(D)

\* s derives w, whose tokens are u: the least relation of the kind.
Yields(s, w, u) ==
  /\ s \in Forms /\ w \in Forms /\ u \in Strings
  /\ \A D \in SUBSET Triples : IsDerivation(D) => Has(D, s, w, u)

LEMMA YieldsNone == Yields(<<>>, <<>>, <<>>)
<1>1. <<>> \in Forms /\ <<>> \in Strings
  BY DEF Forms, Strings
<1> QED BY <1>1 DEF Yields, IsDerivation, HasNone

\* The kinds of symbols.
LEMMA SymbolKinds ==
  ASSUME GrammarBuilt
  PROVE  /\ Len(terms) \in Nat /\ Len(prods) \in Nat
         /\ \A x : x \in Symbols <=> IsSymbol(x)
         /\ \A x \in Symbols : x \in 1 .. Len(terms) \/ x \in Nonterms \/ x \in ActNumbers
         /\ \A x \in 1 .. Len(terms) :
              x \in Symbols /\ ISTERM(x) /\ ~ISNONTERM(x) /\ ~ISACT(x) /\ x \notin Nonterms
         /\ \A x \in ActNumbers :
              x \in Symbols /\ ~ISTERM(x) /\ ~ISNONTERM(x) /\ ISACT(x) /\ x \notin Nonterms
         /\ \A x \in Nonterms :
              x \in Symbols /\ ~ISTERM(x) /\ ISNONTERM(x) /\ ~ISACT(x)
<1>1. /\ file \in Files /\ acts \in Nat /\ IsSeq(nonterms) /\ Len(nonterms) <= MINACT - MINNONTERM
      /\ IsSeq(prods)
  BY DEF GrammarBuilt, WellBuilt, Built
<1>2. Len(terms) \in 0 .. MINNONTERM - 2
  BY <1>1, TermsCount
<1>3. Nonterms = NT(Len(nonterms)) /\ Len(nonterms) \in Nat /\ Len(prods) \in Nat
  BY <1>1, NontermsAre, SeqIs
<1>4. \A x \in 1 .. Len(terms) :
        x \in Symbols /\ ISTERM(x) /\ ~ISNONTERM(x) /\ ~ISACT(x) /\ x \notin Nonterms
  BY <1>2, <1>3, NumbersAssumption DEF Symbols, ISTERM, ISNONTERM, ISACT, NT
<1>5. \A x \in ActNumbers :
        x \in Symbols /\ ~ISTERM(x) /\ ~ISNONTERM(x) /\ ISACT(x) /\ x \notin Nonterms
  BY <1>1, <1>2, <1>3, NumbersAssumption DEF ActNumbers, Symbols, ISTERM, ISNONTERM, ISACT, NT
<1>6. \A x \in Nonterms : x \in Symbols /\ ~ISTERM(x) /\ ISNONTERM(x) /\ ~ISACT(x)
  BY <1>1, <1>2, <1>3, NumbersAssumption DEF Symbols, ISTERM, ISNONTERM, ISACT, NT
<1>7. \A x : x \in Symbols <=> IsSymbol(x)
  BY DEF Symbols, IsSymbol, ISTERM, ActNumbers
<1> QED BY <1>2, <1>3, <1>4, <1>5, <1>6, <1>7, NumbersAssumption DEF Symbols

\* A right-hand side is a sequence of symbols.
LEMMA RhsForm ==
  ASSUME GrammarBuilt, NEW n \in 1 .. Len(prods)
  PROVE  prods[n].rhs \in Forms /\ prods[n].lhs \in Nonterms
<1>1. PICK r : r = prods[n].rhs
  OBVIOUS
<1>2. IsSeq(r) /\ \A i \in 1 .. Len(r) : IsSymbol(r[i])
  BY <1>1, RhsSymbols
<1>3. \A i \in 1 .. Len(r) : r[i] \in Symbols
  BY <1>2, SymbolKinds
<1>4. r \in Seq(Symbols)
  BY <1>2, <1>3 DEF IsSeq
<1>5. prods[n].lhs \in Nonterms
  BY RuleIs DEF GrammarBuilt
<1> QED BY <1>1, <1>4, <1>5 DEF Forms

\* One more symbol.
LEMMA YieldsToken ==
  ASSUME GrammarBuilt, NEW s, NEW w, NEW u, Yields(s, w, u), NEW x \in 1 .. Len(terms)
  PROVE  Yields(<<x>> \o s, <<x>> \o w, <<x>> \o u)
<1>1. s \in Seq(Symbols) /\ w \in Seq(Symbols) /\ u \in Seq(1 .. Len(terms)) /\ x \in Symbols
  BY SymbolKinds DEF Yields, Forms, Strings
<1>2. /\ <<x>> \o s \in Seq(Symbols) /\ <<x>> \o w \in Seq(Symbols)
      /\ <<x>> \o u \in Seq(1 .. Len(terms))
  BY <1>1, SeqFront
<1>3. ASSUME NEW D \in SUBSET Triples, IsDerivation(D)
      PROVE  Has(D, <<x>> \o s, <<x>> \o w, <<x>> \o u)
  <2>1. Has(D, s, w, u) /\ HasTokens(D)
    BY <1>3 DEF Yields, IsDerivation
  <2> QED BY <1>1, <2>1 DEF HasTokens, Forms, Strings
<1> QED BY <1>2, <1>3 DEF Yields, Forms, Strings

LEMMA YieldsAct ==
  ASSUME GrammarBuilt, NEW s, NEW w, NEW u, Yields(s, w, u), NEW x \in ActNumbers
  PROVE  Yields(<<x>> \o s, <<x>> \o w, u)
<1>1. s \in Seq(Symbols) /\ w \in Seq(Symbols) /\ u \in Strings /\ x \in Symbols
  BY SymbolKinds DEF Yields, Forms
<1>2. <<x>> \o s \in Seq(Symbols) /\ <<x>> \o w \in Seq(Symbols)
  BY <1>1, SeqFront
<1>3. ASSUME NEW D \in SUBSET Triples, IsDerivation(D)
      PROVE  Has(D, <<x>> \o s, <<x>> \o w, u)
  <2>1. Has(D, s, w, u) /\ HasActs(D)
    BY <1>3 DEF Yields, IsDerivation
  <2> QED BY <1>1, <2>1 DEF HasActs, Forms
<1> QED BY <1>1, <1>2, <1>3 DEF Yields, Forms

LEMMA YieldsRule ==
  ASSUME GrammarBuilt, NEW n \in 1 .. Len(prods), NEW s \in Forms, NEW w, NEW u,
         Yields(prods[n].rhs \o s, w, u)
  PROVE  Yields(<<prods[n].lhs>> \o s, w, u)
<1>1. PICK x : x = prods[n].lhs
  OBVIOUS
<1>2. s \in Seq(Symbols) /\ w \in Forms /\ u \in Strings /\ x \in Symbols
  BY <1>1, SymbolKinds, RhsForm DEF Yields, Forms
<1>3. <<x>> \o s \in Seq(Symbols)
  BY <1>2, SeqFront
<1>4. ASSUME NEW D \in SUBSET Triples, IsDerivation(D) PROVE Has(D, <<x>> \o s, w, u)
  <2>1. Has(D, prods[n].rhs \o s, w, u) /\ HasRules(D)
    BY <1>4 DEF Yields, IsDerivation
  <2> QED BY <1>1, <1>2, <2>1 DEF HasRules
<1> QED BY <1>1, <1>2, <1>3, <1>4 DEF Yields, Forms

-----------------------------------------------------------------------------
\* By its first symbol, what a sequence derives.
Opens(s, w, u) ==
  LET x == Head(s)
      t == Tail(s)
  IN \/ /\ x \in 1 .. Len(terms)
        /\ \E v, y : w = <<x>> \o v /\ u = <<x>> \o y /\ Yields(t, v, y)
     \/ x \in ActNumbers /\ \E v : w = <<x>> \o v /\ Yields(t, v, u)
     \/ \E n \in Productions(x) : Yields(prods[n].rhs \o t, w, u)
Inverts(s, w, u) == IF s = <<>> THEN w = <<>> /\ u = <<>> ELSE Opens(s, w, u)

LEMMA YieldsInverts ==
  ASSUME GrammarBuilt, NEW s, NEW w, NEW u, Yields(s, w, u)
  PROVE  Inverts(s, w, u)
<1> DEFINE D == {d \in Triples : Yields(d[1], d[2], d[3]) /\ Inverts(d[1], d[2], d[3])}
<1>1. D \in SUBSET Triples
  OBVIOUS
<1>2. \A a, b \in Forms : \A c \in Strings :
        Has(D, a, b, c) <=> Yields(a, b, c) /\ Inverts(a, b, c)
  BY Zenon DEF Has, Triples
<1> HIDE DEF D
<1>3. <<>> \in Forms /\ <<>> \in Strings
  BY DEF Forms, Strings
<1>4. HasNone(D)
  BY <1>2, <1>3, YieldsNone DEF HasNone, Inverts
<1>5. HasTokens(D)
  <2> SUFFICES ASSUME NEW a \in Forms, NEW b \in Forms, NEW c \in Strings,
                      NEW x \in 1 .. Len(terms), Has(D, a, b, c)
               PROVE  Has(D, <<x>> \o a, <<x>> \o b, <<x>> \o c)
    BY DEF HasTokens
  <2>1. Yields(a, b, c)
    BY <1>2
  <2>2. Yields(<<x>> \o a, <<x>> \o b, <<x>> \o c)
    BY <2>1, YieldsToken
  <2>3. <<x>> \o a # <<>> /\ Head(<<x>> \o a) = x /\ Tail(<<x>> \o a) = a
    BY SeqFront, SymbolKinds DEF Forms
  <2>4. Inverts(<<x>> \o a, <<x>> \o b, <<x>> \o c)
    BY <2>1, <2>3, Zenon DEF Inverts, Opens
  <2> QED BY <1>2, <2>2, <2>4 DEF Yields
<1>6. HasActs(D)
  <2> SUFFICES ASSUME NEW a \in Forms, NEW b \in Forms, NEW c \in Strings,
                      NEW x \in ActNumbers, Has(D, a, b, c)
               PROVE  Has(D, <<x>> \o a, <<x>> \o b, c)
    BY DEF HasActs
  <2>1. Yields(a, b, c)
    BY <1>2
  <2>2. Yields(<<x>> \o a, <<x>> \o b, c)
    BY <2>1, YieldsAct
  <2>3. <<x>> \o a # <<>> /\ Head(<<x>> \o a) = x /\ Tail(<<x>> \o a) = a
    BY SeqFront, SymbolKinds DEF Forms
  <2>4. Inverts(<<x>> \o a, <<x>> \o b, c)
    BY <2>1, <2>3, Zenon DEF Inverts, Opens
  <2> QED BY <1>2, <2>2, <2>4 DEF Yields
<1>7. HasRules(D)
  <2> SUFFICES ASSUME NEW a \in Forms, NEW b \in Forms, NEW c \in Strings,
                      NEW n \in 1 .. Len(prods), Has(D, prods[n].rhs \o a, b, c)
               PROVE  Has(D, <<prods[n].lhs>> \o a, b, c)
    BY DEF HasRules
  <2>1. PICK x : x = prods[n].lhs
    OBVIOUS
  <2>2. prods[n].rhs \in Seq(Symbols) /\ x \in Symbols /\ n \in Productions(x)
    BY <2>1, RhsForm, SymbolKinds DEF Forms, Productions
  <2>3. prods[n].rhs \o a \in Forms
    BY <2>2, SeqAssociates DEF Forms
  <2>4. Yields(prods[n].rhs \o a, b, c)
    BY <1>2, <2>3
  <2>5. Yields(<<x>> \o a, b, c)
    BY <2>1, <2>4, YieldsRule
  <2>6. <<x>> \o a # <<>> /\ Head(<<x>> \o a) = x /\ Tail(<<x>> \o a) = a
    BY <2>2, SeqFront DEF Forms
  <2>7. Inverts(<<x>> \o a, b, c)
    BY <2>2, <2>4, <2>6, Zenon DEF Inverts, Opens
  <2> QED BY <1>2, <2>1, <2>5, <2>7 DEF Yields
<1>8. Has(D, s, w, u)
  BY <1>1, <1>4, <1>5, <1>6, <1>7 DEF Yields, IsDerivation
<1> QED BY <1>2, <1>8 DEF Yields

-----------------------------------------------------------------------------
(* What a sequence of symbols begins with. *)

\* What a sequence of symbols begins with, the end of the input after it.
Starts(s) == Begins(s) \cup IF Nullable(s) THEN {_EOI_} ELSE {}

LEMMA FormIs ==
  ASSUME NEW s \in Forms
  PROVE  IsSeq(s) /\ Len(s) \in Nat /\ \A i \in 1 .. Len(s) : s[i] \in Symbols
<1>1. s \in Seq(Symbols)
  BY DEF Forms
<1>2. IsSeq(s)
  BY <1>1 DEF IsSeq
<1> QED BY <1>1, <1>2

LEMMA BeginsOne ==
  ASSUME NEW x
  PROVE  /\ Begins(<<x>>) = IF ISACT(x) THEN {} ELSE FirstOf(x)
         /\ Nullable(<<x>>) <=> Vanishes(x)
<1>1. PICK s : s = <<x>>
  OBVIOUS
<1>2. IsSeq(s) /\ Len(s) = 1 /\ s[1] = x
  BY <1>1, SeqOfOne
<1>3. \A i \in 1 .. 1 : i = 1
  OBVIOUS
<1>4. \A k \in 1 .. 1 - 1 : FALSE
  OBVIOUS
<1>5. ASSUME NEW t PROVE t \in Begins(s) <=> ~ISACT(x) /\ t \in FirstOf(x)
  BY <1>2, <1>3, <1>4, BeginsAt
<1>6. Nullable(s) <=> Vanishes(x)
  BY <1>2, <1>3, BeginsAt
<1> QED BY <1>1, <1>5, <1>6

LEMMA StartsJoin ==
  ASSUME NEW r \in Forms, NEW s \in Forms
  PROVE  Starts(r \o s) = Begins(r) \cup IF Nullable(r) THEN Starts(s) ELSE {}
<1>1. IsSeq(r) /\ IsSeq(s)
  BY FormIs
<1>2. /\ Begins(r \o s) = Begins(r) \cup IF Nullable(r) THEN Begins(s) ELSE {}
      /\ Nullable(r \o s) <=> Nullable(r) /\ Nullable(s)
  BY <1>1, BeginsJoin
<1> QED BY <1>2 DEF Starts

LEMMA StartsNone == Starts(<<>>) = {_EOI_}
<1>1. PICK s : s = <<>>
  OBVIOUS
<1>2. IsSeq(s) /\ Len(s) = 0
  BY <1>1, SeqOfNone
<1>3. \A i \in 1 .. 0 : FALSE
  OBVIOUS
<1>4. \A t : t \notin Begins(s)
  BY <1>2, <1>3, BeginsAt
<1>5. Nullable(s)
  BY <1>2, <1>3, BeginsAt
<1> QED BY <1>1, <1>4, <1>5 DEF Starts

\* The FIRST set of a nonterminal has what its right-hand sides begin with, and EPSILON
\* if one of them can vanish.
LEMMA RuleBegins ==
  ASSUME GrammarBuilt, FirstLeast, NEW n \in 1 .. Len(prods)
  PROVE  /\ Begins(prods[n].rhs) \subseteq first[prods[n].lhs]
         /\ Nullable(prods[n].rhs) => EPSILON \in first[prods[n].lhs]
<1>1. PICK rhs : rhs = prods[n].rhs
  OBVIOUS
<1>2. PICK A : A = prods[n].lhs
  OBVIOUS
<1>3. A \in Nonterms /\ n \in Productions(A) /\ IsSeq(rhs)
  BY <1>1, <1>2, RhsForm, FormIs DEF Productions
<1>4. FirstOfRhs(rhs) \subseteq first[A]
  BY <1>1, <1>3, FirstOfRhsIs DEF FirstLeast, FirstClosed, ClosedAt
<1>5. PICK s : s = NonActs(rhs)
  OBVIOUS
<1>6. IsSeq(s)
  <2>1. PICK W : W = {x \in ToSet(rhs) : ~ISACT(x)}
    OBVIOUS
  <2> QED BY <1>3, <1>5, <2>1, ThoseIs DEF NonActs
<1>7. Len(s) \in Nat /\ DOMAIN s = 1 .. Len(s)
  BY <1>6, SeqIs
<1>8. CASE s = <<>>
  <2>1. DOMAIN s = {}
    BY <1>8, SeqOfNone
  <2>2. Begins(rhs) = {}
    BY <1>5, <2>1 DEF Begins, Leading
  <2>3. FirstOfRhs(rhs) = {EPSILON}
    BY <1>5, <1>8 DEF FirstOfRhs
  <2> QED BY <1>1, <1>2, <1>4, <2>2, <2>3
<1>9. CASE s # <<>>
  <2>1. FirstOfRhs(rhs) = Begins(rhs)
    BY <1>5, <1>9 DEF FirstOfRhs, Begins
  <2>2. 1 \in DOMAIN s /\ \A k \in 1 .. 1 - 1 : FALSE
    BY <1>6, <1>7, <1>9, SeqIs
  <2>3. ASSUME Nullable(rhs) PROVE EPSILON \in Begins(rhs)
    <3>1. PICK x : x = s[1]
      OBVIOUS
    <3>2. x \in Leading(rhs)
      BY <1>5, <2>2, <3>1 DEF Leading
    <3>3. NULLABLE(x)
      BY <1>5, <2>2, <2>3, <3>1 DEF Nullable
    <3>4. ~ISTERM(x) /\ EPSILON \in first[x]
      BY <3>3, TermsCount, NumbersAssumption DEF NULLABLE, ISNONTERM, ISTERM, GrammarBuilt
    <3> QED BY <3>2, <3>4 DEF Begins, FirstOf
  <2> QED BY <1>1, <1>2, <1>4, <2>1, <2>3
<1> QED BY <1>8, <1>9

\* The next token of what a sequence derives is one that it can begin with.
LEMMA YieldsStarts ==
  ASSUME GrammarBuilt, FirstLeast, NEW s, NEW w, NEW u, Yields(s, w, u)
  PROVE  Next_token(u) \in Starts(s)
<1> DEFINE D == {d \in Triples : Next_token(d[3]) \in Starts(d[1])}
<1>1. D \in SUBSET Triples
  OBVIOUS
<1>2. \A a, b \in Forms : \A c \in Strings :
        Has(D, a, b, c) <=> Next_token(c) \in Starts(a)
  BY Zenon DEF Has, Triples
<1> HIDE DEF D
<1>3. HasNone(D)
  <2>1. <<>> \in Forms /\ <<>> \in Strings
    BY DEF Forms, Strings
  <2>2. Next_token(<<>>) = _EOI_
    BY DEF Next_token
  <2> QED BY <1>2, <2>1, <2>2, StartsNone DEF HasNone
<1>4. HasTokens(D)
  <2> SUFFICES ASSUME NEW a \in Forms, NEW b \in Forms, NEW c \in Strings,
                      NEW x \in 1 .. Len(terms), Has(D, a, b, c)
               PROVE  Has(D, <<x>> \o a, <<x>> \o b, <<x>> \o c)
    BY DEF HasTokens
  <2>1. x \in Symbols /\ ISTERM(x) /\ ~ISACT(x)
    BY SymbolKinds
  <2>2. <<x>> \o a \in Forms /\ <<x>> \o b \in Forms /\ <<x>> \in Forms
    BY <2>1, SeqFront DEF Forms
  <2>3. <<x>> \o c \in Strings /\ Next_token(<<x>> \o c) = x
    BY SeqFront DEF Strings, Next_token
  <2>4. x \in Starts(<<x>> \o a)
    <3>1. Begins(<<x>>) = {x}
      BY <2>1, BeginsOne DEF FirstOf
    <3> QED BY <2>2, <3>1, StartsJoin
  <2> QED BY <1>2, <2>2, <2>3, <2>4
<1>5. HasActs(D)
  <2> SUFFICES ASSUME NEW a \in Forms, NEW b \in Forms, NEW c \in Strings,
                      NEW x \in ActNumbers, Has(D, a, b, c)
               PROVE  Has(D, <<x>> \o a, <<x>> \o b, c)
    BY DEF HasActs
  <2>1. x \in Symbols /\ ISACT(x)
    BY SymbolKinds
  <2>2. <<x>> \o a \in Forms /\ <<x>> \o b \in Forms /\ <<x>> \in Forms
    BY <2>1, SeqFront DEF Forms
  <2>3. Starts(<<x>> \o a) = Starts(a)
    <3>1. Begins(<<x>>) = {} /\ Nullable(<<x>>)
      BY <2>1, BeginsOne DEF Vanishes
    <3> QED BY <2>2, <3>1, StartsJoin
  <2>4. Next_token(c) \in Starts(a)
    BY <1>2
  <2> QED BY <1>2, <2>2, <2>3, <2>4
<1>6. HasRules(D)
  <2> SUFFICES ASSUME NEW a \in Forms, NEW b \in Forms, NEW c \in Strings,
                      NEW n \in 1 .. Len(prods), Has(D, prods[n].rhs \o a, b, c)
               PROVE  Has(D, <<prods[n].lhs>> \o a, b, c)
    BY DEF HasRules
  <2>1. PICK x : x = prods[n].lhs
    OBVIOUS
  <2>2. PICK rhs : rhs = prods[n].rhs
    OBVIOUS
  <2>3. rhs \in Forms /\ x \in Nonterms
    BY <2>1, <2>2, RhsForm
  <2>4. x \in Symbols /\ ~ISTERM(x) /\ ISNONTERM(x) /\ ~ISACT(x)
    BY <2>3, SymbolKinds
  <2>5. <<x>> \o a \in Forms /\ <<x>> \in Forms
    BY <2>4, SeqFront DEF Forms
  <2>6. rhs \o a \in Forms
    BY <2>3, SeqAssociates DEF Forms
  <2>7. Next_token(c) \in Starts(rhs \o a)
    BY <1>2, <2>2, <2>6
  <2>8. Begins(rhs) \subseteq first[x] /\ (Nullable(rhs) => EPSILON \in first[x])
    BY <2>1, <2>2, RuleBegins
  <2>9. Begins(<<x>>) = first[x] /\ (EPSILON \in first[x] => Nullable(<<x>>))
    BY <2>4, BeginsOne DEF FirstOf, Vanishes, NULLABLE
  <2>10. Starts(rhs \o a) \subseteq Starts(<<x>> \o a)
    BY <2>3, <2>5, <2>8, <2>9, StartsJoin
  <2> QED BY <1>2, <2>1, <2>5, <2>7, <2>10
<1>7. Has(D, s, w, u)
  BY <1>1, <1>3, <1>4, <1>5, <1>6 DEF Yields, IsDerivation
<1> QED BY <1>2, <1>7 DEF Yields

-----------------------------------------------------------------------------
(* What a parser has read. *)

LEMMA FormMoves ==
  ASSUME GrammarBuilt, NEW r \in Forms, NEW t \in Forms, NEW x \in Symbols
  PROVE  Append(r, x) \o t = r \o (<<x>> \o t) /\ Append(r, x) \in Forms
<1>1. PICK S : S = Symbols
  OBVIOUS
<1> QED BY <1>1, SeqMoves DEF Forms

LEMMA StringMoves ==
  ASSUME NEW r \in Strings, NEW t \in Strings, NEW x \in 1 .. Len(terms)
  PROVE  Append(r, x) \o t = r \o (<<x>> \o t) /\ Append(r, x) \in Strings
<1>1. PICK S : S = 1 .. Len(terms)
  OBVIOUS
<1>2. r \in Seq(S) /\ t \in Seq(S) /\ x \in S
  BY <1>1 DEF Strings
<1>3. Append(r, x) \o t = r \o (<<x>> \o t) /\ Append(r, x) \in Seq(S)
  BY <1>2, SeqMoves
<1> QED BY <1>1, <1>3 DEF Strings

\* What is left of the input, with the lookahead.
Left(x, s) == IF x = _EOI_ THEN <<>> ELSE <<x>> \o s
IsInput(x, s) ==
  x \in 0 .. Len(terms) /\ s \in Strings /\ (x = _EOI_ => s = <<>>)

LEMMA LeftNext ==
  ASSUME GrammarBuilt, NEW s \in Strings
  PROVE  Left(Next_token(s), Without(s)) = s /\ IsInput(Next_token(s), Without(s))
<1>1. s \in Seq(1 .. Len(terms))
  BY DEF Strings
<1>2. CASE s = <<>>
  <2>1. Next_token(s) = _EOI_ /\ Without(s) = <<>>
    BY <1>2 DEF Next_token, Without
  <2>2. _EOI_ \in 0 .. Len(terms)
    <3>1. Len(terms) \in Nat
      BY SymbolKinds
    <3> QED BY <3>1 DEF _EOI_
  <2> QED BY <1>1, <1>2, <2>1, <2>2 DEF Left, IsInput, Strings
<1>3. CASE s # <<>>
  <2>1. Head(s) \in 1 .. Len(terms) /\ Tail(s) \in Seq(1 .. Len(terms)) /\ s = <<Head(s)>> \o Tail(s)
    BY <1>1, <1>3, SeqSplit
  <2>2. Next_token(s) = Head(s) /\ Without(s) = Tail(s)
    BY <1>3 DEF Next_token, Without
  <2>3. Head(s) # _EOI_ /\ Head(s) \in 0 .. Len(terms)
    BY <2>1 DEF _EOI_
  <2> QED BY <2>1, <2>2, <2>3 DEF Left, IsInput, Strings
<1> QED BY <1>2, <1>3

\* A stack s, with the input x and r, the trace t and the stream g: what was read
\* of the stream, and what s will derive, make up what the first nonterminal derives.
Made_up(g, s, x, r, t, c) ==
  /\ c \in Strings /\ g = c \o Left(x, r)
  /\ \A w, u : Yields(s, w, u) => Yields(<<MINNONTERM>>, t \o w, c \o u)
Consumed(g, s, x, r, t) ==
  s \in Forms /\ t \in Forms /\ IsInput(x, r) /\ \E c : Made_up(g, s, x, r, t, c)

LEMMA ConsumedStart ==
  ASSUME GrammarBuilt, MINNONTERM \in Nonterms, NEW g \in Strings
  PROVE  Consumed(g, <<MINNONTERM>>, Next_token(g), Without(g), <<>>)
<1>1. PICK s : s = <<MINNONTERM>>
  OBVIOUS
<1>2. s \in Forms
  BY <1>1, SymbolKinds DEF Forms
<1>3. <<>> \in Forms /\ <<>> \in Strings
  BY DEF Forms, Strings
<1>4. IsInput(Next_token(g), Without(g)) /\ Left(Next_token(g), Without(g)) = g
  BY LeftNext
<1>5. <<>> \o g = g
  BY SeqAssociates DEF Strings
<1>6. ASSUME NEW w, NEW u, Yields(s, w, u)
      PROVE  Yields(<<MINNONTERM>>, <<>> \o w, <<>> \o u)
  <2>1. w \in Seq(Symbols) /\ u \in Seq(1 .. Len(terms))
    BY <1>6 DEF Yields, Forms, Strings
  <2>2. <<>> \o w = w /\ <<>> \o u = u
    BY <2>1, SeqAssociates
  <2> QED BY <1>1, <1>6, <2>2
<1>7. Made_up(g, s, Next_token(g), Without(g), <<>>, <<>>)
  BY <1>3, <1>4, <1>5, <1>6 DEF Made_up
<1> QED BY <1>1, <1>2, <1>3, <1>4, <1>7 DEF Consumed

LEMMA ConsumedAct ==
  ASSUME GrammarBuilt, NEW g, NEW s, NEW x, NEW r, NEW t, Consumed(g, s, x, r, t),
         s # <<>>, Head(s) \in ActNumbers
  PROVE  Consumed(g, Tail(s), x, r, Append(t, Head(s)))
<1>1. PICK c : Made_up(g, s, x, r, t, c)
  BY DEF Consumed
<1>2. PICK a : a = Head(s)
  OBVIOUS
<1>3. PICK q : q = Tail(s)
  OBVIOUS
<1>4. a \in ActNumbers /\ a \in Symbols /\ q \in Forms /\ s = <<a>> \o q
  BY <1>2, <1>3, SeqSplit DEF Consumed, Forms
<1>5. t \in Seq(Symbols) /\ Append(t, a) \in Forms
  BY <1>4, SeqMoves DEF Consumed, Forms
<1>6. ASSUME NEW w, NEW u, Yields(q, w, u)
      PROVE  Yields(<<MINNONTERM>>, Append(t, a) \o w, c \o u)
  <2>1. Yields(s, <<a>> \o w, u)
    BY <1>4, <1>6, YieldsAct
  <2>2. Yields(<<MINNONTERM>>, t \o (<<a>> \o w), c \o u)
    BY <1>1, <2>1 DEF Made_up
  <2>3. Append(t, a) \o w = t \o (<<a>> \o w)
    BY <1>4, <1>5, <1>6, SeqMoves DEF Yields, Forms
  <2> QED BY <2>2, <2>3
<1>7. Made_up(g, q, x, r, Append(t, a), c)
  BY <1>1, <1>6 DEF Made_up
<1> QED BY <1>2, <1>3, <1>4, <1>5, <1>7 DEF Consumed

LEMMA ConsumedToken ==
  ASSUME GrammarBuilt, NEW g, NEW s, NEW x, NEW r, NEW t, Consumed(g, s, x, r, t),
         s # <<>>, Head(s) = x, x \in 1 .. Len(terms)
  PROVE  Consumed(g, Tail(s), Next_token(r), Without(r), Append(t, x))
<1>1. PICK c : Made_up(g, s, x, r, t, c)
  BY DEF Consumed
<1>2. PICK q : q = Tail(s)
  OBVIOUS
<1>3. x \in Symbols /\ q \in Forms /\ s = <<x>> \o q
  BY <1>2, SeqSplit DEF Consumed, Forms
<1>4. t \in Seq(Symbols) /\ Append(t, x) \in Forms
  BY <1>3, SeqMoves DEF Consumed, Forms
<1>5. r \in Strings /\ x # _EOI_
  BY DEF Consumed, IsInput, _EOI_
<1>6. IsInput(Next_token(r), Without(r)) /\ Left(Next_token(r), Without(r)) = r
  BY <1>5, LeftNext
<1>7. c \in Strings /\ r \in Strings /\ g = c \o (<<x>> \o r)
  BY <1>1, <1>5 DEF Made_up, Left
<1>8. PICK d : d = Append(c, x)
  OBVIOUS
<1>9. d \in Strings /\ g = d \o r
  BY <1>7, <1>8, StringMoves
<1>10. ASSUME NEW w, NEW u, Yields(q, w, u)
       PROVE  Yields(<<MINNONTERM>>, Append(t, x) \o w, d \o u)
  <2>1. Yields(s, <<x>> \o w, <<x>> \o u)
    BY <1>3, <1>10, YieldsToken
  <2>2. Yields(<<MINNONTERM>>, t \o (<<x>> \o w), c \o (<<x>> \o u))
    BY <1>1, <2>1 DEF Made_up
  <2>3. Append(t, x) \o w = t \o (<<x>> \o w)
    BY <1>3, <1>10, FormMoves DEF Yields, Consumed
  <2>4. d \o u = c \o (<<x>> \o u)
    BY <1>7, <1>8, <1>10, StringMoves DEF Yields
  <2> QED BY <2>2, <2>3, <2>4
<1>11. Made_up(g, q, Next_token(r), Without(r), Append(t, x), d)
  BY <1>6, <1>9, <1>10 DEF Made_up
<1> QED BY <1>2, <1>3, <1>4, <1>6, <1>11 DEF Consumed

LEMMA ConsumedRule ==
  ASSUME GrammarBuilt, NEW g, NEW s, NEW x, NEW r, NEW t, Consumed(g, s, x, r, t),
         s # <<>>, NEW n \in 1 .. Len(prods), prods[n].lhs = Head(s)
  PROVE  Consumed(g, prods[n].rhs \o Tail(s), x, r, t)
<1>1. PICK c : Made_up(g, s, x, r, t, c)
  BY DEF Consumed
<1>2. PICK q : q = Tail(s)
  OBVIOUS
<1>3. q \in Forms /\ s = <<prods[n].lhs>> \o q
  BY <1>2, SeqSplit DEF Consumed, Forms
<1>4. PICK p : p = prods[n].rhs \o q
  OBVIOUS
<1>5. p \in Forms
  BY <1>3, <1>4, RhsForm, SeqAssociates DEF Forms
<1>6. ASSUME NEW w, NEW u, Yields(p, w, u) PROVE Yields(s, w, u)
  BY <1>3, <1>4, <1>6, YieldsRule
<1>7. Made_up(g, p, x, r, t, c)
  BY <1>1, <1>6 DEF Made_up
<1> QED BY <1>2, <1>4, <1>5, <1>7 DEF Consumed

\* At the end nothing is left to derive.
LEMMA ConsumedAll ==
  ASSUME GrammarBuilt, NEW g, NEW x, NEW r, NEW t, Consumed(g, <<>>, x, r, t)
  PROVE  \E c : g = c \o Left(x, r) /\ Yields(<<MINNONTERM>>, t, c)
<1>1. PICK c : Made_up(g, <<>>, x, r, t, c)
  BY DEF Consumed
<1>2. Yields(<<MINNONTERM>>, t \o <<>>, c \o <<>>)
  BY <1>1, YieldsNone DEF Made_up
<1>3. t \in Seq(Symbols) /\ c \in Seq(1 .. Len(terms))
  BY <1>1 DEF Consumed, Made_up, Forms, Strings
<1>4. t \o <<>> = t /\ c \o <<>> = c
  BY <1>3
<1> QED BY <1>1, <1>2, <1>4 DEF Made_up

-----------------------------------------------------------------------------
\* What comes after a nonterminal on a stack s that fits begins with tokens that may
\* follow it.
From(s, i) == SubSeq(s, i + 1, Len(s))
Fits(s) ==
  \A i \in 1 .. Len(s) : s[i] \in Nonterms => Starts(From(s, i)) \ {EPSILON} \subseteq follow[s[i]]

LEMMA FromIs ==
  ASSUME NEW s \in Forms, NEW i \in 1 .. Len(s)
  PROVE  From(s, i) \in Forms
BY DEF From, Forms

LEMMA FromFront ==
  ASSUME NEW r \in Forms, NEW s \in Forms
  PROVE  /\ r \o s \in Forms /\ Len(r \o s) = Len(r) + Len(s)
         /\ \A i \in 1 .. Len(r) : (r \o s)[i] = r[i] /\ From(r \o s, i) = From(r, i) \o s
         /\ \A j \in 1 .. Len(s) :
              (r \o s)[Len(r) + j] = s[j] /\ From(r \o s, Len(r) + j) = From(s, j)
<1>1. r \in Seq(Symbols) /\ s \in Seq(Symbols)
  BY DEF Forms
<1>2. PICK l \in Nat : l = Len(r)
  BY <1>1
<1>3. PICK m \in Nat : m = Len(s)
  BY <1>1
<1>4. PICK q : q = r \o s
  OBVIOUS
<1>5. /\ q \in Seq(Symbols) /\ Len(q) = l + m
      /\ \A i \in 1 .. l : q[i] = r[i]
      /\ \A i \in 1 .. m : q[l + i] = s[i]
  BY <1>1, <1>2, <1>3, <1>4
<1>6. ASSUME NEW i \in 1 .. l PROVE From(q, i) = From(r, i) \o s
  <2>1. PICK a : a = From(q, i)
    OBVIOUS
  <2>2. PICK b : b = From(r, i)
    OBVIOUS
  <2>3. a \in Seq(Symbols) /\ Len(a) = l + m - i /\ \A k \in 1 .. l + m - i : a[k] = q[i + k]
    BY <1>5, <2>1 DEF From
  <2>4. b \in Seq(Symbols) /\ Len(b) = l - i /\ \A k \in 1 .. l - i : b[k] = r[i + k]
    BY <1>1, <1>2, <2>2 DEF From
  <2>5. PICK d : d = b \o s
    OBVIOUS
  <2>6. /\ d \in Seq(Symbols) /\ Len(d) = (l - i) + m
        /\ \A k \in 1 .. l - i : d[k] = b[k]
        /\ \A k \in 1 .. m : d[(l - i) + k] = s[k]
    <3>1. PICK h \in Nat : h = l - i
      OBVIOUS
    <3>2. /\ d \in Seq(Symbols) /\ Len(d) = h + m
          /\ \A k \in 1 .. h : d[k] = b[k]
          /\ \A k \in 1 .. m : d[h + k] = s[k]
      <4>1. b \in Seq(Symbols) /\ Len(b) = h
        BY <2>4, <3>1
      <4>2. IsSeq(b) /\ IsSeq(s)
        BY <1>1, <4>1 DEF IsSeq
      <4>3. /\ Len(d) = Len(b) + Len(s)
            /\ \A k \in 1 .. Len(b) : d[k] = b[k]
            /\ \A k \in 1 .. Len(s) : d[Len(b) + k] = s[k]
        BY <2>5, <4>2, SeqConcat
      <4>4. d \in Seq(Symbols)
        BY <1>1, <2>5, <4>1
      <4> QED BY <1>3, <4>1, <4>3, <4>4
    <3> QED BY <3>1, <3>2
  <2>7. ASSUME NEW k \in 1 .. l + m - i PROVE a[k] = d[k]
    <3>1. CASE k \in 1 .. l - i
      <4>1. i + k \in 1 .. l
        BY <3>1
      <4>2. a[k] = q[i + k] /\ q[i + k] = r[i + k]
        BY <1>5, <2>3, <4>1
      <4>3. d[k] = r[i + k]
        BY <2>4, <2>6, <3>1
      <4> QED BY <4>2, <4>3
    <3>2. CASE k \notin 1 .. l - i
      <4>1. PICK j \in 1 .. m : k = (l - i) + j
        <5>1. k - (l - i) \in 1 .. m /\ k = (l - i) + (k - (l - i))
          BY <3>2
        <5> QED BY <5>1
      <4>2. i + k = l + j
        BY <4>1
      <4>3. a[k] = q[l + j] /\ q[l + j] = s[j]
        BY <1>5, <2>3, <4>1, <4>2
      <4>4. d[k] = s[j]
        BY <2>6, <4>1
      <4> QED BY <4>3, <4>4
    <3> QED BY <3>1, <3>2
  <2>8. a = d
    <3>1. PICK h \in Int : h = l + m - i
      OBVIOUS
    <3>2. a \in Seq(Symbols) /\ Len(a) = h
      BY <2>3, <3>1
    <3>3. d \in Seq(Symbols) /\ Len(d) = h
      BY <2>6, <3>1
    <3>4. \A k \in 1 .. h : a[k] = d[k]
      BY <2>7, <3>1
    <3> QED BY <3>2, <3>3, <3>4
  <2> QED BY <2>1, <2>2, <2>5, <2>8
<1>7. ASSUME NEW j \in 1 .. m PROVE From(q, l + j) = From(s, j)
  <2>1. PICK a : a = From(q, l + j)
    OBVIOUS
  <2>2. PICK b : b = From(s, j)
    OBVIOUS
  <2>3. a \in Seq(Symbols) /\ Len(a) = m - j /\ \A k \in 1 .. m - j : a[k] = q[(l + j) + k]
    BY <1>5, <2>1 DEF From
  <2>4. b \in Seq(Symbols) /\ Len(b) = m - j /\ \A k \in 1 .. m - j : b[k] = s[j + k]
    <3>1. b = SubSeq(s, j + 1, m)
      BY <1>3, <2>2 DEF From
    <3> QED BY <1>1, <1>3, <3>1
  <2>5. ASSUME NEW k \in 1 .. m - j PROVE a[k] = b[k]
    <3>1. PICK i \in 1 .. m : i = j + k
      BY <2>5
    <3>2. (l + j) + k = l + i
      BY <3>1
    <3>3. a[k] = q[l + i] /\ q[l + i] = s[i] /\ b[k] = s[i]
      BY <1>5, <2>3, <2>4, <3>1, <3>2
    <3> QED BY <3>3
  <2>6. a = b
    BY <2>3, <2>4, <2>5
  <2> QED BY <2>1, <2>2, <2>6
<1> QED BY <1>2, <1>3, <1>4, <1>5, <1>6, <1>7 DEF Forms

-----------------------------------------------------------------------------
(* What a parser still expects. *)

\* A sequence q with one symbol more than s.
Onto(q, x, s) ==
  /\ Len(q) = 1 + Len(s) /\ q[1] = x /\ From(q, 1) = s
  /\ \A j \in 1 .. Len(s) : q[1 + j] = s[j] /\ From(q, 1 + j) = From(s, j)
LEMMA OneFront ==
  ASSUME NEW x \in Symbols, NEW s \in Forms
  PROVE  Onto(<<x>> \o s, x, s)
<1>1. PICK o : o = <<x>>
  OBVIOUS
<1>2. o \in Forms
  BY <1>1 DEF Forms
<1>9. Len(o) = 1 /\ o[1] = x
  BY <1>1 DEF Forms
<1>3. PICK q : q = o \o s
  OBVIOUS
<1>4. /\ Len(q) = Len(o) + Len(s)
      /\ \A i \in 1 .. Len(o) : q[i] = o[i] /\ From(q, i) = From(o, i) \o s
      /\ \A j \in 1 .. Len(s) : q[Len(o) + j] = s[j] /\ From(q, Len(o) + j) = From(s, j)
  BY <1>2, <1>3, FromFront
<1>5. 1 \in 1 .. Len(o)
  BY <1>9
<1>6. From(o, 1) = <<>>
  BY <1>2, <1>9 DEF From, Forms
<1>7. <<>> \o s = s
  BY SeqAssociates DEF Forms
<1>8. Onto(q, x, s)
  BY <1>9, <1>4, <1>5, <1>6, <1>7 DEF Onto
<1> QED BY <1>1, <1>3, <1>8

LEMMA FitsTail ==
  ASSUME GrammarBuilt, NEW x \in Symbols, NEW s \in Forms, Fits(<<x>> \o s)
  PROVE  Fits(s)
<1>3. PICK q : q = <<x>> \o s
  OBVIOUS
<1>4. /\ Len(q) = 1 + Len(s)
      /\ \A j \in 1 .. Len(s) : q[1 + j] = s[j] /\ From(q, 1 + j) = From(s, j)
  <2>1. Onto(q, x, s)
    BY <1>3, OneFront, Zenon
  <2> QED BY <2>1 DEF Onto
<1>5. Fits(q)
  BY <1>3
<1> SUFFICES ASSUME NEW j \in 1 .. Len(s), s[j] \in Nonterms
             PROVE  Starts(From(s, j)) \ {EPSILON} \subseteq follow[s[j]]
  BY DEF Fits
<1>6. 1 + j \in 1 .. Len(q)
  BY <1>4, FormIs
<1>7. q[1 + j] \in Nonterms
  BY <1>4
<1>8. Starts(From(q, 1 + j)) \ {EPSILON} \subseteq follow[q[1 + j]]
  BY <1>5, <1>6, <1>7 DEF Fits
<1> QED BY <1>4, <1>8

\* What comes after a symbol of a right-hand side.
LEMMA AfterFollows ==
  ASSUME GrammarBuilt, SetsLeast, NEW n \in 1 .. Len(prods), NEW i \in 1 .. Len(prods[n].rhs),
         NEW B \in Nonterms, prods[n].rhs[i] = B
  PROVE  /\ Begins(From(prods[n].rhs, i)) \ {EPSILON} \subseteq follow[B]
         /\ Nullable(From(prods[n].rhs, i)) => follow[prods[n].lhs] \subseteq follow[B]
<1>1. PICK G \in FollowSets : IsLeast(G) /\ follow = [A \in Nonterms |-> G[A] \ {EPSILON}]
  BY DEF SetsLeast
<1>2. PICK u : u = <<n, i>>
  OBVIOUS
<1>3. u[1] = n /\ u[2] = i
  BY <1>2
<1>4. PICK A \in Nonterms : A = prods[n].lhs
  BY RhsForm
<1>5. /\ IsSeq(prods) /\ IsSeq(prods[n].rhs) /\ Len(prods[n].rhs) <= MAXRHS
      /\ Len(prods[n].rhs) \in Nat
  BY RuleIs, SeqIs DEF GrammarBuilt, WellBuilt, Built
<1>6. n \in DOMAIN prods /\ i \in DOMAIN prods[n].rhs /\ i \in 1 .. MAXRHS
  BY <1>5, SeqIs, NumbersAssumption
<1>7. u \in Uses(B)
  BY <1>2, <1>3, <1>6 DEF Uses
<1>8. After(n, i) = From(prods[n].rhs, i)
  BY DEF After, From
<1>9. Started(G) /\ FollowAt(G, A)
  BY <1>1 DEF IsLeast, FollowClosed
<1>10. Begins(After(n, i)) \subseteq G[B]
  BY <1>3, <1>7, <1>9 DEF Started
<1>11. ASSUME Nullable(After(n, i)) PROVE G[A] \subseteq G[B]
  <2>1. n \in Productions(A)
    BY <1>4 DEF Productions
  <2>2. B \in Trailing(A)
    BY <1>3, <1>7, <1>11, <2>1 DEF Trailing
  <2> QED BY <1>9, <2>2 DEF FollowAt
<1> QED BY <1>1, <1>4, <1>8, <1>10, <1>11

LEMMA FitsRule ==
  ASSUME GrammarBuilt, SetsLeast, NEW n \in 1 .. Len(prods), NEW s \in Forms,
         Fits(<<prods[n].lhs>> \o s)
  PROVE  Fits(prods[n].rhs \o s)
<1>1. PICK A : A = prods[n].lhs
  OBVIOUS
<1>2. PICK r : r = prods[n].rhs
  OBVIOUS
<1>3. A \in Nonterms /\ A \in Symbols /\ r \in Forms
  BY <1>1, <1>2, RhsForm, SymbolKinds
<1>4. Fits(s)
  BY <1>1, <1>3, FitsTail
<1>5. Starts(s) \ {EPSILON} \subseteq follow[A]
  <2>1. PICK q : q = <<A>> \o s
    OBVIOUS
  <2>2. Len(q) = 1 + Len(s) /\ q[1] = A /\ From(q, 1) = s
    <3>1. Onto(q, A, s)
      BY <1>3, <2>1, OneFront, Zenon
    <3> QED BY <3>1 DEF Onto
  <2>3. 1 \in 1 .. Len(q)
    BY <2>2, FormIs
  <2>4. Fits(q)
    BY <1>1, <2>1
  <2> QED BY <1>3, <2>2, <2>3, <2>4 DEF Fits
<1>6. PICK q : q = r \o s
  OBVIOUS
<1>7. PICK l \in Nat : l = Len(r)
  BY <1>3, FormIs
<1>8. PICK m \in Nat : m = Len(s)
  BY FormIs
<1>9. /\ Len(q) = l + m
      /\ \A i \in 1 .. l : q[i] = r[i] /\ From(q, i) = From(r, i) \o s
      /\ \A j \in 1 .. m : q[l + j] = s[j] /\ From(q, l + j) = From(s, j)
  BY <1>3, <1>6, <1>7, <1>8, FromFront
<1>10. ASSUME NEW i \in 1 .. Len(q), q[i] \in Nonterms
       PROVE  Starts(From(q, i)) \ {EPSILON} \subseteq follow[q[i]]
  <2>1. CASE i \in 1 .. l
    <3>1. PICK B \in Nonterms : B = r[i]
      BY <1>9, <1>10, <2>1
    <3>2. PICK t : t = From(r, i)
      OBVIOUS
    <3>3. t \in Forms
      BY <1>3, <1>7, <2>1, <3>2, FromIs
    <3>4. /\ Begins(t) \ {EPSILON} \subseteq follow[B]
          /\ Nullable(t) => follow[A] \subseteq follow[B]
      BY <1>1, <1>2, <1>7, <2>1, <3>1, <3>2, AfterFollows
    <3>5. Starts(t \o s) = Begins(t) \cup IF Nullable(t) THEN Starts(s) ELSE {}
      BY <3>3, StartsJoin
    <3>6. Starts(t \o s) \ {EPSILON} \subseteq follow[B]
      BY <1>5, <3>4, <3>5
    <3> QED BY <1>9, <2>1, <3>1, <3>2, <3>6
  <2>2. CASE i \notin 1 .. l
    <3>1. PICK j \in 1 .. m : i = l + j
      <4>1. i - l \in 1 .. m /\ i = l + (i - l)
        BY <1>9, <2>2
      <4> QED BY <4>1
    <3>2. q[i] = s[j] /\ From(q, i) = From(s, j)
      BY <1>9, <3>1
    <3>3. Starts(From(s, j)) \ {EPSILON} \subseteq follow[s[j]]
      BY <1>4, <1>8, <1>10, <3>2 DEF Fits
    <3> QED BY <3>2, <3>3
  <2> QED BY <2>1, <2>2
<1>11. Fits(q)
  BY <1>10 DEF Fits
<1> QED BY <1>2, <1>6, <1>11

-----------------------------------------------------------------------------
\* A stack that still derives what is left of the input.
Expected(s, x, r) ==
  s \in Forms /\ IsInput(x, r) /\ Fits(s) /\ \E w : Yields(s, w, Left(x, r))

LEMMA ExpectedStart ==
  ASSUME GrammarBuilt, SetsLeast, goal \in Nonterms, NEW g \in Strings, NEW v, Yields(<<goal>>, v, g)
  PROVE  Expected(<<goal>>, Next_token(g), Without(g))
<1>1. PICK s : s = <<goal>>
  OBVIOUS
<1>2. s \in Forms /\ Len(s) = 1 /\ s[1] = goal
  BY <1>1, SymbolKinds DEF Forms
<1>3. IsInput(Next_token(g), Without(g)) /\ Left(Next_token(g), Without(g)) = g
  BY LeftNext
<1>4. From(s, 1) = <<>>
  BY <1>2 DEF From, Forms
<1>5. _EOI_ \in follow[goal]
  <2>1. PICK G \in FollowSets : IsLeast(G) /\ follow = [A \in Nonterms |-> G[A] \ {EPSILON}]
    BY DEF SetsLeast
  <2>2. _EOI_ \in G[goal]
    BY <2>1 DEF IsLeast, FollowClosed, Started
  <2>3. EPSILON # _EOI_
    BY SymbolKinds DEF EPSILON, _EOI_
  <2> QED BY <2>1, <2>2, <2>3
<1>6. Fits(s)
  <2>1. \A i \in 1 .. Len(s) : i = 1
    BY <1>2
  <2>2. Starts(From(s, 1)) \subseteq follow[s[1]]
    BY <1>2, <1>4, <1>5, StartsNone
  <2> QED BY <2>1, <2>2 DEF Fits
<1> QED BY <1>1, <1>2, <1>3, <1>6 DEF Expected

LEMMA ExpectedAct ==
  ASSUME GrammarBuilt, NEW s, NEW x, NEW r, Expected(s, x, r), s # <<>>, Head(s) \in ActNumbers
  PROVE  Expected(Tail(s), x, r)
<1>1. PICK a : a = Head(s)
  OBVIOUS
<1>2. PICK q : q = Tail(s)
  OBVIOUS
<1>3. a \in Symbols /\ q \in Forms /\ s = <<a>> \o q
  BY <1>1, <1>2, SeqSplit DEF Expected, Forms
<1>4. PICK w : Yields(s, w, Left(x, r))
  BY DEF Expected
<1>5. Opens(s, w, Left(x, r))
  BY <1>4, YieldsInverts DEF Inverts
<1>6. a \notin 1 .. Len(terms) /\ a \notin Nonterms
  BY <1>1, SymbolKinds
<1>7. \A n \in Productions(a) : FALSE
  BY <1>6, RhsForm DEF Productions
<1>8. \E v : Yields(q, v, Left(x, r))
  BY <1>1, <1>2, <1>5, <1>6, <1>7 DEF Opens
<1>9. Fits(q)
  BY <1>3, FitsTail DEF Expected
<1> QED BY <1>2, <1>3, <1>8, <1>9 DEF Expected

LEMMA ExpectedToken ==
  ASSUME GrammarBuilt, NEW s, NEW x, NEW r, Expected(s, x, r), s # <<>>,
         Head(s) \in 1 .. Len(terms)
  PROVE  Head(s) = x /\ Expected(Tail(s), Next_token(r), Without(r))
<1>1. PICK a : a = Head(s)
  OBVIOUS
<1>2. PICK q : q = Tail(s)
  OBVIOUS
<1>3. a \in Symbols /\ q \in Forms /\ s = <<a>> \o q
  BY <1>1, <1>2, SeqSplit DEF Expected, Forms
<1>4. PICK w : Yields(s, w, Left(x, r))
  BY DEF Expected
<1>5. Opens(s, w, Left(x, r))
  BY <1>4, YieldsInverts DEF Inverts
<1>6. a \notin ActNumbers /\ a \notin Nonterms
  BY <1>1, SymbolKinds
<1>7. \A n \in Productions(a) : FALSE
  BY <1>6, RhsForm DEF Productions
<1>8. PICK v, y : Left(x, r) = <<a>> \o y /\ Yields(q, v, y)
  BY <1>1, <1>2, <1>5, <1>6, <1>7 DEF Opens
<1>9. r \in Strings /\ y \in Strings
  BY <1>8 DEF Expected, IsInput, Yields
<1>10. x = a /\ r = y
  <2>1. PICK S : S = 1 .. Len(terms)
    OBVIOUS
  <2>2. y \in Seq(S) /\ r \in Seq(S) /\ a \in S
    BY <1>1, <1>9, <2>1 DEF Strings
  <2>3. <<a>> \o y # <<>> /\ Head(<<a>> \o y) = a /\ Tail(<<a>> \o y) = y
    BY <2>2, SeqFront
  <2>4. x # _EOI_ /\ Left(x, r) = <<x>> \o r
    BY <1>8, <2>3 DEF Left
  <2>5. x \in S
    BY <2>1, <2>4, SymbolKinds DEF Expected, IsInput, _EOI_
  <2>6. Head(<<x>> \o r) = x /\ Tail(<<x>> \o r) = r
    BY <2>2, <2>5, SeqFront
  <2> QED BY <1>8, <2>3, <2>4, <2>6
<1>11. IsInput(Next_token(r), Without(r)) /\ Left(Next_token(r), Without(r)) = r
  BY <1>9, LeftNext
<1>12. Fits(q)
  BY <1>3, FitsTail DEF Expected
<1> QED BY <1>1, <1>2, <1>3, <1>8, <1>10, <1>11, <1>12 DEF Expected

\* A nonterminal is replaced by the right-hand side from which the input derives.
LEMMA ExpectedRule ==
  ASSUME GrammarBuilt, FirstLeast, SetsLeast, Answers, Refused = {}, Len(prods) < YYF,
         NEW s, NEW x, NEW r, Expected(s, x, r), s # <<>>, Head(s) \in Nonterms
  PROVE  /\ yy_next(Head(s), x) # YYF
         /\ Expected(prods[yy_next(Head(s), x) + 1].rhs \o Tail(s), x, r)
<1>1. PICK A \in Nonterms : A = Head(s)
  OBVIOUS
<1>2. PICK q : q = Tail(s)
  OBVIOUS
<1>3. A \in Symbols /\ q \in Forms /\ s = <<A>> \o q
  BY <1>1, <1>2, SeqSplit DEF Expected, Forms
<1>4. PICK w : Yields(s, w, Left(x, r))
  BY DEF Expected
<1>5. Opens(s, w, Left(x, r))
  BY <1>4, YieldsInverts DEF Inverts
<1>6. A \notin ActNumbers /\ A \notin 1 .. Len(terms)
  BY SymbolKinds
<1>7. PICK n \in Productions(A) : Yields(prods[n].rhs \o q, w, Left(x, r))
  BY <1>1, <1>2, <1>5, <1>6 DEF Opens
<1>8. n \in 1 .. Len(prods) /\ prods[n].lhs = A /\ prods[n].rhs \in Forms
  BY <1>7, RhsForm DEF Productions
<1>9. Next_token(Left(x, r)) = x
  <2>1. CASE x = _EOI_
    BY <2>1 DEF Left, Next_token
  <2>2. CASE x # _EOI_
    <3>1. x \in 1 .. Len(terms) /\ r \in Seq(1 .. Len(terms))
      BY <2>2, SymbolKinds DEF Expected, IsInput, Strings, _EOI_
    <3>2. <<x>> \o r # <<>> /\ Head(<<x>> \o r) = x
      BY <3>1, SeqFront
    <3> QED BY <2>2, <3>2 DEF Left, Next_token
  <2> QED BY <2>1, <2>2
<1>10. x \in Starts(prods[n].rhs \o q)
  BY <1>7, <1>9, YieldsStarts
<1>11. Starts(q) \ {EPSILON} \subseteq follow[A]
  <2>1. Len(s) = 1 + Len(q) /\ s[1] = A /\ From(s, 1) = q
    <3>1. Onto(s, A, q)
      BY <1>3, OneFront, Zenon
    <3> QED BY <3>1 DEF Onto
  <2>2. 1 \in 1 .. Len(s)
    BY <1>3, <2>1, FormIs
  <2> QED BY <2>1, <2>2 DEF Expected, Fits
<1>12. x # EPSILON /\ x \in Columns
  BY SymbolKinds DEF Expected, IsInput, EPSILON, Columns
<1>13. x \in select[n]
  <2>1. n \in DOMAIN prods
    BY <1>8, SeqIs DEF GrammarBuilt, WellBuilt, Built
  <2>2. x \in Begins(prods[n].rhs) \/ (Nullable(prods[n].rhs) /\ x \in Starts(q))
    BY <1>3, <1>8, <1>10, StartsJoin
  <2>3. x \in Select(n, follow)
    BY <1>8, <1>11, <1>12, <2>2 DEF Select
  <2> QED BY <2>1, <2>3 DEF SetsLeast
<1>14. n \in Claims(A, x)
  BY <1>7, <1>13 DEF Claims
<1>15. PICK m \in 1 .. Len(prods) : LastOf(A, x, m) /\ yy_next(A, x) = (m - 1) % TTYPE
  BY <1>12, <1>14 DEF Answers
<1>16. m = n
  <2>1. n <= m /\ m \in Productions(A) /\ x \in select[m]
    BY <1>14, <1>15 DEF LastOf, Claims
  <2>2. CASE n < m
    <3>1. PICK c : c = <<x, n>>
      OBVIOUS
    <3>2. c[1] = x /\ c[2] = n /\ n \in DOMAIN prods
      BY <1>8, <3>1, SeqIs DEF GrammarBuilt, WellBuilt, Built
    <3>3. c \in Columns \X (DOMAIN prods)
      BY <1>12, <3>1, <3>2
    <3>4. c \in Refused
      BY <1>8, <1>13, <2>1, <2>2, <3>2, <3>3 DEF Refused
    <3> QED BY <3>4
  <2> QED BY <1>8, <1>15, <2>1, <2>2
<1>17. yy_next(A, x) = n - 1 /\ n - 1 # YYF
  <2>1. PICK k \in Nat : k = n - 1
    BY <1>8
  <2>2. k < TTYPE - 1
    BY <1>8, <2>1, SymbolKinds, LlamaAssumption DEF YYF
  <2>3. k % TTYPE = k
    BY <2>2, LlamaAssumption
  <2> QED BY <1>15, <1>16, <2>1, <2>2, <2>3 DEF YYF
<1>18. Fits(prods[n].rhs \o q)
  BY <1>3, <1>8, FitsRule DEF Expected
<1>19. prods[n].rhs \o q \in Forms
  BY <1>3, <1>8, SeqAssociates DEF Forms
<1>20. Expected(prods[n].rhs \o q, x, r)
  BY <1>7, <1>18, <1>19 DEF Expected
<1>21. yy_next(A, x) + 1 = n
  BY <1>8, <1>17
<1> QED BY <1>1, <1>2, <1>17, <1>20, <1>21

LEMMA ExpectedEnd ==
  ASSUME GrammarBuilt, NEW x, NEW r, Expected(<<>>, x, r)
  PROVE  Left(x, r) = <<>>
BY YieldsInverts DEF Expected, Inverts

-----------------------------------------------------------------------------
(* The language, from one state to the next. *)

\* While the grammar is the same, so is its language.
LEMMA SameForms ==
  ASSUME UNCHANGED <<file, nonterms, acts, prods>>
  PROVE  /\ Forms' = Forms /\ Strings' = Strings /\ ActNumbers' = ActNumbers
         /\ Nonterms' = Nonterms /\ Len(terms)' = Len(terms)
         /\ \A s, w, u : Yields(s, w, u)' <=> Yields(s, w, u)
<1>1. /\ Nonterms' = Nonterms /\ terms' = terms /\ ActNumbers' = ActNumbers
      /\ Len(terms)' = Len(terms)
  BY DEF Nonterms, terms, ActNumbers
<1>2. Symbols' = Symbols
  BY <1>1 DEF Symbols
<1>3. Forms' = Forms /\ Strings' = Strings
  BY <1>1, <1>2 DEF Forms, Strings
<1>4. Triples' = Triples
  BY <1>3 DEF Triples
<1>5. \A D : IsDerivation(D)' <=> IsDerivation(D)
  <2>1. \A D : HasNone(D)' <=> HasNone(D)
    BY DEF HasNone, Has
  <2>2. \A D : HasTokens(D)' <=> HasTokens(D)
    BY <1>1, <1>3 DEF HasTokens, Has
  <2>3. \A D : HasActs(D)' <=> HasActs(D)
    BY <1>1, <1>3 DEF HasActs, Has
  <2>4. \A D : HasRules(D)' <=> HasRules(D)
    BY <1>1, <1>3 DEF HasRules, Has
  <2> QED BY <2>1, <2>2, <2>3, <2>4 DEF IsDerivation
<1>6. \A s, w, u : Yields(s, w, u)' <=> Yields(s, w, u)
  BY <1>3, <1>4, <1>5 DEF Yields, Has
<1> QED BY <1>1, <1>3, <1>6

LEMMA SameConsumed ==
  ASSUME UNCHANGED <<file, nonterms, acts, prods>>
  PROVE  \A g, s, x, r, t : Consumed(g, s, x, r, t)' <=> Consumed(g, s, x, r, t)
<1>1. /\ Forms' = Forms /\ Strings' = Strings /\ Len(terms)' = Len(terms)
      /\ \A s, w, u : Yields(s, w, u)' <=> Yields(s, w, u)
  BY SameForms
<1>2. \A g, s, x, r, t, c : Made_up(g, s, x, r, t, c)' <=> Made_up(g, s, x, r, t, c)
  BY <1>1 DEF Made_up, Left
<1>3. \A x, s : IsInput(x, s)' <=> IsInput(x, s)
  BY <1>1 DEF IsInput
<1> QED BY <1>1, <1>2, <1>3 DEF Consumed

LEMMA SameExpected ==
  ASSUME UNCHANGED <<file, nonterms, acts, prods, first, follow>>
  PROVE  \A s, x, r : Expected(s, x, r)' <=> Expected(s, x, r)
<1>1. /\ Forms' = Forms /\ Strings' = Strings /\ Len(terms)' = Len(terms) /\ Nonterms' = Nonterms
      /\ \A s, w, u : Yields(s, w, u)' <=> Yields(s, w, u)
  BY SameForms
<1>2. \A t : Begins(t)' = Begins(t) /\ (Nullable(t)' <=> Nullable(t))
  BY SameBegins
<1>3. \A t : Starts(t)' = Starts(t)
  BY <1>2 DEF Starts
<1>4. EPSILON' = EPSILON
  BY DEF EPSILON, terms
<1>5. \A s : Fits(s)' <=> Fits(s)
  BY <1>1, <1>3, <1>4 DEF Fits, From
<1>6. \A x, s : IsInput(x, s)' <=> IsInput(x, s)
  BY <1>1 DEF IsInput
<1>7. \A x, r : Left(x, r)' = Left(x, r)
  BY DEF Left
<1> QED BY <1>1, <1>5, <1>6, <1>7 DEF Expected

\* And so are its conflicts.
LEMMA SameRefused ==
  ASSUME UNCHANGED <<file, prods, select>>
  PROVE  Refused' = Refused
<1>1. Columns' = Columns
  BY DEF Columns, terms
<1>2. \A A : Productions(A)' = Productions(A)
  BY DEF Productions
<1> QED BY <1>1, <1>2 DEF Refused

\* Without a conflict counted there is none.
LEMMA NoneRefused ==
  ASSUME GrammarBuilt, nerrors \in Nat, nerrors + Cardinality(Refused) = 0
  PROVE  Refused = {}
<1>1. IsSeq(prods) /\ Len(terms) \in Nat
  BY TermsCount, NumbersAssumption DEF GrammarBuilt, WellBuilt, Built
<1>2. Len(prods) \in Nat /\ DOMAIN prods = 1 .. Len(prods)
  BY <1>1, SeqIs
<1>3. IsFiniteSet(Columns) /\ IsFiniteSet(DOMAIN prods)
  BY <1>1, <1>2, FS_Interval DEF Columns
<1>4. IsFiniteSet(Columns \X (DOMAIN prods))
  BY <1>3, FS_Product
<1>5. Refused \subseteq Columns \X (DOMAIN prods)
  BY DEF Refused
<1>6. IsFiniteSet(Refused)
  BY <1>4, <1>5, FS_Subset
<1>7. Cardinality(Refused) \in Nat /\ Cardinality(Refused) = 0
  BY <1>6, FS_CardinalityType
<1> QED BY <1>6, <1>7, FS_EmptySet

-----------------------------------------------------------------------------
(* A parser and the language of its grammar. *)

Begun == {"parse", "popping", "synch", "accepted", "aborted", "returned", "overflow"}

\* Errors are counted, once a parser runs.
Counted ==
  /\ yynerrs \in Nat
  /\ at \notin Begun => trace = <<>> /\ yynerrs = 0
  /\ at \in {"popping", "synch"} => yynerrs > 0

\* Without an error, what was matched and done is derived.
Sound ==
  /\ at \in {"parse", "accepted"} /\ yynerrs = 0 /\ Len(prods) < YYF
       => Consumed(given, stack, lookahead, rest, trace)
  /\ at = "accepted" => stack = <<>>

\* Nothing else is left for a token that would select two productions.
Settled == at \in Begun \cup {"made"} /\ nerrors = 0 => Refused = {}

\* A sentence keeps the parser going.
Sentence == nerrors = 0 /\ WellMade /\ \E w : Yields(<<goal>>, w, given)
Complete ==
  at \in Begun /\ Sentence =>
    /\ yynerrs = 0 /\ at \in {"parse", "accepted", "returned", "overflow"}
    /\ at \in {"parse", "accepted"} => Expected(stack, lookahead, rest)

Speaks == Counted /\ Sound /\ Settled /\ Complete

\* Before a parser starts.
LEMMA SpeaksFirst == LlamaInit => Speaks
BY DEF LlamaInit, Init, Speaks, Counted, Sound, Settled, Complete, Begun

LEMMA SpeaksEarly ==
  ASSUME Speaks, at \notin Begun, at' \notin Begun \cup {"made"}, UNCHANGED parser
  PROVE  Speaks'
BY DEF Speaks, Counted, Sound, Settled, Complete, Begun, parser

LEMMA SpeaksTables ==
  ASSUME ByStage, Speaks, tables
  PROVE  Speaks'
<1>1. /\ at = "tables" /\ at' \in {"uncompilable", "made"} /\ UNCHANGED parser
      /\ UNCHANGED <<file, prods, select>> /\ nerrors' = nerrors + Cardinality(Refused)
  BY DEF tables
<1>2. GrammarBuilt /\ nerrors \in Nat
  BY DEF ByStage, GrammarBuilt, WellBuilt, WithinLimits, Built
<1>3. Refused' = Refused
  BY <1>1, SameRefused
<1>4. nerrors' = 0 => Refused' = {}
  BY <1>1, <1>2, <1>3, NoneRefused
<1> QED BY <1>1, <1>4 DEF Speaks, Counted, Sound, Settled, Complete, Begun, parser

\* What a parser keeps.
LEMMA SpeaksKept ==
  ASSUME UNCHANGED <<file, made, built, first, closing, sets>>
  PROVE  /\ UNCHANGED <<file, nonterms, acts, prods, goal, nerrors, first, follow, select>>
         /\ Refused' = Refused /\ (WellMade' <=> WellMade)
         /\ \A g, s, x, r, t : Consumed(g, s, x, r, t)' <=> Consumed(g, s, x, r, t)
         /\ \A s, x, r : Expected(s, x, r)' <=> Expected(s, x, r)
         /\ \A s, w, u : Yields(s, w, u)' <=> Yields(s, w, u)
<1>1. UNCHANGED <<file, nonterms, acts, prods, goal, nerrors, first, follow, select>>
  BY DEF built, sets
<1>2. WellMade' <=> WellMade
  BY <1>1 DEF WellMade
<1> QED BY <1>1, <1>2, SameRefused, SameConsumed, SameExpected, SameForms

\* A production that a row names is one of its nonterminal.
LEMMA AnswerRule ==
  ASSUME GrammarBuilt, Answers, Len(prods) < YYF, NEW A \in Nonterms, NEW t \in Columns,
         yy_next(A, t) # YYF
  PROVE  yy_next(A, t) + 1 \in 1 .. Len(prods) /\ prods[yy_next(A, t) + 1].lhs = A
<1>1. PICK n \in 1 .. Len(prods) : LastOf(A, t, n) /\ yy_next(A, t) = (n - 1) % TTYPE
  BY DEF Answers
<1>2. PICK k \in Nat : k = n - 1
  BY <1>1
<1>3. k < TTYPE - 1
  BY <1>1, <1>2, SymbolKinds, LlamaAssumption DEF YYF
<1>4. k % TTYPE = k
  BY <1>3, LlamaAssumption
<1>5. yy_next(A, t) + 1 = n
  BY <1>1, <1>2, <1>4
<1>6. prods[n].lhs = A
  BY <1>1 DEF LastOf, Claims, Productions
<1> QED BY <1>5, <1>6

\* A step of a parser that runs.
LEMMA SpeaksOn ==
  ASSUME Speaks, UnchangedInParse, at \in Begun, at' \in Begun,
         yynerrs' \in Nat, at' \in {"popping", "synch"} => yynerrs' > 0,
         at' = "accepted" => stack' = <<>>,
         at' \in {"parse", "accepted"} /\ yynerrs' = 0 /\ Len(prods) < YYF
           => Consumed(given, stack', lookahead', rest', trace'),
         Sentence => /\ yynerrs' = 0 /\ at' \in {"parse", "accepted", "returned", "overflow"}
                     /\ at' \in {"parse", "accepted"} => Expected(stack', lookahead', rest')
  PROVE  Speaks'
<1>1. UNCHANGED <<file, made, built, first, closing, sets>> /\ given' = given
  BY DEF UnchangedInParse
<1>2. /\ UNCHANGED <<file, nonterms, acts, prods, goal, nerrors, first, follow, select>>
      /\ Refused' = Refused /\ (WellMade' <=> WellMade)
      /\ \A g, s, x, r, t : Consumed(g, s, x, r, t)' <=> Consumed(g, s, x, r, t)
      /\ \A s, x, r : Expected(s, x, r)' <=> Expected(s, x, r)
      /\ \A s, w, u : Yields(s, w, u)' <=> Yields(s, w, u)
  BY <1>1, SpeaksKept
<1>3. PICK s : s = stack'
  OBVIOUS
<1>4. PICK x : x = lookahead'
  OBVIOUS
<1>5. PICK r : r = rest'
  OBVIOUS
<1>6. PICK t : t = trace'
  OBVIOUS
<1>7. PICK g : g = given
  OBVIOUS
<1>8. Counted'
  BY DEF Counted
<1>9. Sound'
  <2>1. at' \in {"parse", "accepted"} /\ yynerrs' = 0 /\ Len(prods) < YYF => Consumed(g, s, x, r, t)
    BY <1>3, <1>4, <1>5, <1>6, <1>7
  <2>2. at' \in {"parse", "accepted"} /\ yynerrs' = 0 /\ (Len(prods) < YYF)' => Consumed(g, s, x, r, t)'
    BY <1>2, <2>1 DEF YYF
  <2> QED BY <1>1, <1>3, <1>4, <1>5, <1>6, <1>7, <2>2 DEF Sound
<1>10. Settled'
  BY <1>2 DEF Speaks, Settled
<1>11. Complete'
  <2>1. Sentence' => Sentence
    <3>1. PICK A : A = goal
      OBVIOUS
    <3>2. PICK l : l = <<A>>
      OBVIOUS
    <3>3. \A w : Yields(l, w, g)' <=> Yields(l, w, g)
      BY <1>2
    <3>4. <<goal>>' = l /\ <<goal>> = l /\ given' = g
      BY <1>1, <1>2, <1>7, <3>1, <3>2
    <3> QED BY <1>2, <1>7, <3>3, <3>4 DEF Sentence
  <2>2. Sentence => /\ yynerrs' = 0 /\ at' \in {"parse", "accepted", "returned", "overflow"}
                    /\ at' \in {"parse", "accepted"} => Expected(s, x, r)
    BY <1>3, <1>4, <1>5
  <2>3. Sentence' => /\ yynerrs' = 0 /\ at' \in {"parse", "accepted", "returned", "overflow"}
                     /\ at' \in {"parse", "accepted"} => Expected(s, x, r)'
    BY <1>2, <2>1, <2>2
  <2> QED BY <1>3, <1>4, <1>5, <2>3 DEF Complete
<1> QED BY <1>8, <1>9, <1>10, <1>11 DEF Speaks

\* A parser that has counted an error stays as it was.
LEMMA SpeaksWrong ==
  ASSUME Speaks, UnchangedInParse, at \in {"popping", "synch"},
         at' \in {"popping", "synch", "parse", "aborted"}, yynerrs' = yynerrs
  PROVE  Speaks'
<1>1. yynerrs \in Nat /\ yynerrs > 0
  BY DEF Speaks, Counted
<1>2. ~Sentence
  BY <1>1 DEF Speaks, Complete, Begun
<1>3. at \in Begun /\ at' \in Begun /\ at' # "accepted"
  BY DEF Begun
<1> QED BY <1>1, <1>2, <1>3, SpeaksOn

\* What a parser looks at.
LEMMA LooksAt ==
  ASSUME ByStage, Parsing
  PROVE  /\ GrammarBuilt /\ FirstLeast /\ SetsLeast /\ Answers /\ lookahead \in Columns
         /\ at = "parse" /\ stack # <<>> /\ Tos = Head(stack)
         /\ ISACT(Tos) => Tos \in ActNumbers
         /\ ISTERM(Tos) => Tos \in 1 .. Len(terms)
         /\ ISNONTERM(Tos) => Tos \in Nonterms
<1>1. at = "parse" /\ stack # <<>> /\ Tos = Head(stack)
  BY DEF Parsing, Tos
<1>2. /\ Stacked(stack) /\ Given(rest, lookahead) /\ file \in Files /\ GrammarBuilt
  BY ParserParts
<1>3. FirstLeast /\ SetsLeast /\ Printed
  BY <1>1 DEF ByStage, FirstExact, AnalysisExact, Before, Running
<1>4. Answers
  BY <1>2, <1>3, PrintedAnswers
<1>5. IsSymbol(Tos)
  BY <1>1, <1>2, TailStacked
<1>6. acts \in Nat
  BY <1>2 DEF GrammarBuilt, WellBuilt, Built
<1>7. ISNONTERM(Tos) => Tos \in Nonterms
  BY <1>2, <1>5, <1>6, TopNonterm
<1>8. ISTERM(Tos) => Tos \in 1 .. Len(terms)
  BY DEF ISTERM
<1>9. ISACT(Tos) => Tos \in ActNumbers
  BY <1>2, <1>5, SymbolKinds DEF Symbols, IsSymbol, ISTERM, ActNumbers
<1>10. lookahead \in Columns
  BY <1>2 DEF Given, Columns
<1> QED BY <1>1, <1>2, <1>3, <1>4, <1>7, <1>8, <1>9, <1>10

\* What a parser knows without an error, and in a sentence.
LEMMA Knows ==
  ASSUME Speaks, at = "parse"
  PROVE  /\ yynerrs \in Nat
         /\ yynerrs = 0 /\ Len(prods) < YYF => Consumed(given, stack, lookahead, rest, trace)
         /\ Sentence => /\ yynerrs = 0 /\ Expected(stack, lookahead, rest)
                        /\ Refused = {} /\ Len(prods) < YYF
BY DEF Speaks, Counted, Sound, Settled, Complete, Begun, Sentence, WellMade

LEMMA ActSpeaks == ByStage /\ Speaks /\ act => Speaks'
<1> SUFFICES ASSUME ByStage, Speaks, act PROVE Speaks'
  OBVIOUS
<1>1. /\ Parsing /\ ISACT(Tos) /\ trace' = Append(trace, Tos) /\ UnchangedInParse
      /\ rest' = rest /\ lookahead' = lookahead /\ yynerrs' = yynerrs
      /\ (stack' = Tail(stack) /\ at' = at) \/ at' = "returned"
  BY DEF act
<1>2. /\ GrammarBuilt /\ at = "parse" /\ stack # <<>> /\ Head(stack) \in ActNumbers
      /\ Tos = Head(stack)
  BY <1>1, LooksAt
<1>3. at \in Begun /\ at' \in Begun /\ at' \in {"parse", "returned"}
  BY <1>1, <1>2 DEF Begun
<1>4. ASSUME at' = "parse", yynerrs = 0, Len(prods) < YYF
      PROVE  Consumed(given, stack', lookahead', rest', trace')
  <2>1. Consumed(given, stack, lookahead, rest, trace)
    BY <1>2, <1>4, Knows
  <2>2. Consumed(given, Tail(stack), lookahead, rest, Append(trace, Head(stack)))
    BY <1>2, <2>1, ConsumedAct
  <2> QED BY <1>1, <1>2, <1>4, <2>2
<1>5. ASSUME at' = "parse", Sentence PROVE Expected(stack', lookahead', rest')
  <2>1. Expected(stack, lookahead, rest)
    BY <1>2, <1>5, Knows
  <2>2. Expected(Tail(stack), lookahead, rest)
    BY <1>2, <2>1, ExpectedAct
  <2> QED BY <1>1, <1>5, <2>2
<1> QED BY <1>1, <1>2, <1>3, <1>4, <1>5, Knows, SpeaksOn

LEMMA AdvanceSpeaks == ByStage /\ Speaks /\ Advance => Speaks'
<1> SUFFICES ASSUME ByStage, Speaks, Advance PROVE Speaks'
  OBVIOUS
<1>1. /\ Parsing /\ ISTERM(Tos) /\ Tos = lookahead /\ trace' = Append(trace, lookahead)
      /\ UnchangedInParse /\ rest' = Without(rest) /\ lookahead' = Next_token(rest)
      /\ yynerrs' = yynerrs /\ stack' = Tail(stack) /\ at' = at
  BY DEF Advance
<1>2. /\ GrammarBuilt /\ at = "parse" /\ stack # <<>> /\ Head(stack) \in 1 .. Len(terms)
      /\ Head(stack) = lookahead
  BY <1>1, LooksAt
<1>3. at \in Begun /\ at' \in Begun /\ at' = "parse"
  BY <1>1, <1>2 DEF Begun
<1>4. ASSUME yynerrs = 0, Len(prods) < YYF
      PROVE  Consumed(given, stack', lookahead', rest', trace')
  <2>1. Consumed(given, stack, lookahead, rest, trace)
    BY <1>2, <1>4, Knows
  <2>2. Consumed(given, Tail(stack), Next_token(rest), Without(rest), Append(trace, lookahead))
    BY <1>2, <2>1, ConsumedToken
  <2> QED BY <1>1, <2>2
<1>5. ASSUME Sentence PROVE Expected(stack', lookahead', rest')
  <2>1. Expected(stack, lookahead, rest)
    BY <1>2, <1>5, Knows
  <2>2. Expected(Tail(stack), Next_token(rest), Without(rest))
    BY <1>2, <2>1, ExpectedToken
  <2> QED BY <1>1, <2>2
<1> QED BY <1>1, <1>2, <1>3, <1>4, <1>5, Knows, SpeaksOn

LEMMA ReplaceSpeaks == ByStage /\ Speaks /\ Replace => Speaks'
<1> SUFFICES ASSUME ByStage, Speaks, Replace PROVE Speaks'
  OBVIOUS
<1>1. PICK n : n = yy_next(Tos, lookahead) + 1
  OBVIOUS
<1>2. /\ Parsing /\ ISNONTERM(Tos) /\ yy_next(Tos, lookahead) # YYF /\ UnchangedInParse
      /\ rest' = rest /\ lookahead' = lookahead /\ yynerrs' = yynerrs /\ trace' = trace
      /\ (stack' = prods[n].rhs \o Tail(stack) /\ at' = at) \/ at' = "overflow"
  BY <1>1 DEF Replace, Yy_pushtab
<1>3. /\ GrammarBuilt /\ FirstLeast /\ SetsLeast /\ Answers /\ lookahead \in Columns
      /\ at = "parse" /\ stack # <<>> /\ Head(stack) \in Nonterms /\ Tos = Head(stack)
  BY <1>2, LooksAt
<1>4. at \in Begun /\ at' \in Begun /\ at' \in {"parse", "overflow"}
  BY <1>2, <1>3 DEF Begun
<1>5. ASSUME at' = "parse", yynerrs = 0, Len(prods) < YYF
      PROVE  Consumed(given, stack', lookahead', rest', trace')
  <2>1. Consumed(given, stack, lookahead, rest, trace)
    BY <1>3, <1>5, Knows
  <2>2. n \in 1 .. Len(prods) /\ prods[n].lhs = Head(stack)
    BY <1>1, <1>2, <1>3, <1>5, AnswerRule
  <2>3. Consumed(given, prods[n].rhs \o Tail(stack), lookahead, rest, trace)
    BY <1>3, <2>1, <2>2, ConsumedRule
  <2> QED BY <1>2, <1>5, <2>3
<1>6. ASSUME at' = "parse", Sentence PROVE Expected(stack', lookahead', rest')
  <2>1. Expected(stack, lookahead, rest) /\ Refused = {} /\ Len(prods) < YYF
    BY <1>3, <1>6, Knows
  <2>2. Expected(prods[yy_next(Head(stack), lookahead) + 1].rhs \o Tail(stack), lookahead, rest)
    BY <1>3, <2>1, ExpectedRule
  <2>3. Expected(prods[n].rhs \o Tail(stack), lookahead, rest)
    BY <1>1, <1>3, <2>2
  <2> QED BY <1>2, <1>6, <2>3
<1> QED BY <1>2, <1>3, <1>4, <1>5, <1>6, Knows, SpeaksOn

\* A sentence has nothing unexpected in it.
LEMMA ErrorSpeaks == ByStage /\ Speaks /\ yy_synch => Speaks'
<1> SUFFICES ASSUME ByStage, Speaks, yy_synch PROVE Speaks'
  OBVIOUS
<1>1. /\ Parsing /\ Unexpected /\ yynerrs' = yynerrs + 1 /\ UnchangedInParse
      /\ at' \in {"aborted", "popping"}
  BY DEF yy_synch
<1>2. /\ GrammarBuilt /\ FirstLeast /\ SetsLeast /\ Answers
      /\ at = "parse" /\ stack # <<>> /\ Tos = Head(stack)
      /\ ISTERM(Tos) => Tos \in 1 .. Len(terms)
      /\ ISNONTERM(Tos) => Tos \in Nonterms
  BY <1>1, LooksAt
<1>3. at \in Begun /\ at' \in Begun /\ at' \notin {"parse", "accepted"}
  BY <1>1, <1>2 DEF Begun
<1>4. ASSUME Sentence PROVE FALSE
  <2>1. Expected(stack, lookahead, rest) /\ Refused = {} /\ Len(prods) < YYF
    BY <1>2, <1>4, Knows
  <2>2. CASE ISTERM(Tos) /\ Tos # lookahead
    <3>1. Head(stack) \in 1 .. Len(terms) /\ Head(stack) # lookahead
      BY <1>2, <2>2
    <3> QED BY <1>2, <2>1, <3>1, ExpectedToken
  <2>3. CASE ISNONTERM(Tos) /\ yy_next(Tos, lookahead) = YYF
    <3>1. Head(stack) \in Nonterms /\ yy_next(Head(stack), lookahead) = YYF
      BY <1>2, <2>3
    <3> QED BY <1>2, <2>1, <3>1, ExpectedRule
  <2> QED BY <1>1, <2>2, <2>3 DEF Unexpected
<1>5. yynerrs \in Nat /\ yynerrs' \in Nat /\ yynerrs' > 0
  BY <1>1, <1>2, Knows
<1> QED BY <1>1, <1>3, <1>4, <1>5, SpeaksOn

\* A grammar whose tables are printed has a first nonterminal.
LEMMA FirstNonterm ==
  ASSUME GrammarBuilt, Printed
  PROVE  MINNONTERM \in Nonterms
<1>1. IsSeq(nonterms)
  BY DEF GrammarBuilt, WellBuilt, Built
<1>2. Len(nonterms) \in Nat /\ Len(nonterms) > 0 /\ Nonterms = NT(Len(nonterms))
  BY <1>1, SeqIs, NontermsAre DEF Printed
<1> QED BY <1>2, NumbersAssumption DEF NT

\* A stream is a sequence of tokens.
LEMMA StreamsAre ==
  ASSUME NEW g \in Streams, Len(terms) \in Nat
  PROVE  g \in Strings
<1>1. PICK n \in Nat : n = Len(terms)
  OBVIOUS
<1>2. g \in BoundedSeq(1 .. n, Tokens)
  BY <1>1 DEF Streams
<1>3. PICK m \in 0 .. Tokens : g \in [1 .. m -> 1 .. n]
  BY <1>2 DEF BoundedSeq, SeqOf
<1>4. m \in Nat
  BY <1>3, LlamaAssumption
<1>5. g \in Seq(1 .. n)
  BY <1>3, <1>4
<1> QED BY <1>1, <1>5 DEF Strings

LEMMA ReadsAt == ReadNext => at = "read"
BY Zenon DEF ReadNext, Type, Lhs, Rhs, Symbol, Action, StartOpt, NestTooDeep, EndOpt, EndRep, Prec,
             EndOfFile, Made

LEMMA AcceptSpeaks == Speaks /\ Accept => Speaks'
<1> SUFFICES ASSUME Speaks, Accept PROVE Speaks'
  OBVIOUS
<1>1. /\ at = "parse" /\ at' = "accepted" /\ stack' = <<>> /\ stack' = stack /\ trace' = trace
      /\ rest' = rest /\ lookahead' = lookahead /\ yynerrs' = yynerrs /\ UnchangedInParse
  BY DEF Accept
<1>2. at \in Begun /\ at' \in Begun
  BY <1>1 DEF Begun
<1> QED BY <1>1, <1>2, Knows, SpeaksOn

\* A parser starts.
LEMMA StartSpeaks == ByStage /\ Speaks /\ Start => Speaks'
<1> SUFFICES ASSUME ByStage, Speaks, Start PROVE Speaks'
  OBVIOUS
<1>1. /\ at = "made" /\ at' = "parse" /\ stack' = <<MINNONTERM>> /\ given' \in Streams
      /\ lookahead' = Next_token(given') /\ rest' = Without(given')
      /\ UNCHANGED <<file, made, built, first, closing, sets>>
      /\ trace' = trace /\ yynerrs' = yynerrs
  BY DEF Start
<1>2. /\ UNCHANGED <<file, nonterms, acts, prods, goal, nerrors, first, follow, select>>
      /\ Refused' = Refused /\ (WellMade' <=> WellMade)
      /\ \A g, s, x, r, t : Consumed(g, s, x, r, t)' <=> Consumed(g, s, x, r, t)
      /\ \A s, x, r : Expected(s, x, r)' <=> Expected(s, x, r)
      /\ \A s, w, u : Yields(s, w, u)' <=> Yields(s, w, u)
  BY <1>1, SpeaksKept
<1>3. GrammarBuilt /\ Printed /\ SetsLeast /\ Len(terms) \in Nat
  BY <1>1, ParserParts DEF ByStage, Running, AnalysisExact, Before
<1>4. trace = <<>> /\ yynerrs = 0 /\ (nerrors = 0 => Refused = {})
  BY <1>1 DEF Speaks, Counted, Settled, Begun
<1>5. MINNONTERM \in Nonterms
  BY <1>3, FirstNonterm
<1>6. PICK g : g = given'
  OBVIOUS
<1>7. g \in Strings
  BY <1>1, <1>3, <1>6, StreamsAre
<1>8. PICK s : s = <<MINNONTERM>>
  OBVIOUS
<1>9. PICK x : x = Next_token(g)
  OBVIOUS
<1>10. PICK r : r = Without(g)
  OBVIOUS
<1>11. stack' = s /\ lookahead' = x /\ rest' = r /\ trace' = <<>> /\ given' = g /\ yynerrs' = 0
  BY <1>1, <1>4, <1>6, <1>8, <1>9, <1>10
<1>12. Consumed(g, s, x, r, <<>>)
  BY <1>3, <1>5, <1>7, <1>8, <1>9, <1>10, ConsumedStart
<1>13. Counted'
  BY <1>1, <1>11 DEF Counted, Begun
<1>14. Sound'
  <2>1. PICK t : t = <<>>
    OBVIOUS
  <2>2. Consumed(g, s, x, r, t)'
    BY <1>2, <1>12, <2>1
  <2> QED BY <1>1, <1>11, <2>1, <2>2 DEF Sound
<1>15. Settled'
  BY <1>2, <1>4 DEF Settled
<1>16. Complete'
  <2>1. ASSUME Sentence' PROVE Expected(s, x, r)'
    <3>1. WellMade /\ goal = MINNONTERM /\ goal \in Nonterms
      BY <1>2, <1>5, <2>1 DEF Sentence, WellMade
    <3>2. PICK l : l = <<goal>>
      OBVIOUS
    <3>3. <<goal>>' = l /\ l = s
      BY <1>2, <1>8, <3>1, <3>2
    <3>4. (\E w : Yields(<<goal>>, w, given))'
      BY <2>1 DEF Sentence
    <3>5. PICK w : Yields(l, w, g)'
      BY <1>11, <3>3, <3>4
    <3>6. Yields(<<goal>>, w, g)
      BY <1>2, <3>2, <3>5
    <3>7. Expected(<<goal>>, x, r)
      BY <1>3, <1>7, <1>9, <1>10, <3>1, <3>6, ExpectedStart
    <3> QED BY <1>2, <3>2, <3>3, <3>7
  <2> QED BY <1>1, <1>11, <2>1 DEF Complete
<1> QED BY <1>13, <1>14, <1>15, <1>16 DEF Speaks

LEMMA ParseSpeaks == ByStage /\ Speaks /\ ParseNext => Speaks'
<1> SUFFICES ASSUME ByStage, Speaks, ParseNext PROVE Speaks'
  OBVIOUS
<1>1. CASE Pop \/ Popped \/ Discard \/ Synchronised
  <2>1. /\ UnchangedInParse /\ at \in {"popping", "synch"}
        /\ at' \in {"popping", "synch", "parse", "aborted"} /\ yynerrs' = yynerrs
    BY <1>1 DEF Pop, Popped, Discard, Synchronised
  <2> QED BY <2>1, SpeaksWrong
<1> QED BY <1>1, StartSpeaks, ActSpeaks, AdvanceSpeaks, ReplaceSpeaks, AcceptSpeaks, ErrorSpeaks
        DEF ParseNext

LEMMA SpeaksStutters == Speaks /\ UNCHANGED vars => Speaks'
<1> SUFFICES ASSUME Speaks, UNCHANGED vars PROVE Speaks'
  OBVIOUS
<1>1. /\ UNCHANGED <<file, made, built, first, closing, sets>>
      /\ UNCHANGED <<at, given, rest, lookahead, stack, trace, yynerrs>>
  BY DEF vars, grammar, parser
<1>2. /\ UNCHANGED <<file, nonterms, acts, prods, goal, nerrors, first, follow, select>>
      /\ Refused' = Refused /\ (WellMade' <=> WellMade)
      /\ \A g, s, x, r, t : Consumed(g, s, x, r, t)' <=> Consumed(g, s, x, r, t)
      /\ \A s, x, r : Expected(s, x, r)' <=> Expected(s, x, r)
      /\ \A s, w, u : Yields(s, w, u)' <=> Yields(s, w, u)
  BY <1>1, SpeaksKept
<1>3. CASE at \in Begun
  <2>1. UnchangedInParse
    BY <1>1 DEF UnchangedInParse
  <2>2. /\ at' = at /\ yynerrs' = yynerrs /\ stack' = stack /\ lookahead' = lookahead
        /\ rest' = rest /\ trace' = trace
    BY <1>1
  <2> QED BY <1>3, <2>1, <2>2, SpeaksOn DEF Speaks, Counted, Sound, Complete
<1>4. CASE at \notin Begun
  <2>1. Counted' /\ Settled'
    BY <1>1, <1>2, <1>4 DEF Speaks, Counted, Settled, Begun
  <2>2. Sound' /\ Complete'
    BY <1>1, <1>4 DEF Sound, Complete, Begun
  <2> QED BY <2>1, <2>2 DEF Speaks
<1> QED BY <1>3, <1>4

LEMMA SpeaksHolds == Spec => [](ByStage /\ Speaks)
<1>1. ByStage /\ Speaks /\ [Next]_vars => Speaks'
  <2> SUFFICES ASSUME ByStage, Speaks, [Next]_vars PROVE Speaks'
    OBVIOUS
  <2>1. CASE ReadNext /\ UNCHANGED <<sets, parser>>
    <3>1. at = "read" /\ at' \in {"read", "first", "fatal", "undefined", "errors"}
      BY <2>1, ReadFirst, ReadsAt DEF ByStage
    <3> QED BY <2>1, <3>1, SpeaksEarly DEF Begun
  <2>2. CASE FirstNext /\ UNCHANGED <<sets, parser>>
    BY <2>2, SpeaksEarly DEF FirstNext, FirstClosure, FirstPass, Begun
  <2>3. CASE init \/ follow_closure \/ FollowPass \/ llselect
    BY <2>3, SpeaksEarly DEF init, FirstDone, follow_closure, FollowPass, llselect, Begun
  <2>4. CASE tables
    BY <2>4, SpeaksTables
  <2>5. CASE ParseNext
    BY <2>5, ParseSpeaks
  <2>6. CASE UNCHANGED vars
    BY <2>6, SpeaksStutters
  <2> QED BY <2>1, <2>2, <2>3, <2>4, <2>5, <2>6 DEF Next
<1> QED BY SpeaksFirst, <1>1, StageHolds, PTL DEF Spec

\* What is parsed without an error is a beginning of the stream, and the actions done and
\* the tokens matched are, in their order, what the first nonterminal derives for it
\* (llama.m:342-449): whatever conflicts the tables have, as long as the numbers of the
\* productions fit a YY_TTYPE.
THEOREM AcceptsSentences ==
  Spec => [](at = "accepted" /\ yynerrs = 0 /\ Len(prods) < YYF
               => \E c, v : given = c \o v /\ Yields(<<MINNONTERM>>, trace, c))
<1>1. ByStage /\ Speaks =>
        (at = "accepted" /\ yynerrs = 0 /\ Len(prods) < YYF
           => \E c, v : given = c \o v /\ Yields(<<MINNONTERM>>, trace, c))
  <2> SUFFICES ASSUME ByStage, Speaks, at = "accepted", yynerrs = 0, Len(prods) < YYF
               PROVE  \E c, v : given = c \o v /\ Yields(<<MINNONTERM>>, trace, c)
    OBVIOUS
  <2>1. Consumed(given, <<>>, lookahead, rest, trace)
    BY DEF Speaks, Sound
  <2>2. GrammarBuilt
    BY DEF ByStage
  <2> QED BY <2>1, <2>2, ConsumedAll
<1> QED BY <1>1, SpeaksHolds, PTL

\* And the other way round: when no error was reported, not even a conflict, and the parser
\* starts with the goal, every sentence of the goal is parsed without an error, and as a
\* whole.
THEOREM AcceptsEverySentence ==
  Spec => [](nerrors = 0 /\ WellMade /\ (\E w : Yields(<<goal>>, w, given))
               => yynerrs = 0 /\ (at = "accepted" => Yields(<<goal>>, trace, given)))
<1>1. ByStage /\ Speaks =>
        (nerrors = 0 /\ WellMade /\ (\E w : Yields(<<goal>>, w, given))
           => yynerrs = 0 /\ (at = "accepted" => Yields(<<goal>>, trace, given)))
  <2> SUFFICES ASSUME ByStage, Speaks, Sentence
               PROVE  yynerrs = 0 /\ (at = "accepted" => Yields(<<goal>>, trace, given))
    BY DEF Sentence
  <2>1. yynerrs = 0
    BY DEF Speaks, Counted, Complete
  <2>2. ASSUME at = "accepted" PROVE Yields(<<goal>>, trace, given)
    <3>1. Expected(<<>>, lookahead, rest)
      BY <2>2 DEF Speaks, Sound, Complete, Begun
    <3>2. GrammarBuilt /\ goal = MINNONTERM
      BY DEF ByStage, Sentence, WellMade
    <3>3. Left(lookahead, rest) = <<>>
      BY <3>1, <3>2, ExpectedEnd
    <3>4. Consumed(given, <<>>, lookahead, rest, trace)
      BY <2>1, <2>2 DEF Speaks, Sound, Sentence, WellMade
    <3>5. PICK c : given = c \o Left(lookahead, rest) /\ Yields(<<MINNONTERM>>, trace, c)
      BY <3>2, <3>4, ConsumedAll
    <3>6. c \in Seq(1 .. Len(terms))
      BY <3>5 DEF Yields, Strings
    <3>7. given = c
      BY <3>3, <3>5, <3>6
    <3> QED BY <3>2, <3>5, <3>7
  <2> QED BY <2>1, <2>2
<1> QED BY <1>1, SpeaksHolds, PTL
=============================================================================
