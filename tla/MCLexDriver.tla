----------------------------- MODULE MCLexDriver -----------------------------
(***************************************************************************)
(* Analyzers and files for the model checker.  The tables are those of     *)
(* small sets of rules, named in the comments; a state's accept code is 4, *)
(* or the anchor of its rule (1 start, 2 end, 3 both).                     *)
(***************************************************************************)
EXTENDS LexDriver

MCChars == {"a", "b", "nl", "nul"}

\* A row of Yy_nxt.
Row(a, c, nl) == [x \in MCChars |-> CASE x = "a" -> a [] x = "b" -> c
                                      [] x = "nl" -> nl [] OTHER -> YYF]
F == YYF
Table(rows, accept) ==
  [nxt |-> [q \in 0 .. Len(rows) - 1 |-> rows[q + 1]],
   accept |-> [q \in 0 .. Len(rows) - 1 |-> accept[q + 1]]]

\* a, aab: the longest match may need backing up.
Backup == Table(<<Row(1, F, F), Row(2, F, F), Row(F, 3, F), Row(F, F, F)>>, <<0, 4, 0, 4>>)
\* ^a, a$, a, \n
Anchors == Table(<<Row(2, F, 1), Row(4, F, F), Row(F, F, 3), Row(F, F, F), Row(F, F, F)>>,
                 <<0, 4, 4, 2, 1>>)
\* ^a$, [ab], \n
BothEnds == Table(<<Row(2, 2, 1), Row(3, F, F), Row(F, F, F), Row(F, F, 4), Row(F, F, F)>>,
                  <<0, 4, 4, 0, 3>>)
\* a+, b: lexemes of any length
Long == Table(<<Row(1, 2, F), Row(1, F, F), Row(F, F, F)>>, <<0, 4, 4>>)
\* ab, \n: a prefix that matches nothing
Prefix == Table(<<Row(1, F, 3), Row(F, 2, F), Row(F, F, F), Row(F, F, F)>>, <<0, 0, 4, 4>>)
FewAnalyzers == {Anchors, Long}
MCAnalyzers == {Backup, Anchors, BothEnds, Long, Prefix}

\* a$, a\nbb: an accepting state from which a longer lexeme is attempted
EndThenMore == Table(<<Row(1, F, F), Row(F, F, 2), Row(F, 3, F), Row(F, 4, F), Row(F, F, F)>>,
                     <<0, 0, 2, 0, 4>>)
AnchorLost == {EndThenMore}

FilesUpTo(n) == UNION {[1 .. k -> MCChars \ {"nul"}] : k \in 0 .. n}
Files6 == FilesUpTo(6)
LongFiles  == {[i \in 1 .. 12 |-> "a"], [i \in 1 .. 12 |-> "b"], [i \in 1 .. 12 |-> "nl"],
               [i \in 1 .. 12 |-> IF i % 3 = 0 THEN "b" ELSE "a"]}
BadFiles   == {[i \in 1 .. 12 |-> IF i = 1 THEN "a" ELSE "nl"]}
MatchFiles == Files6 \cup LongFiles
ActionFiles == {<<"a", "nl">>, [i \in 1 .. 8 |-> "a"]}
=============================================================================
