--------------------------------- MODULE LeX ---------------------------------
(***************************************************************************)
(* LeX from the rules of its input file to the tables of the analyzer:     *)
(* min_dfa() calls dfa(), which calls nfa(), which parses the rules.  A    *)
(* parser step is one rule.  The rules are kept as expression trees, what  *)
(* the file is a rendering of, to say what the tables should accept.       *)
(***************************************************************************)
EXTENDS Nfa, MinDfa

CONSTANTS
  RuleSets,     \* the files: sequences of rules (see RenderRule)
  MacroExprs,   \* the expressions whose renderings the macros' texts are
  MaxWord       \* the longest text the properties look at

VARIABLES
  rules,        \* the rules of the file
  parser        \* the static variables of nfa.c

vars == <<minVars, rules, parser>>

-----------------------------------------------------------------------------
(* Rules, their rendering as lines of tokens, and the texts they match. *)

Tok(t, c) == [tok |-> t, lexeme |-> c]
T(t) == <<Tok(t, 0)>>
Lit(c) == <<Tok("L", c)>>

Infix == {"cat", "or"}
Postfix == [star |-> "CLOSURE", plus |-> "PLUS_CLOSE", opt |-> "OPTIONAL"]
RECURSIVE Render(_)
Parens(r) == T("OPEN_PAREN") \o Render(r) \o T("CLOSE_PAREN")
Render(r) ==
  CASE r.op = "lit"   -> Lit(r.c)
    [] r.op = "quote" -> T("QUOTE") \o <<Tok("CLOSURE", r.c)>> \o T("QUOTE")
    [] r.op = "any"   -> T("ANY")
    [] r.op = "class" -> T("CCL_START") \o (IF r.neg THEN T("AT_BOL") ELSE <<>>)
                         \o r.text \o T("CCL_END")
    [] r.op = "macro" -> <<[tok |-> "MAC", lexeme |-> 0, name |-> r.name]>>
    [] r.op = "cat"   -> (IF r.l.op = "or" THEN Parens(r.l) ELSE Render(r.l))
                         \o (IF r.r.op \in Infix THEN Parens(r.r) ELSE Render(r.r))
    [] r.op = "or"    -> Render(r.l) \o T("OR")
                         \o (IF r.r.op = "or" THEN Parens(r.r) ELSE Render(r.r))
    [] OTHER -> (IF r.l.op \in Infix \cup DOMAIN Postfix THEN Parens(r.l) ELSE Render(r.l))
                \o T(Postfix[r.op])

\* A rule is a line; or its action is on a continuation line, or a blank line
\* comes first.
RenderRule(entry) ==
  LET pattern == (IF entry.bol THEN T("AT_BOL") ELSE <<>>) \o Render(entry.re)
                 \o (IF entry.eol THEN T("AT_EOL") ELSE <<>>)
      action == T("SP") \o (IF entry.bar THEN T("OR") ELSE Lit(SPACE + 1))
  IN CASE entry.layout = "line"      -> <<pattern \o action>>
       [] entry.layout = "continued" -> <<pattern, action>>
       [] entry.layout = "blank"     -> <<<<>>, pattern \o action>>
Lines(rs) == FlattenSeq([i \in DOMAIN rs |-> RenderRule(rs[i])])

Short(ws) == {w \in ws : Len(w) <= MaxWord}
Cat(us, ws) == Short({u \o w : u \in us, w \in ws})
RECURSIVE Matches(_)
\* The texts of at most MaxWord characters that match.
Matches(r) ==
  CASE r.op \in {"lit", "quote"} -> {<<r.c>>}
    [] r.op = "any"   -> {<<c>> : c \in Chars \ Newlines}
    [] r.op = "class" -> {<<c>> : c \in IF r.neg THEN Chars \ (Newlines \cup r.cs) ELSE r.cs}
    [] r.op = "macro" -> Matches(MacroExprs[r.name])
    [] r.op = "cat"   -> Cat(Matches(r.l), Matches(r.r))
    [] r.op = "or"    -> Matches(r.l) \cup Matches(r.r)
    [] r.op = "opt"   -> {<<>>} \cup Matches(r.l)
    [] OTHER ->
         LET once == Matches(r.l)
             times[n \in 0 .. MaxWord] == IF n = 0 THEN {<<>>} ELSE {<<>>} \cup Cat(times[n-1], once)
         IN IF r.op = "star" THEN times[MaxWord] ELSE Cat(once, times[MaxWord])
RuleMatches(entry) ==
  LET body == Matches(entry.re)
      head == IF entry.bol THEN Cat({<<NL>>}, body) ELSE body
  IN IF entry.eol THEN Cat(head, {<<c>> : c \in Newlines}) ELSE head

-----------------------------------------------------------------------------

Init ==
  /\ MinInit
  /\ rules \in RuleSets
  /\ parser = ParserInit(Lines(rules), TRUE)

\* thompson() and the first turn of machine().
FirstRule ==
  /\ phase = "nfa" /\ Ok(parser) /\ parser.heads = <<>>
  /\ parser' = RuleNode(advance(parser))
  /\ UNCHANGED <<minVars, rules>>

NextRuleNode ==
  /\ phase = "nfa" /\ Ok(parser) /\ parser.heads # <<>> /\ parser.tok # "END_OF_INPUT"
  /\ parser' = RuleNode(parser)
  /\ UNCHANGED <<minVars, rules>>

\* An error message, and exit.
ParserFails ==
  /\ phase = "nfa" /\ ~Ok(parser)
  /\ phase' = "failed"
  /\ UNCHANGED <<nodes, sstate, nstates, dstates, dtran, last_marked, ch,
                 minOnly, mindtran, minaccept, rules, parser>>

Parsed == Ok(parser) /\ parser.heads # <<>> /\ parser.tok = "END_OF_INPUT"

\* Everything from here on is min_dfa() on the parser's nodes.
MakeTables ==
  /\ IF phase = "nfa" THEN Parsed /\ nodes' = parser.nodes /\ sstate' = parser.heads[1]
     ELSE TRUE
  /\ MinNext
  /\ UNCHANGED <<rules, parser>>

Next == FirstRule \/ NextRuleNode \/ ParserFails \/ MakeTables

Spec     == Init /\ [][Next]_vars

\* The loops of make_trans() and minimize() run on.
FairSpec == Spec /\ WF_vars(MakeTables)

-----------------------------------------------------------------------------
(* Properties. *)

\* The nodes a machine consists of.
NodesFrom(ns, start) ==
  LET Follow(is) == UNION {{i, ns[i].next, ns[i].next2} \ {NULL} : i \in is}
      after[n \in 0 .. Cardinality(DOMAIN ns)] == IF n = 0 THEN {start} ELSE Follow(after[n-1])
  IN after[Cardinality(DOMAIN ns)]

\* new() and discard() keep the account of the array: a discarded node is
\* neither used nor free twice, no node is lost, and none beyond NFA_MAX is
\* handed out.
NodesConsistent ==
  phase = "nfa" /\ Ok(parser) /\ parser.heads # <<>> =>
    LET ns   == parser.nodes
        free == ToSet(parser.free)
    IN /\ IsInjective(parser.free)
       /\ parser.nstates = Cardinality(DOMAIN ns \ free)
       /\ Cardinality(DOMAIN ns) < NFA_MAX
       /\ NodesFrom(ns, parser.heads[1]) = DOMAIN ns \ free

\* What the tables accept: the texts with their accept strings and anchors.
TableTexts ==
  LET after[n \in 0 .. MaxWord] ==
        IF n = 0 THEN {<<<<>>, ingroup[0]>>}
        ELSE {e \in {<<Append(x[1], c), mindtran[<<x[2], c>>]>> : x \in after[n-1], c \in Chars}
                : e[2] # F}
      all == UNION {after[n] : n \in 0 .. MaxWord}
  IN {<<x[1], minaccept[x[2]]>> : x \in {x \in all : minaccept[x[2]].string # NoString}}

\* The accept string of a rule: its own, or with | that of the rule after it.
StringOf(i) == Cardinality({j \in 1 .. i - 1 : ~rules[j].bar}) + 1
RulesFor(text) == {i \in DOMAIN rules : text \in RuleMatches(rules[i])}
AcceptNode(i) ==
  CHOOSE k \in NodesFrom(nodes, nodes[parser.heads[i]].next) : nodes[k].accept # NoString

\* From the file to the tables nothing is lost or added: a text is accepted
\* exactly if some rule matches it, with the string, and the anchor where no
\* other rule shares the string, of a rule that does.  Of several the one
\* with the lowest accepting node wins.
TablesMatchRules ==
  phase = "done" =>
    /\ {x[1] : x \in TableTexts} = UNION {RuleMatches(rules[i]) : i \in DOMAIN rules}
    /\ \A x \in TableTexts :
         \E i \in RulesFor(x[1]) :
           /\ x[2].string = StringOf(i)
           /\ \A j \in RulesFor(x[1]) : AcceptNode(i) <= AcceptNode(j)
           /\ (\A j \in DOMAIN rules : StringOf(j) = StringOf(i) => j = i)
                => x[2].anchor = (IF rules[i].bol THEN START ELSE 0)
                                 + (IF rules[i].eol THEN END ELSE 0)

\* The worklists run dry: once the rules are parsed LeX comes to an end, with
\* the tables or because there are too many states.
Finishes == phase = "start" ~> phase \in {"done", "failed"}

\* Of the rules that match a text the one that is higher in the file wins
\* (terp.c:69-70).
FirstRuleWins ==
  phase = "done" =>
    \A x \in TableTexts :
      x[2].string = StringOf(Least(RulesFor(x[1])))
==============================================================================
