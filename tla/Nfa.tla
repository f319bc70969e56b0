--------------------------------- MODULE Nfa ---------------------------------
(***************************************************************************)
(* compiler/lex/nfa.c and the input routine of compiler/lex/input.c: a     *)
(* recursive descent parser that builds a Thompson NFA from the rules of a *)
(* LeX file.  The static variables are one record, s; the parser functions *)
(* that return a machine through (startp, endp) return a record [s, st,    *)
(* en], and take what these pointed to before, since an empty expression   *)
(* leaves them alone.                                                      *)
(*                                                                         *)
(* A token is a record of the TOKEN a character maps to and the character  *)
(* (_tok_map): "L" is a literal, an escape sequence included; "SP" is      *)
(* white space, "QUOTE" the double quote, and "MAC" a whole macro call.    *)
(* A line of the file is a sequence of tokens.                             *)
(***************************************************************************)
EXTENDS Dfa, SequencesExt

CONSTANTS
  NFA_MAX,       \* the most NFA states, 768 in the code
  SSIZE,         \* _SSIZE, the size of both stacks, 32 in the code
  STR_MAX,       \* the most accept strings; 10K bytes of them in the code
  MAX_RULE_SIZE, \* the longest rule
  NL, CR, SPACE, \* the characters '\n', '\r' and ' '
  UnixStyle,     \* g_unix_stype
  Macros         \* the text of each macro, never empty

START == 1
END   == 2
Newlines == IF UnixStyle THEN {NL} ELSE {NL, CR}

ZeroNode == [edge |-> 0, bitset |-> {}, compl |-> FALSE, next |-> NULL,
             next2 |-> NULL, accept |-> NoString, anchor |-> 0]

\* lines: what get_expr() has not read, and whether a line with a % follows
ParserInit(lines, closed) ==
  [lines |-> lines, closed |-> closed, lookhead |-> "none", buffer |-> <<>>,
   input |-> <<>>, stack |-> <<>>, tok |-> "EOS", lexeme |-> 0, inquote |-> FALSE,
   nodes |-> [i \in {} |-> ZeroNode], free |-> <<>>, nstates |-> 0, strings |-> 0,
   heads |-> <<>>, err |-> "no"]

Ok(s) == s.err = "no"
parse_err(s, e) == IF Ok(s) THEN [s EXCEPT !.err = e] ELSE s

-----------------------------------------------------------------------------
(* The node array. *)

\* Assigning through a NULL pointer ends the program.
Put(s, i, field, v) ==
  IF ~Ok(s) THEN s
  ELSE IF i = NULL THEN parse_err(s, "crash")
  ELSE [s EXCEPT !.nodes[i] = [@ EXCEPT ![field] = v]]

\* The node new() returns, and what it leaves.
NewNode(s) == IF s.free # <<>> THEN Last(s.free) ELSE Cardinality(DOMAIN s.nodes)
new(s) ==
  IF ~Ok(s) THEN s
  ELSE IF s.nstates + 1 >= NFA_MAX THEN parse_err(s, "E_LENGTH")
  ELSE LET p == NewNode(s)
       IN [s EXCEPT !.nstates = @ + 1,
                    !.free  = IF @ = <<>> THEN @ ELSE Front(@),
                    !.nodes = IF p \in DOMAIN @ THEN [@ EXCEPT ![p].edge = EPSILON]
                              ELSE @ @@ (p :> [ZeroNode EXCEPT !.edge = EPSILON])]

discard_uncounted(s, i) ==
  IF ~Ok(s) THEN s
  ELSE [s EXCEPT !.nodes[i] = [ZeroNode EXCEPT !.edge = EMPTY], !.free = Append(@, i)]
discard(s, i) ==
  IF ~Ok(s) THEN s
  ELSE LET d == [s EXCEPT !.nstates = @ - 1, !.free = Append(@, i),
                          !.nodes[i] = [ZeroNode EXCEPT !.edge = EMPTY]]
       IN IF Len(d.free) > SSIZE THEN parse_err(d, "E_STACK") ELSE d

-----------------------------------------------------------------------------
(* The lexical analyzer. *)

IsSpace(t) == t.tok = "SP"
RECURSIVE SkipSpace(_)
SkipSpace(ts) == IF ts # <<>> /\ IsSpace(Head(ts)) THEN SkipSpace(Tail(ts)) ELSE ts

\* get_expr() reads lines into the buffer until the next line begins neither
\* with white space nor with the newline of a blank line.
Newline == [tok |-> "SP", lexeme |-> NL]
RECURSIVE ReadLines(_, _)
ReadLines(s, sofar) ==
  IF s.lines = <<>> THEN [s EXCEPT !.lookhead = "EOF"]
  ELSE LET buffer == sofar \o Head(s.lines)
           rest   == Tail(s.lines)
           r == [s EXCEPT !.lines = rest, !.buffer = buffer,
                   !.lookhead = CASE rest = <<>> -> IF s.closed THEN "%" ELSE "EOF"
                                  [] rest # <<>> /\ (Head(rest) = <<>> \/ IsSpace(Head(Head(rest)))) -> "SP"
                                  [] OTHER -> "other"]
       IN IF Len(buffer) >= MAX_RULE_SIZE THEN parse_err(r, "too long")
          ELSE IF r.lookhead = "EOF" THEN r
          ELSE IF buffer = <<>> THEN ReadLines(r, <<>>)
          ELSE IF r.lookhead = "SP" THEN ReadLines(r, Append(buffer, Newline))
          ELSE r

\* The part of advance() that gets the next rule that is not blank.
RECURSIVE NextRule(_)
TakeRule(r) ==
  IF SkipSpace(r.buffer) = <<>> THEN NextRule(r)
  ELSE [r EXCEPT !.input = SkipSpace(r.buffer)]
NextRule(s) ==
  IF ~Ok(s) THEN s
  ELSE IF s.lookhead = "%" THEN [s EXCEPT !.tok = "END_OF_INPUT"]
  ELSE TakeRule(ReadLines(s, <<>>))

\* The end of a macro's text is the end of its call.
RECURSIVE EndMacros(_)
EndMacros(s) ==
  IF s.input = <<>> /\ s.stack # <<>>
  THEN EndMacros([s EXCEPT !.input = Last(s.stack), !.stack = Front(@)])
  ELSE s

RECURSIVE Expand(_)
Expand(s) ==
  IF ~Ok(s) \/ Head(s.input).tok # "MAC" THEN s
  ELSE IF Head(s.input).name \notin DOMAIN Macros THEN parse_err(s, "E_NOMAC")
  ELSE IF Len(s.stack) >= SSIZE THEN parse_err(s, "E_MACDEPTH")
  ELSE Expand([s EXCEPT !.stack = Append(@, Tail(s.input)), !.input = Macros[Head(s.input).name]])

EndOfRule(s) == [s EXCEPT !.tok = "EOS", !.lexeme = 0]

Lexeme(s) ==
  LET t == Head(s.input)
  IN IF ~s.inquote /\ IsSpace(t) THEN EndOfRule(s)
     ELSE [s EXCEPT !.input = Tail(@), !.lexeme = t.lexeme,
                    !.tok = IF s.inquote THEN "L" ELSE t.tok]

Quoted(s) ==
  IF ~Ok(s) THEN s
  ELSE IF Head(s.input).tok # "QUOTE" THEN Lexeme(s)
  ELSE LET q == [s EXCEPT !.inquote = ~@, !.input = Tail(@)]
       IN IF q.input = <<>> THEN EndOfRule(q) ELSE Lexeme(q)

NextLexeme(s) ==
  IF s.input = <<>> THEN EndOfRule(s)
  ELSE Quoted(IF s.inquote THEN s ELSE Expand(s))

advance(s) ==
  IF ~Ok(s) THEN s
  ELSE IF s.tok = "END_OF_INPUT" THEN parse_err(s, "crash")
  ELSE IF s.tok # "EOS" THEN NextLexeme(EndMacros(s))
  ELSE IF s.inquote THEN parse_err(s, "E_NEWLINE")
  ELSE LET r == NextRule(s)
       IN IF ~Ok(r) \/ r.tok = "END_OF_INPUT" THEN r ELSE NextLexeme(EndMacros(r))

\* A rule whose action is | has the string of the rule after it.
SavedString(s) == s.strings + 1
save(s) ==
  IF ~Ok(s) \/ (s.input # <<>> /\ Head(s.input).tok = "OR") THEN s
  ELSE IF s.strings >= STR_MAX THEN parse_err(s, "E_STRINGS")
  ELSE [s EXCEPT !.strings = @ + 1]

-----------------------------------------------------------------------------
(* The parser. *)

Machine(s, st, en) == [s |-> s, st |-> st, en |-> en]

first_in_cat(tok) == tok \notin {"CLOSE_PAREN", "AT_EOL", "OR", "EOS"}
CatError(tok) ==
  CASE tok \in {"CLOSURE", "PLUS_CLOSE", "OPTIONAL"} -> "E_CLOSE"
    [] tok = "CCL_END" -> "E_BRACKET"
    [] tok = "AT_BOL" -> "E_BOL"
    [] OTHER -> "no"

AddChars(s, node, cs) == Put(s, node, "bitset", IF Ok(s) THEN s.nodes[node].bitset \cup cs ELSE {})

\* The loop of dodash().  A dash at either end of a class is a warning, which
\* ends the program like an error.
RECURSIVE DashLoop(_, _, _)
DashRange(s, node, first) ==
  IF s.tok = "CCL_END" THEN parse_err(s, "W_ENDDASH")
  ELSE DashLoop(advance(AddChars(s, node, first .. s.lexeme)), node,
                IF first > s.lexeme THEN first ELSE s.lexeme + 1)
DashLoop(s, node, first) ==
  IF ~Ok(s) \/ s.tok \in {"EOS", "CCL_END"} THEN s
  ELSE IF s.tok = "DASH" THEN DashRange(advance(s), node, first)
  ELSE DashLoop(advance(AddChars(s, node, {s.lexeme})), node, s.lexeme)
dodash(s, node) == IF s.tok = "DASH" THEN parse_err(s, "W_STARTDASH") ELSE DashLoop(s, node, 0)

Complement(s, node) == Put(AddChars(s, node, Newlines), node, "compl", TRUE)

ClassBody(s, node) ==
  IF s.tok = "CCL_END" THEN AddChars(s, node, 0 .. SPACE) ELSE dodash(s, node)
CharClass(s, node) ==
  ClassBody(IF s.tok = "AT_BOL" THEN Complement(advance(s), node) ELSE s, node)

RECURSIVE expr(_, _, _)

Parenthesized(e) ==
  [e EXCEPT !.s = IF @.tok = "CLOSE_PAREN" THEN advance(@) ELSE parse_err(@, "E_PAREN")]
SingleChar(s, start) ==
  CASE s.tok = "ANY"       -> Complement(Put(s, start, "edge", CCL), start)
    [] s.tok = "CCL_START" -> CharClass(advance(Put(s, start, "edge", CCL)), start)
    [] OTHER               -> Put(s, start, "edge", s.lexeme)
term(s, st, en) ==
  IF s.tok = "OPEN_PAREN" THEN Parenthesized(expr(advance(s), st, en))
  ELSE LET start == NewNode(s)
           end   == NewNode(new(s))
       IN Machine(advance(SingleChar(Put(new(new(s)), start, "next", end), start)), start, end)

\* The machine m with a node before it and one after, for the closures.
Wrap(m, skip, repeat) ==
  LET start == NewNode(m.s)
      end   == NewNode(new(m.s))
      s1    == Put(Put(new(new(m.s)), start, "next", m.st), m.en, "next", end)
      s2    == IF m.s.tok \in skip THEN Put(s1, start, "next2", end) ELSE s1
      s3    == IF m.s.tok \in repeat THEN Put(s2, m.en, "next2", m.st) ELSE s2
  IN Machine(advance(s3), start, end)
Closed(m) ==
  IF ~Ok(m.s) \/ m.s.tok \notin {"CLOSURE", "PLUS_CLOSE", "OPTIONAL"} THEN m
  ELSE Wrap(m, {"CLOSURE", "OPTIONAL"}, {"CLOSURE", "PLUS_CLOSE"})
factor(s, st, en) == Closed(term(s, st, en))

\* The factors after the first: each one's start is copied over the end of
\* the machine so far, and discarded.  e2s and e2e keep their values from one
\* turn to the next.
RECURSIVE Factors(_, _, _, _, _)
AppendFactor(f, st, en) ==
  IF ~Ok(f.s) THEN f
  ELSE IF NULL \in {en, f.st} THEN Machine(parse_err(f.s, "crash"), st, en)
  ELSE Factors(discard([f.s EXCEPT !.nodes[en] = f.s.nodes[f.st]], f.st), st, f.en, f.st, f.en)
Factors(s, st, en, e2s, e2e) ==
  IF ~Ok(s) \/ CatError(s.tok) # "no" THEN Machine(parse_err(s, CatError(s.tok)), st, en)
  ELSE IF ~first_in_cat(s.tok) THEN Machine(s, st, en)
  ELSE AppendFactor(factor(s, e2s, e2e), st, en)

FirstFactor(s, st, en) ==
  IF Ok(s) /\ first_in_cat(s.tok) /\ CatError(s.tok) = "no" THEN factor(s, st, en)
  ELSE Machine(s, st, en)
MoreFactors(m) == Factors(m.s, m.st, m.en, NULL, NULL)
cat_expr(s, st, en) == MoreFactors(FirstFactor(s, st, en))

RECURSIVE Alternatives(_, _, _, _, _)
Either(c, st, en) ==
  LET p  == NewNode(c.s)
      s1 == Put(Put(new(c.s), p, "next2", c.st), p, "next", st)
      q  == NewNode(s1)
  IN Alternatives(Put(Put(new(s1), en, "next", q), c.en, "next", q), p, q, c.st, c.en)
Alternatives(s, st, en, e2s, e2e) ==
  IF ~Ok(s) \/ s.tok # "OR" THEN Machine(s, st, en)
  ELSE Either(cat_expr(advance(s), e2s, e2e), st, en)

MoreAlternatives(m) == Alternatives(m.s, m.st, m.en, NULL, NULL)
expr(s, st, en) == MoreAlternatives(cat_expr(s, st, en))

\* The parts of rule(): ^, $, and the action.
AfterBol(m, start) == Machine(Put(m.s, start, "next", m.st), start, m.en)
BolExpr(s) ==
  IF s.tok # "AT_BOL" THEN expr(s, NULL, NULL)
  ELSE AfterBol(expr(advance(Put(new(s), NewNode(s), "edge", NL)), NULL, NULL), NewNode(s))

BeforeEol(s, m) ==
  Machine(AddChars(Put(Put(new(s), m.en, "next", NewNode(s)), m.en, "edge", CCL), m.en, Newlines),
          m.st, NewNode(s))

Accepting(s, m, anchor) ==
  Machine(advance(Put(Put(save(s), m.en, "accept", SavedString(s)), m.en, "anchor", anchor)),
          m.st, m.en)
WithAction(m, anchor) == Accepting([m.s EXCEPT !.input = SkipSpace(@)], m, anchor)

EolAction(m, anchor) ==
  IF m.s.tok = "AT_EOL" THEN WithAction(BeforeEol(advance(m.s), m), anchor + END)
  ELSE WithAction(m, anchor)
rule(s) == EolAction(BolExpr(s), IF s.tok = "AT_BOL" THEN START ELSE 0)

\* A turn of machine(): a node for the rule, chained to the one before.  (The
\* list of these nodes, heads, is kept for the properties.)
Linked(m, p) == Put(m.s, p, "next", m.st)
Chained(s, p) == IF s.heads = <<>> THEN s ELSE Put(s, Last(s.heads), "next2", p)
RuleNode(s) ==
  LET p == NewNode(s)
  IN Linked(rule([Chained(new(s), p) EXCEPT !.heads = Append(@, p)]), p)
==============================================================================
