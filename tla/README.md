# cgkits: a TLA+ development

cgkits is a compiler kit in C: `LeX` turns a specification of regular
expressions into a lexical analyzer, `occs` and `llama` turn a grammar into an
LALR(1) or an LL(1) parser, and three templates (`libary/lex.m`,
`libary/occs.m`, `libary/llama.m`) with a library (`compiler/lib`) are the
run-time half of what they generate. The tools are themselves analyzers and
parsers of this kind, so the run-time half runs inside the generators too.

This directory holds the specification of that code: TLA+ modules, the TLC
configurations that check them on small instances, and proofs checked by TLAPS.
`PROJECT.json` lists the components, the runs, the source lines every
definition models, the hazards of the code, the disagreements found and the
theorems.

## Inventory

Everything is sequential C. The difficulty is not threads but *protocols*:
static state shared by functions that must be called in the right order, marks
into a buffer that moves under them, worklists that must end in a fixpoint,
node numbers that mean priority, and error recovery.

| component | source | state | operations | what makes it correct |
|---|---|---|---|---|
| input buffer | `compiler/lib/input.c` | one static buffer, five pointers into it, line numbers, the character under the terminator, end-of-file flag | open, advance, mark, move, push back, terminate, look, flush | the buffer shows the file's characters, each once, in order; marks stay inside it in order; lines are counted right; a lexeme up to a limit is never refused |
| lexer driver | `libary/lex.m` | DFA state, last accepting state and its predecessor, anchor, yymore flag | `yylex()`, `input`, `unput`, `yyless`, `yymore` | longest match, earliest rule; no character lost between lexemes; anchors honoured; end of file reported once per file |
| LeX front end | `compiler/lex/lex.c`, `compiler/lex/input.c` | section state, current expression, line numbers | copy the head, read expressions, invoke the passes | continuation lines joined; line numbers right; end of rules found |
| NFA construction | `compiler/lex/nfa.c` | node array, free-node stack, action string table, macro stack | recursive descent `rule`..`term`, `new`, `discard` | the machine accepts the expression's language; no node is shared or used after `discard`; limits end the program |
| subset construction | `compiler/lex/terp.c`, `compiler/lex/dfa.c` | `Dstates`, `Dtran`, accepting arrays | `e_closure`, `move`, `add_to_dstates`, `get_unmarked` | same language; the accepting state is the earliest rule in the file; distinct states have distinct sets |
| minimisation | `compiler/lex/mindfa.c` | groups, `Ingroup` | `init_groups`, `minimize`, `fix_dtran` | same language, same actions and anchors, fewest states |
| bit sets | `compiler/lib/set.c` | words, size, complement flag | add, remove, union, ..., iterate | sets of integers |
| hash table | `compiler/lib/hash.c` | buckets of doubly linked symbols | add, delete, find, next | newest symbol of a name is found; deletion uncovers the one it hid |
| library | `compiler/lib/syslib.c`, `com.c` | none | escapes, search, sort, pair tables, driver file | tables compress without loss; driver file copied section by section |
| grammar | `compiler/parser/acts.c`, `parser.lma`, `parser.lex` | symbol table, productions, precedence | build symbols, productions, optional and repeated parts | every production reachable as written; every nonterminal defined |
| FIRST/FOLLOW/SELECT | `first.c`, `llfollow.c`, `llselect.c` | one set per symbol or production | fixpoints | least fixpoints of the defining equations |
| LL code | `llcode.c`, `llpar.c` | table, bootstrap parser | | parser accepts the grammar format |
| LALR(1) machine | `yystate.c` | hash of states, unfinished queue, reductions, gotos | closure, merge of lookaheads, conflict resolution | every state closed under its lookaheads when the worklist empties; conflicts resolved by precedence |
| occs code | `yycode.c`, `yypatch.c`, `yydollar.c` | | print tables, rewrite `$n` | every action sees its own attributes |
| occs runtime | `libary/occs.m` | state, value and lookahead stacks | shift, reduce, recover | accepts the grammar; recovery ends |
| llama runtime | `libary/llama.m` | parse and value stacks | expand, match, synchronise | accepts the grammar; synchronisation ends |
| debugger | `yydebug.c` | windows | | not modelled: terminal I/O |

`gc/` and `bin/` are a vendored garbage collector and prebuilt programs;
`parser/lexyy.c` and `parser/llout.c` are generated.

Interactions: `yylex()` calls the input buffer for every character, and the
parsers call `yylex()`, mark the previous lexeme (`ii_mark_prev`) when they
shift, and read and terminate it in place (`ii_ptext`, `ii_plength`). LeX calls
nfa, then dfa (which calls terp and set), then mindfa, each consuming the
arrays the one before left. occs and llama build the grammar with the acts,
compute FIRST, then either FOLLOW and SELECT or the LALR machine.

## Plan

In the order in which the modules are written; the most important behaviour,
the run-time half that every generated program contains and then the tables it
runs on, comes first.

| step | modules | what they say | state |
|---|---|---|---|
| 1 | `InputBuffer`, `CharStream`, `InputBuffer_proofs` | the buffer implements a character stream | done |
| 2 | `LexDriver` (over `InputBuffer`), `LexDriver_proofs` | longest match on that stream | done |
| 3 | `Nfa`, `Dfa`, `MinDfa`, `LeX` (composes them), `MinDfa_proofs` | the tables accept what the rules mean | done |
| 4 | `SetLib`, `IntSets`, `SetLib_proofs` | the words are sets of numbers, whatever their sizes | done |
| 5 | `HashTable`, `NameStacks`, `HashTable_proofs` | the buckets are stacks of symbols by name | done |
| 6 | `Grammar`, `Grammar_proofs`, `Llama`, `Llama_proofs` | llama from a grammar file to a running parser | done |
| 7 | `Lalr`, `Occs` (over `Grammar`), `Occs_proofs` | occs from a grammar file to a running parser | done |
| 8 | further proofs | see below | next |
| 9 | additions | recovery in the bootstrap parser `llpar.c`, the section splitting of `lex.c`, the text of tokens (`yytext`) under the parsers | planned |

`LeX` composes `Nfa`, `Dfa` and `MinDfa`; `LexDriver` runs on `InputBuffer`;
`Llama` and `Lalr` each extend `Grammar`, and `Occs` extends `Lalr`.
`GrammarMeaning`, `GrammarReference`, `LlamaMeaning` and `OccsMeaning` hold what
the tools are compared with; their operators are recursive, so they are kept
apart from the modules that theorems are about. `GrammarFiles` and the `MC`
modules hold the instances.

`Grammar_proofs` holds what is true of the calls of `acts.c` and of `first()`, for
both tools; `Llama_proofs` and `Occs_proofs` extend it.

Theorems worth proving next: that the lookaheads of `Lalr` are the least that the states
pass on to each other, every state off the worklist being closed, and from that the
counterpart for occs of what is proved of llama's parser; that the nonterminals
`end_opt()` makes derive what an optional or repeated part means; and the part of
`AnswersByMembers` that is a sum over words or bits, `set_hash()` and `set_num_ele()`.

## Modules

### InputBuffer, CharStream: `compiler/lib/input.c`

The state of `InputBuffer` is the record `b` of the file's static variables
(`buf`, `end_buf`, `next`, `smark`, `emark`, `pmark`, the line numbers,
`termchar`, `eof_read`) with pointers as indexes from `_start_buf`; `unread` is
how much of the open file `read()` has not delivered, and `exit` the reason for
which `com_ferr()` ended the program. Each C function is an operator from record
to record (a set of records where it reads the file), so `ii_input` is the
composition of `ii_unterm`, `ii_advance`, the marks and `ii_term`, as in the
code, and a flush inside an advance is part of the advance. The actions are the
calls of a client. `BUFSIZE` is `3 * MAXLEX + 2 * LOOK` as in the code; all
arithmetic that decides (`DANGER`, `Need`, the left edge of a flush) is kept.

Three variables record history for the properties: `text` (the characters of
the stream: the newline `ii_advance()` pushes first, the file, what `ii_unput()`
changed), `line0`, and `ready`/`terminated`, which hold the client to the
protocol that every caller in the repository keeps: advance after opening a
file before anything else, do not advance or mark in a terminated buffer, force
a flush only after a refused advance. A call outside this protocol does real
harm (input.c:197, 278); the model does not claim otherwise.

`CharStream` is the abstract specification: a text, a position, the marks of
the current and the previous lexeme, and no buffer. `InputBuffer` implements it
under the mapping `Stream`: index `i` of the buffer is the position
`Cur - (next - i)` of the text.

### LexDriver: `libary/lex.m`

`yylex()` cut at the places where it loops or calls out: `Call`, one action per
branch of its loop (`EndOfFile`, `NextFile`, `Load`, `Transition`, `BadInput`,
`Accept`), then the rule's action. `b` is that of `InputBuffer`, whose operators
are used through `INSTANCE`, so every refusal, flush and pushback is the real
one. A rule's action is what the macros let it do: `Input`, `Unput`, `Yyless`,
and one of `Continue`, `More` (yymore), `Return`. The parser above it is
`ParserMarksLexeme` (`ii_mark_prev()` between two calls). `yy_wrap()` may open
another file or not. The tables are constants (`Analyzers`).

### Nfa, Dfa, MinDfa, LeX: `compiler/lex`

`Nfa` holds the recursive descent parser of `nfa.c` and the reading of rules of
`lex/input.c` as operators over the record of their static variables: the
tokens of the file, the macro stack, the node array, the stack of freed nodes,
the strings, and the error that ends the program. The order in which nodes are
allocated, copied and freed is that of the code, because node numbers decide
precedence. What LeX should make of characters (escapes, octal numbers) is
data: a file is a sequence of lines of tokens.

`Dfa` (`terp.c`, `dfa.c`) and `MinDfa` (`mindfa.c`) are state machines with an
action per branch of the loops: `GetUnmarked`, `AllMarked`, `NoMove`,
`KnownState`, `NewState`, `TooManyStates`; `InitGroups`, `SkipSmallGroup`,
`BeginGroup`, `Keep`, `Move`, `EndGroup`, `NextPass`, `FixDtran`. The table is
filled one entry at a time, the new group one member at a time, while the rest
of the loop reads them. On their own (`MinSpec`) they take any NFA at all; that
is the specification the proofs are about.

`LeX` composes the three: `FirstRule`, `NextRuleNode` (a rule per step) and
`ParserFails`, then the steps of `MinDfa` on the nodes the parser left. The
input is a sequence of rules given as expression trees, which `RenderRule`
turns into the lines a user would write; `RuleMatches` says, without any
automaton, which short texts a rule matches.

### SetLib, IntSets: `compiler/lib/set.c`, `include/set.h`

A set is a record of its words, each word the set of its bits, and its
complement flag; a number beyond the words enlarges it by whole default sets as
`_ROUND` says. The two static variables of `set_next_member()` (the set it went
through, and how far) are variables, shared by all sets as in the code. `Replace`
is `set_dup()` or `set_new()` after a `set_del()`: the new set may be given the
address of the old one, and an iteration then goes on in it. `IntSets` is what a
client is promised, sets of numbers and an iteration that goes up; `SetLib` is
shown to implement it under the mapping of words to numbers.

### HashTable, NameStacks: `compiler/lib/hash.c`

`held` is what every slot points at (a bucket, or the `next` of a symbol) and
`prev` the slot that each symbol points back at, as the code's pointer to a
pointer does; so a deletion writes through `prev` without knowing which kind of
slot it is. `walk`, `bucket` and `visited` are an unsorted `hash_print_tab()`
under way, whose callbacks may delete other symbols, as `dopatch()` does.
`NameStacks` maps a name to its symbols, newest first.

### Grammar, Llama: `compiler/parser`, `libary/llama.m`

A grammar file is the sequence of calls the bootstrap parser makes of it
(`new_nonterm`, `new_rhs`, `add_to_rhs`, `start_opt`, `end_opt`, `prec`);
`RuleCalls` of `GrammarFiles` turns a rule as written into them. Each call is an
action of `Grammar`, with its limits, the errors that end the program and those
that are only counted. `CallsAssumption` says in which order the calls come: the
bootstrap parser makes them as `parser.lma` (89-119) derives them, brackets
balanced, a right-hand side after every left-hand side. Symbols are numbers in the
ranges the code gives them. `FirstClosure`
is one symbol of one pass of `first.c`, in place; `order` is the order in which the
hash table delivers the nonterminals, any permutation, chosen once.

`Llama` goes on with a step for each nonterminal of a pass of `llfollow.c`, with
`llselect`, and with `tables` for the rows of `llcode.c` packed as `sys_pairs()`
does and cut to the width of a `YY_TTYPE`. Then any stream of tokens is given to the parser of
`llama.m`: `act`, `Advance`, `Replace`, `Unexpected`, and recovery as the loop it
is (`Pop`, `Popped`, `Discard`, `Synchronised`). An action of the grammar may
return from the parser (`YYACCEPT`, `YYABORT`).

`LlamaMeaning` compares with the grammar file directly: `Meaning` is the set of
the sequences of tokens and actions, up to a length, that the rules *as written*
derive, optional and repeated parts included; FIRST, FOLLOW and SELECT are
restated as closures of relations.

### Lalr, Occs: `compiler/parser/yypatch.c`, `yystate.c`, `libary/occs.m`

`Lalr` is `patch` (the actions taken out of the productions, those inside made
nonterminals; a file without a goal ends the program), then `lr()`:
`get_unfinished`, `closure` (a pass over the items; the program goes on within a pass
from what it has just added, to the same closure), then in this order `kclosure`,
`sort`, `move_eps`, and
`newstate` for each symbol to the right of a dot, which finds or makes a state and
puts one that has grown back on the worklist (`merge_lookaheads`); then
`add_reductions` with the resolution of conflicts by precedence, one state a step.
The sort is `sys_ssort()`, a shell sort, which does not keep the order of items that
compare equal: `sort` lets ties come either way. `Occs` runs the
parser: `yy_shift`, `yy_reduce`, `yy_recover`, `Recovered`, `Discard`. On the value
stack stands, for every state, the symbol it stands for, so that an action can be
asked which symbols it sees.

`OccsMeaning` has canonical LR(1), built as sets of items without any worklist
and merged by core, to compare the states with; and `Evaluation`, what an
expression means by the precedences of its operators.

## Runs

| run | instance | what it asks |
|---|---|---|
| `buffer_stream` | a buffer of 8 (`MAXLEX` 2, `LOOK` 1), five files of 0 to 10 characters, one more file or one character put back, pushbacks of up to 2, read errors | type, marks in order, the buffer shows the stream and keeps its terminator, lines counted, only long lexemes refused, never full for want of room, and the refinement of `CharStream` |
| `buffer_endoffile` | the same without read errors | *violated*: a refill at the exact end of the file ends the program |
| `lexer_match` | five analyzers, all files of up to six characters and four of twelve, `MAXLEX` 3 | longest match, only bad input is skipped, the driver ends |
| `lexer_actions` | two analyzers, two files and a second one opened at the end, all four macros, a marking parser, `MAXLEX` 2 | type and marks in order, the action sees its lexeme, longest match, through refills during actions |
| `lexer_anchor` | rules `a$` and `a\nbb`, files of up to six characters | *violated*: the anchor is not that of the last accepting state |
| `lexer_badinput` | a file of newlines under a parser | *violated*: a bad character is not skipped and the driver loops |
| `lex_tables` | 1,292 files of one to five rules over four characters, at most 16 nodes, 6 states, 4 freed nodes, 4 strings, texts of up to 3 characters | nodes accounted for, tables complete, stable, smallest and right by what the rules mean, loops end |
| `lex_order` | the same | *violated*: the first of two rules that match does not always win |
| `sets` | two sets, words of two bits, default sets of two words, numbers up to the fourth word | queries depend on the members only, and the refinement of `IntSets` |
| `symbols` | five symbols of three names in two buckets | type and count, pointers agree, a walk with deletions misses and repeats nothing, and the refinement of `NameStacks` |
| `llama` | 22 listed grammars and 225 generated ones, streams of up to five tokens; about 157,000 states | productions and sets mean what the file says, the parser accepts it and only it, recovery consumes, all loops end |
| `occs` | 33 listed grammars and 225 generated ones, streams of up to five tokens; about 240,000 states, three minutes | lookaheads exact, actions see their symbols, the parser accepts the language and only it, precedence, all loops end |

**Why the bounds are enough.** The buffer behaves by the position of the marks
relative to `MAXLEX` and `LOOK`; with a buffer of 8 the lengths of the files lie
on, just before and beyond those at which a fill ends, the longest needs several
refills, and a newline in every third place is met before, at and after the
places where a fill ends. For the driver six characters are longer than what
any analyzer but the one for `a+` can attempt before it fails or backs up, and
the files of twelve refill the buffer in the middle of a lexeme. For LeX the rules hold every operator at two levels of nesting, all
pairs of anchors, bars and layouts, and the limits are set so that each of them
is reached by some file and not by most: the passing run takes the error exits
too.

For the sets two words are one default set and four are two, so that every
pair of sizes occurs in every operation; a word of two bits has a first and a
last bit. Five symbols in two buckets make a bucket with two names and two
symbols of one of them, whichever order they come in; deletion touches the first,
an inner and the last symbol.

The generated grammars are two nonterminals (for occs below the goal) with two
alternatives each, of six: empty, one token, a token and a nonterminal on either
side, two nonterminals, recursion through the other. The listed ones
are one for each thing the code tells apart: actions in the middle,
optional and repeated parts in each other, recovery, LALR(1) grammars that are not
SLR(1), LR(1) ones that are not LALR(1), every kind of precedence, and one
file for each limit, which the other files do not reach. For llama `MINNONTERM` 10, `MINACT` 14 (four
nonterminals), `MAXPROD` 9, `MAXRHS` 5, `SSIZE` 3, `threshold` 2, `TTYPE` 8 and `YYMAXDEPTH`
7 are such limits; for occs `MINACT` 16, `MAXRHS` 8, `MAXSTATE` 13, `MAXKERNEL`
4, `MAXCLOSE` 7, `MAXEPSILON` 2, `MAXUNFINISHED` 6, `YYMAXDEPTH` 6. `YYMAXERR` 2
and 1 and `YYCASCADE` 2 leave room in a stream of five tokens (`Tokens`) for an error, a
recovery, and the error that is one too many. A file's `bound` is the length up to
which its meaning is enumerated, actions included. `MaxOpens`, `MaxChanges`, `MaxBack` and `MaxWord` bound what the
environment does; no counter of the program is bounded by anything but the
program.

**Deadlock.** `CHECK_DEADLOCK FALSE` in every configuration but `sets` and
`symbols`, whose clients can always make another call: the program ends,
by `com_ferr()`, by an error message, at the end of the last file, or with the
tables made.

**Fairness.** `LexDriver`'s `FairSpec` assumes that a call of `yylex()` is made
when one can be, that its loop goes on, and that a rule's action ends (by
falling through, yymore or a return): sequential code that is running runs on.
It does not assume that the action does any of the four things it may do before.
`LeX`'s `FairSpec` assumes that the loops of `make_trans()` and `minimize()` go
on; `Llama` and `Occs`, that the program makes its next step when it has one
(`WF_vars(Next)`): reading, the passes and the parser are one sequential run, and
which step is next is a choice only where the symbol table's order, the stream
and the outcome of an action are chosen. Nothing else is assumed fair; `buffer_stream`,
`sets` and `symbols` check no liveness, since a client may stop calling.

The parsers end under conditions that are part of `ComesToEnd`: for llama that no
conflict was reported, since two nonterminals may otherwise replace each other for
ever; for occs that there are neither precedences nor conflicts nor a leaked
EPSILON. That the *tools* end is unconditional.

### The properties that carry weight

- `BufferShowsStream`, `ImplementsCharStream`: whatever sequence of marks,
  moves, pushbacks, terminators and refills came before, what the buffer holds
  around `next` is the file, each character once and in order.
- `RefusedOnlyWhenLong`, `FullOnlyAtEndOfFile`: the arithmetic of `DANGER`, the
  left edge and the rounded request never refuse a lexeme that fits, nor end
  the program while the file has more.
- `LinesCounted`: `ii_lineno()` after any mix of pushback and move back is the
  number of newlines before the position.
- `LongestMatch`: when the driver accepts, the rule and the text are those of
  the longest match from where the lexeme began, anchors trimmed, across
  refills and back-ups. `OnlyBadInputSkipped`: between two lexemes only
  characters that begin no match are dropped.
- `TablesMatchRules` compares what the finished tables accept, after parser,
  subset construction and minimiser, with what the rules mean.
- `NodesConsistent`: the copying and freeing of nodes in `cat_expr` loses no
  node and uses none after it was freed.
- `StableWhenDone`: the pass compares members by group numbers it changes as it
  goes; when no pass changes anything the groups are stable nevertheless.
  `FewestStates`: no two groups could be merged. `Finishes`: the worklists run
  dry.
- `ImplementsIntSets`, `AnswersByMembers`: operations between sets of any two
  sizes, an iteration under which sets change, grow, shrink and are replaced,
  and queries that must not depend on how long a set happens to be, on which
  the recognition of a DFA state rests.
- `PointersAgree`, `WalkIsExact`, `ImplementsNameStacks`: deletion of any symbol at
  any time, from within a walk too.
- `ProductionsMeanGrammar`: the productions `acts.c` makes, optional and
  repeated parts unrolled into nonterminals of their own, derive what the rules
  as written mean.
- `SetsExact`: the fixpoints, updated in place in any order of the symbol table,
  end in the textbook's sets, and in larger ones only where EPSILON leaks (see
  below). `LookaheadsExact`: the states are those of LALR(1) with exactly their
  lookaheads, however often a state was taken up again.
- `ActionsSeeTheirSymbols`: the two stacks are aligned, every state is where its
  symbol leads, and an action finds the symbols to its left, wherever it was
  moved and whatever recovery popped.
- `AcceptsOnlyLanguage`, `AcceptsWholeLanguage`: from the text of the grammar to
  the run of the parser made of it, with the actions in their places.
  `PrecedenceHonoured`: an expression is evaluated as its operators say.
- `RecoveryConsumes`: between two errors a token is matched, so errors cannot
  outrun the input.

Each of these is violated by a plausible mutation of the code (`mutants` in
`PROJECT.json`): a mark not adjusted when NULL, a request of one lexeme instead
of as many as fit, a last accept reset by a failing state, an end anchor not
trimmed, `_ingroup` left unchanged by a move, and so on. The mutated forms are the
operators named `..._something` next to the definitions.

## What is proved

The proofs are for every alphabet, every `MAXLEX` and `LOOK`, every file and every
NFA, every hash function, every grammar, table and stream of tokens; they are in
`InputBuffer_proofs`, `LexDriver_proofs`, `MinDfa_proofs`, `SetLib_proofs`,
`HashTable_proofs`, `Grammar_proofs`, `Llama_proofs` and `Occs_proofs`. The inductive
invariants were model-checked on the states of the component's run, or of a smaller
instance of it, before they were proved; not those that speak of every set or of every
derivation, which TLC cannot enumerate.

Several of the arguments go by induction over data: the length of a prefix, the
places of a sequence, the dot of an item. The provers cannot be handed the library's induction
theorems, whose hypothesis is an operator. The modules that need it derive from the
well-foundedness of the natural numbers two first-order facts instead, about *sets*: a set
of naturals that has an element has a least one (`LeastNat`), and one that has 0 and
the successor of each of its members has them all (`EveryNat`). A use of them forms
`{n \in Nat : ...}` and shows it closed.

**InputBuffer.** From `BoundsAssumption` (`0 < LOOK < MAXLEX`) and
`CharsAssumption` (NUL and newline are distinct characters, EOF is none):

| theorem | states |
|---|---|
| `TypeCorrect` | `Spec => []TypeOK` |
| `MarksStayInOrder` | `Spec => []MarksInOrder` |
| `OnlyLongLexemesRefused` | `Spec => []RefusedOnlyWhenLong` |
| `NeverFullForWantOfRoom` | `Spec => []FullOnlyAtEndOfFile` |

None of them is inductive. `IInv` adds what the arithmetic rests on: `Ordered`
(the marks in order, with `_pmark` behind `_smark` or absent), `Sound` (before
the end of file is read the buffer is full, that is, has no room for another
`MAXLEX` characters), and `Fresh` for the buffer just after `ii_newfile()`, in
which all pointers stand at the end. That the buffer is full is needed twice:
when a refill moves the text left, it makes room for at least `MAXLEX`, so the
request is never rounded to 0; and a refusal means that the left edge lies
within the first `MAXLEX` of a full buffer, so the text from there to `next`
is long. One lemma per C function says what it does to `Legal` and `Sound`
(`RefillSound` is the heart), and `NextIInv` puts them together, one step per
action.

**The text in the buffer.** From the same assumptions:

| theorem | states | besides |
|---|---|---|
| `TextInvHolds` | `Spec => [](IInv /\ TextInv)`, the inductive invariant | |
| `BufferAlwaysShowsStream` | `Spec => []BufferShowsStream` | `~ShortReads` |
| `LinesAreCounted` | `Spec => []LinesCounted` | no file holds a NUL |
| `BufferImplementsStream` | `Spec => ImplementsCharStream` | |

`Base` is where the buffer lies in the stream: the character at index `i` is the one
at `Base + i`. A flush moves the text left and `Base` right by the same amount, a
read moves `_end_buf` and leaves `Base`, and nothing else touches it; `Shows` says
that what lies between the left edge and `_end_buf` is the stream at those places,
but for the terminator, whose character `termchar` has. The left edge of what a flush keeps, not the start of
the buffer, is the bound: what lies before it may be the rest of the file before, or
nothing. `Counted` relates the line numbers to the newlines up to `next` and
`emark`.

The two hypotheses are where the code stops keeping the promise, not where the proof
does. A short `read()` is taken for the end of the file (input.c:241), after which the
buffer shows less than the file. A NUL in
the file counts as a line when it is pushed back over (input.c:256). The refinement needs
neither: `CharStream` promises where the marks are in the text and what the client
changed, and every step keeps that, whatever is read.

**The lexer driver.** From `InputAssumption` (the two assumptions above) and
`AnalyzersAssumption` (the tables name states and have one for every
character; a rule anchored on both sides matches no single character):

| theorem | states | besides |
|---|---|---|
| `DriverTypeCorrect` | `Spec => []TypeOK`, with the marks in order | |
| `ActionsSeeLexeme` | `Spec => []ActionSeesLexeme` | no file holds a NUL |
| `BadInputBeginsNoLexeme` | `Spec => []OnlyBadInputSkipped` | no rule matches the empty string |
| `AcceptsLongestMatch` | `Spec => []LongestMatch` | so, and the END-anchored states are final |

The driver is the client for which `InputBuffer_proofs` was made: that module is
instantiated with the driver's history variables, and its lemmas, one per C
function, say what `Callable`, `Held` and `Sound` become in each of the driver's steps.
The invariant has five parts, the first four for every analyzer:

- `InputInv`: what may be called. Between two steps the buffer is one just opened
  or one that shows the stream, terminated only while an action runs or the parser
  has its turn.
- `DriverInv`: the tables' states are in range; before a new file is loaded
  nothing has been accepted.
- `ScanInv`: the start mark is where scanning began; the anchor is that of the
  present state; an anchored state has put the end mark at the cursor. It is what
  makes the step back over the anchors safe.
- `LexemeInv`: `yytext` and `yyleng` are the start mark and the distance to the cursor,
  after every `input()`, `unput()` and `yyless()`.
- `MatchInv`: the machine has run on the characters between where scanning began
  and the cursor and is alive; `yylastaccept` is the last accepting state on that
  run, and the end mark is where it was entered.

Places are places in the stream, `Base` plus a mark, so that a refill, which moves
the text and the marks under the driver, changes none of them; that is the reason why
no case distinction on refills occurs above the lemmas. `NothingLonger` says that
when the driver stops, because the table has no transition or at the end of
the file, nothing further on matches, by induction along the run.

Each hypothesis marks a place where the code does otherwise. `input()` takes a NUL
for the end of the file and leaves `yyleng` as it was (lex.m:82). As `yylastaccept`, state
0 means that nothing has been accepted (lex.m:119), so the empty string never is.
A longer match tried in vain from a state anchored to the end of a line leaves
`yyanchor` 0, and the line end in the lexeme (lex.m:155); the run `lexer_anchor`
shows it. The analyzers of `lexer_match` meet both of the last two hypotheses. `DriverTypeCorrect` needs none of
these.

**Minimiser and subset construction.** From `SizesAssumption` (`MAX_CHARS` and
`DFA_MAX` are positive), for `MinSpec`:

| theorem | states |
|---|---|
| `MinInvariant` | `MinSpec => []MinInv`, the inductive invariant |
| `TableComplete` | `MinSpec => []DfaComplete` |
| `GroupsAreInverse` | `MinSpec => []IngroupIsInverse` |
| `GroupsAreStable` | `MinSpec => []StableWhenDone` |

`DfaInv` says of the worklist that the marked states are exactly those up to
`_last_marked`, that no two states have the same set, and that the rows of the
marked states, down to the current character for the one being expanded, are
filled in with the state that has the set reached. When nothing is unmarked,
all rows are. `SplitInv` says that `_groups` and `_ingroup` are inverse with
the new group included, that groups agree on the accept string, and, the part
that makes stability provable, `Compared`: *as long as this pass has moved
nothing* (`Quiet`), the members of the groups passed, and those of the current
group already looked at, go to the same groups as the first. The moment a pass
moves a state `Quiet` is false for the rest of it, so the comparisons that the
move has made worthless are never used; a pass that ends quiet has compared
everybody by the final groups.

**Sets of bits.** From `SizesAssumption` (a word has at least one bit, the last of them its
greatest; NONE is no number and no set):

| theorem | states |
|---|---|
| `WordsImplementSets` | `Spec => ImplementsIntSets` |
| `WordsAnswer` | `Spec => []` every two sets answer `set_test()` and the comparisons as their kept numbers say |

The words of a set are the numbers `WORD * w + bit`; that division by the size of
a word gives this pair back, for any size, carries both proofs. The invariant,
`SetsInv`, has nothing to say of the members, only that a set is words in one of the sizes `_ROUND`
allows. What is hard is in the operations on
sets of different sizes, where what one has no word for is its default
(`set_op()`, the tail loops), and in an enlarged complement; one lemma for each
operation says what it does to the numbers. `WordsAnswer` is the half of `AnswersByMembers` that does not sum
over words.

**Hash table.** From `TableAssumption` (at least one bucket; every name has a hash
value, any number at all):

| theorem | states |
|---|---|
| `TypeCorrect` | `Spec => []TypeOK`, with `curr_num` the number of symbols linked |
| `PointersAlwaysAgree` | `Spec => []PointersAgree` |
| `WalksAreExact` | `Spec => WalkIsExact` |
| `TableImplementsStacks` | `Spec => ImplementsNameStacks` |

What makes the pointers right is the order in which symbols were added, of which the
table keeps no trace. `IInv` says that there *is* a stamp for every symbol such
that a bucket points at the newest of its symbols and each symbol at the newest
of those older than it (`Ordered`), and that a walk has visited the
buckets below its own and, within that, what is newer than where it stands
(`Passed`). An addition takes a fresh stamp, a deletion leaves the stamps as they are. The refinement maps a name to its symbols by descending
stamp; that the sequence `NameStacks` sees does not depend on the stamp chosen is
shown by induction along the chain.

**Recovery in llama.** From `NumbersAssumption` and `LlamaAssumption` (symbols in
their ranges; synchronising symbols are tokens of the file):

| theorem | states |
|---|---|
| `RecoveryAlwaysConsumes` | `Spec => []RecoveryConsumes`: there is at most one more error than tokens matched |

It is not inductive: nothing in it says why an error is not followed by another.
`IInv` adds that once there is one more error than tokens matched (`Owes`), the
parser is either still in recovery, or the symbol on top of its stack is the
very token it looks at (`Aligned`), so that its next step matches. Only
`Synchronised` leads out of recovery, and it does so exactly when `yy_in_synch`
has found that token on the stack. The proof uses nothing of the tables,
so it holds for grammars with conflicts and for tables cut by a narrow
`YY_TTYPE`; that a trace has finitely many matched tokens, each step at most one
more, are the lemmas `MatchedFinite`, `TokenMatched` and `ActionDone`.

**llama, from the grammar file to the last token.** From the same assumptions and
`CallsAssumption` (the calls of a file come in the order in which its parser makes them):

| theorem | states |
|---|---|
| `LlamaTypeCorrect` | `Spec => []TypeOK` |
| `FirstSetsLeast` | `Spec => []FirstExact`: once `first()` is done the FIRST sets are closed under `first_closure()`, and contained in every family of sets that is |
| `AnalysisLeast` | `Spec => []AnalysisExact`: the FOLLOW sets are the least closed ones, without EPSILON, and the SELECT sets are made of them |
| `TablesAnswer` | `Spec => []TablesExact`: `yy_next()` answers the last production that a token selects, modulo `TTYPE`, or `YYF` |
| `AcceptsSentences` | what is accepted without an error is a beginning of the stream, derived with exactly the trace of tokens and actions; production numbers must fit a `YY_TTYPE` |
| `AcceptsEverySentence` | with no error reported by llama, and for `WellMade`, a sentence of the goal is parsed without an error and as a whole |

The first four have one invariant, `ByStage` (`StageHolds == Spec => []ByStage`), with a part
for every stage. While the productions are read it is `Reading` of `Grammar_proofs`. While the
sets grow (`FirstGrows`, `FollowGrows`) they are contained in *every* closed family, which each
step keeps whatever symbol it visits, and, as long as the pass has changed nothing
(`did`), the symbols behind `turn` are closed. A pass that ends with `did` FALSE has therefore
closed them all, and the order, of which the invariant says only that every nonterminal is in
it, is of no account. `PairsRead` takes a row through
`sys_pairs()` and back: packed in pairs, copied whole behind a 0, or not printed, it
answers for every column what `fill_row()` put there.

What the productions derive is not a recursive definition, in whose presence nothing could be
proved, but a least relation: `Yields(s, w, u)`, the symbols `s` derive the tokens and actions
`w`, whose tokens are `u`, if every set of such triples closed under the four rules of
derivation (`IsDerivation`) has it. Two invariants follow the parser through that relation.
`Consumed`: whatever the stack yields, prefixed with what was done and read so far, is
yielded by the first nonterminal. `Expected`: the stack still yields what is left of the input, and fits,
that is, what may come after a nonterminal on it is in that nonterminal's FOLLOW set
(`Fits`). The second needs the analysis: that a nonterminal on top is replaced by the right
production follows from the FIRST and FOLLOW sets being closed (`YieldsStarts`,
`FitsRule`), from the tables answering them, and from `Refused` being empty when no
conflict was counted. Neither needs the sets to be least; that is what keeps llama from
reporting conflicts that are none, as far as the rules of `first_closure()` go (first.c:90, see
below). The hypotheses are those of the code: the parser starts with the first nonterminal,
which need not be the goal (lldriver.c:46), and a production number of `YYF` or more is read
as another (parser.h:77).

The attempt to prove the type of a printed table found a case the model did not have:
a grammar without a rule has no rows, and the parser printed for it does not compile. It
ends in `uncompilable` now, and a file of this kind is among those of the run.

**Actions in occs.** From `NumbersAssumption`, `CallsAssumption`, `LalrAssumption`
and `OccsAssumption` (the limits are positive; the file's calls come in the order in
which its parser makes them; at most 32767 states, so that no state has the number
that means failure, `YYF`):

| theorem | states |
|---|---|
| `ActionsAlwaysSeeTheirSymbols` | `Spec => []ActionsSeeTheirSymbols` |

The property is about the parser, and what makes it true was done by the tool: the
invariant `ByStage` (with `StageHolds == Spec => []ByStage`) has a part for every stage from
the first call of `acts.c` on.

- *Reading* (`Reading`, `Ready`, of `Grammar_proofs`): the productions are made of symbols that
  exist, the first of them is one of the goal, and the stack
  of open right-hand sides is as deep as the brackets of the file at that
  place, which is what `CallsAssumption` is for.
- *Patching* (`Patched`): the action of a production stands at its end, or is that of an
  empty production whose left-hand side occurs in one place only, right after
  the symbols the action looks at.
- *The machine* (`AtLr`, `AtClose`, `AtSort`, `AtShift`, `AtMade`): `Machine` says of every step of
  `lr()` that an item in a kernel has come from one with the dot further left, over the symbol
  that leads to its state; that a reduction is that of a complete item; and that a closed state
  has somewhere to go on every nonterminal it closes over. What a state closes
  over is *defined* as the least set that `do_close()` cannot enlarge, and
  `Covers` and `Moving` say how far the loops have come: that the in-place
  passes reach exactly that set, and lose none of it in whatever order the sort leaves
  the ties.
- *Running* (`Stacked`): the stacks are aligned, and every state is where its symbol leads from the one
  below. `Spells`, by induction on the dot, turns that into the property: an
  item in the kernel of the top state has the symbols before its dot on the
  stack. A reduction therefore pops what its production says and finds a state
  that closes over the left-hand side; recovery only pops and shifts.

The proof makes no assumption on conflicts, precedences or lookaheads, so it holds for the tables of
ambiguous grammars too, and after any recovery.

**Only model-checked.** Liveness (`ComesToEnd` of every component, `BadCharacterSkipped`),
which is out of the prover's reach. What is compared with the meaning of rules or of a grammar
*file*: the properties of `LeX`, and those of `LlamaMeaning` and `OccsMeaning`
(`ProductionsMeanGrammar`, `SetsExact`, `AcceptsOnlyLanguage`, `AcceptsWholeLanguage`,
`LookaheadsExact`, `PrecedenceHonoured`) with the type invariant of occs; the modules reach
recursive operators, in whose presence the prover has no SMT backend. The theorems about
llama's sets and parser above are the counterparts of three of these, about the productions in
place of the file, and with the least sets in place of the textbook's. For the same reason `NodesConsistent`, which is about the recursive descent of `nfa.c`.
`FewestStates`, which is about all telling texts. Of `AnswersByMembers`, what
takes a sum: that words with the same value are the same (`set_compare()` returning 0), and what
`set_hash()` and `set_num_ele()` return; these are folds, whose value on every input is
an induction over data.

## Where code and comments disagree

Found by a run (`findings` in `PROJECT.json`):

1. `ii_flush()` documents 0 for the end of file; when the file ends where a
   refill begins `ii_fillbuf()` returns 0, which is taken for a full buffer, and
   the program exits (input.c:209). An empty file does it at once.
2. `yyanchor` is "for most recently seen accepting state", but every transition
   overwrites it (lex.m:155).
3. "Skip char that caused failure" does not skip when the buffer refuses to
   advance, and nothing flushes: the driver reports the same character for ever
   (lex.m:168).
4. A rule higher in the file does not always win: nodes that an earlier rule
   freed give a later rule a lower number (nfa.c:280, against terp.c:69-70).

Met while modelling; the model has them as the code does, or its inputs leave
them out; not the subject of a run:

- A short `read()` is taken for the end of the file (input.c:241).
- `unput` onto the first character of a lexeme steps back without storing the
  character (input.c:304).
- A NUL in the file loses the terminator's saved character, and at the end of
  the file a stale byte is looked at (input.c:287, 318); a NUL pushed back over
  counts as a line (input.c:256).
- A state 0 that accepts is not seen as an accepting state: `a*` alone never
  matches (lex.m:120). A rule that matches a line end only (`a*$`) leaves the
  driver where it is (lex.m:174).
- After yymore a start anchor trims the text kept (lex.m:176); `unput` in an
  empty lexeme makes `yyleng` -1 (lex.m:72); a lexeme that runs across two files
  has a text that did not match (lex.m:138).
- The last rule of a file without a second `%%` is read again and again
  (lex/input.c:67). Warnings end the program (nfa.c:172). `[]` includes the
  carriage return (nfa.c:707). Empty parentheses use the nodes of the turn before
  (nfa.c:579). A brace right after a closing quote is not a macro (nfa.c:341).
- Rules that share an accept string share an anchor too (mindfa.c:43).

In the sets and the symbol table:

- `set_test()` calls two sets that share elements disjoint when the words in
  which they differ share none (set.c:148); the sign of `set_compare()` is that
  of a difference of unsigned words (set.c:173), and only its being 0 is relied
  on. `DIFFERENCE` is commented as the elements of one set that are not in the
  other (set.h:54) and is the exclusive or. On a complemented set
  `set_next_member()` skips the leading empty words, all of whose numbers are
  members, and ends at the set's size (set.c:333); on an empty one it looks at
  the word after the last before it looks at the size.
- `hash_next_sym()` has no caller.

In the grammar and its sets:

- FIRST of a nullable symbol is added with its EPSILON even when a later symbol
  cannot vanish (first.c:90). llama then reports conflicts that are none. In occs
  a lookahead gets too large, and recovery, which keeps a token that the state
  has an action for (occs.m:342), may reduce, meet the same error and
  recover again without end, uncounted: `S : a V T b`, with `V` empty, `T : U c`
  and `U` optional.
- Optional parts nest on a stack of eight without a check (acts.c:272). The text
  of an action may be the name of a symbol, which is then taken for it
  (acts.c:207). `yypatch.c` adds productions without looking at `MAXPROD`
  (yypatch.c:133).

In the parsers made by llama:

- A production number is kept in an unsigned char while 512 are allowed
  (parser.h:77, 32): number 255 reads as an error, number 256 as production 0.
- The parser starts with the first nonterminal (lldriver.c:46), which is not
  the goal if a `%type` names another before the first rule.
- The last row of a compressed table is named even if it was not printed
  (syslib.c:528): the parser does not compile when nothing selects a production
  of the last nonterminal, nor when there is no nonterminal at all.
- What follows the goal in the input is not looked at (llama.m:443).

In the parsers made by occs:

- A reduction by production 0 ends the parse also where the goal is a part of
  a right-hand side, with input left (occs.m:478).
- A reduction pushes without the check a shift makes (occs.m:291).
- `YYABORT` returns 1; the comment says -1 (occs.m:391-394).
- `%nonassoc` is treated as `%left` (yystate.c:954-965).
- Errors within a few cycles of the last are not counted, and the end of the
  input ends the parse as a failure even where recovery has found a state for
  it (occs.m:342).

## Not modelled

By choice: the interactive debugger, the printing of tables and of generated
code apart from what decides its meaning, option parsing, file search, memory
exhaustion (every allocation failure exits), the vendored collector, the
generated parsers.

In LeX, `new_macro()` and `strip_comments()` are covered only by their result,
the macros' texts and lines without comments; the splitting of the file into
sections is left out.

In occs and llama: `%union` and fields, the listing, the text of actions and the
rewriting of `$$` and `$n` in it (only how far below the top of the stack
an action looks), the value stack of llama's parser, and how the parsers mark, terminate and
restore the text of tokens; the last couples them to `InputBuffer` and is modelled
from the other side, as the marking parser of `LexDriver`. An action that ends
the parse leaves the lexeme terminated (occs.m:474), and the character is put back
only if `yylineno` is not 0 (occs.m:476). Declarations of tokens, precedences and
synchronising tokens are part of a file. The bootstrap parser of grammar files
(`llpar.c`) is the order of its calls; its recovery from errors in the file is
not modelled. Items of `yystate.c` are values: they are recycled through a free
list linked by their production (yystate.c:318), which the model does not have;
nor are equal rows of the tables shared.
