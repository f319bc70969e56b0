----------------------------- MODULE HashTable ------------------------------
(***************************************************************************)
(* compiler/lib/hash.c: buckets of symbols, each linked to the next and    *)
(* back to the POINTER that points at it, be that the bucket or the next   *)
(* of the symbol before, so that a symbol is deleted without a search.     *)
(* hash_print_tab() goes through the table and calls back for every        *)
(* symbol; yypatch.c:114 deletes symbols from within such a callback.      *)
(*                                                                         *)
(* Two symbols compare equal when they have the same name.  hash_new_sym() *)
(* and hash_free_sym() only allocate.  hash_next_sym() has no caller.      *)
(***************************************************************************)
EXTENDS Integers, Sequences, FiniteSets, FiniteSetsExt

CONSTANTS
  Syms,     \* the symbols there may be
  name,     \* [Syms -> names]
  hash,     \* [names -> Nat]: fp_hash
  max_size, \* the number of buckets
  NULL

Names   == {name[s] : s \in Syms}
Buckets == 0 .. max_size - 1
\* The pointers that may point at a symbol.
Slots   == {<<"table", i>> : i \in Buckets} \cup {<<"next", s>> : s \in Syms}

ASSUME TableAssumption ==
  /\ max_size \in Nat \ {0} /\ IsFiniteSet(Syms) /\ NULL \notin Syms
  /\ name \in [Syms -> Names] /\ hash \in [Names -> Nat]

VARIABLES
  held,     \* what the slots point at: a symbol or NULL
  prev,     \* [Syms -> Slots \cup {NULL}]
  curr_num,
  in,       \* the symbols in the table
  found,    \* what hash_find_sym() returned last
  walk,     \* hash_print_tab(): the symbol being called back for, NULL if none
  bucket,   \* and the bucket it is in
  visited   \* the symbols called back for before it

table == <<held, prev, curr_num, in>>
going == <<walk, bucket, visited>>
vars  == <<table, found, going>>

\* hash_make_tab(): all zero.
Init ==
  /\ held = [p \in Slots |-> NULL]
  /\ prev = [s \in Syms |-> NULL] /\ curr_num = 0 /\ in = {}
  /\ found = NULL
  /\ walk = NULL /\ bucket = max_size /\ visited = {}

Walking == bucket < max_size
SlotOf(n) == <<"table", hash[n] % max_size>>
next(s) == held[<<"next", s>>]

\* A symbol is put in front of its bucket.  No caller adds one while the table
\* is being gone through.
hash_add_sym(s) ==
  /\ s \notin in /\ ~Walking
  /\ LET p   == SlotOf(name[s])
         tmp == held[p]
     IN /\ held' = [held EXCEPT ![p] = s, ![<<"next", s>>] = tmp]
        /\ prev' = [t \in Syms |-> IF t = s THEN p
                                   ELSE IF t = tmp THEN <<"next", s>> ELSE prev[t]]
  /\ curr_num' = curr_num + 1 /\ in' = in \cup {s}
  /\ UNCHANGED <<found, going>>

hash_del_sym_back_kept(s) ==
  /\ s \in in /\ s # walk
  /\ held' = [held EXCEPT ![prev[s]] = next(s)]
  /\ curr_num' = curr_num - 1 /\ in' = in \ {s}
  /\ UNCHANGED <<prev, found, going>>

hash_del_sym_uncounted(s) ==
  /\ s \in in /\ s # walk
  /\ held' = [held EXCEPT ![prev[s]] = next(s)]
  /\ prev' = [t \in Syms |-> IF t = next(s) THEN prev[s] ELSE prev[t]]
  /\ in' = in \ {s} /\ UNCHANGED <<curr_num, found, going>>

\* A symbol is unlinked; it keeps its own pointers.  A callback deletes others
\* (the actions of its productions) but not the symbol it is called for.
hash_del_sym(s) ==
  /\ s \in in /\ s # walk
  /\ held' = [held EXCEPT ![prev[s]] = next(s)]
  /\ prev' = [t \in Syms |-> IF t = next(s) THEN prev[s] ELSE prev[t]]
  /\ curr_num' = curr_num - 1 /\ in' = in \ {s}
  /\ UNCHANGED <<found, going>>

-----------------------------------------------------------------------------
(* Going along a chain. *)

\* The symbols linked from a slot, as a sequence.
Chain(p) ==
  LET nth[i \in 1 .. Cardinality(Syms)] ==
        IF i = 1 THEN held[p]
        ELSE LET last == nth[i - 1] IN IF last = NULL THEN NULL ELSE next(last)
      n == Cardinality({i \in DOMAIN nth : nth[i] # NULL})
  IN [i \in 1 .. n |-> nth[i]]

\* The symbols linked in the buckets.
Linked == UNION {Range(Chain(<<"table", i>>)) : i \in Buckets}

hash_find_sym_last(n) ==
  LET c    == Chain(SlotOf(n))
      same == {i \in DOMAIN c : name[c[i]] = n}
  IN found' = IF same = {} THEN NULL ELSE c[Max(same)]
\* hash_find_sym(): the first of the bucket that compares equal.
hash_find_sym(n) ==
  LET c    == Chain(SlotOf(n))
      same == {i \in DOMAIN c : name[c[i]] = n}
  IN found' = IF same = {} THEN NULL ELSE c[Min(same)]

Find(n) == hash_find_sym(n) /\ UNCHANGED <<table, going>>

Enter_last_missed(from) ==
  LET used == {i \in from .. max_size - 2 : held[<<"table", i>>] # NULL}
  IN /\ bucket' = IF used = {} THEN max_size ELSE Min(used)
     /\ walk' = IF used = {} THEN NULL ELSE held[<<"table", Min(used)>>]
\* hash_print_tab(): the first symbol of the first bucket, from "from" on, that
\* has any.
Enter(from) ==
  LET used == {i \in from .. max_size - 1 : held[<<"table", i>>] # NULL}
  IN /\ bucket' = IF used = {} THEN max_size ELSE Min(used)
     /\ walk' = IF used = {} THEN NULL ELSE held[<<"table", Min(used)>>]

hash_print_tab ==
  /\ ~Walking /\ Enter(0)
  /\ UNCHANGED <<table, found, visited>>

\* The callback returns, and the next symbol is read.
NextSym ==
  /\ Walking
  /\ IF next(walk) # NULL THEN walk' = next(walk) /\ UNCHANGED bucket
     ELSE Enter(bucket + 1)
  /\ visited' = IF bucket' = max_size THEN {} ELSE visited \cup {walk}
  /\ UNCHANGED <<table, found>>

Next ==
  \/ \E s \in Syms : hash_add_sym(s) \/ hash_del_sym(s)
  \/ \E n \in Names : Find(n)
  \/ hash_print_tab \/ NextSym

Spec == Init /\ [][Next]_vars

-----------------------------------------------------------------------------
(* Properties. *)

\* The table's pointers (hash.h) lead to symbols, the back pointers to slots; and
\* curr_num is the number of symbols linked in the buckets, which is the size of the
\* array in which hash_print_tab() collects them to be sorted.
TypeOK ==
  /\ held \in [Slots -> Syms \cup {NULL}]
  /\ prev \in [Syms -> Slots \cup {NULL}]
  /\ in \subseteq Syms /\ found \in Syms \cup {NULL}
  /\ curr_num = Cardinality(Linked)
  /\ walk \in Syms \cup {NULL} /\ bucket \in 0 .. max_size
  /\ visited \subseteq Syms

\* The slots of the table and of the symbols in it.
Live == {<<"table", i>> : i \in Buckets} \cup {<<"next", s>> : s \in in}

\* hash_del_sym() follows no wrong pointer: what a slot of the table points at
\* is in the table and points back at that slot, and every symbol of the table
\* is pointed at by the slot it points back at.
PointersAgree ==
  /\ \A p \in Live : held[p] # NULL => held[p] \in in /\ prev[held[p]] = p
  /\ \A s \in in : prev[s] \in Live /\ held[prev[s]] = s

\* A walk during which others are deleted calls back for no deleted symbol and
\* for none twice, and when it ends it has called back for every symbol left.
WalkIsExact ==
  [][ /\ Walking' => walk' \in in' \ visited'
      /\ Walking /\ ~Walking' => in' \subseteq visited \cup {walk} ]_vars

\* The symbols of a chain that have a name, in the same order.
Named(c, n) ==
  LET pick[i \in 0 .. Len(c)] ==
        IF i = 0 THEN <<>>
        ELSE IF name[c[i]] = n THEN Append(pick[i - 1], c[i]) ELSE pick[i - 1]
  IN pick[Len(c)]

Stacks == [n \in Names |-> Named(Chain(SlotOf(n)), n)]

\* The buckets implement stacks of symbols by name: a symbol hides the older ones
\* of its name, and deleting any uncovers the right one.
Abstract == INSTANCE NameStacks WITH stacks <- Stacks
ImplementsNameStacks == Abstract!Spec
==============================================================================
