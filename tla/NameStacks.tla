----------------------------- MODULE NameStacks -----------------------------
(***************************************************************************)
(* What a symbol table promises: for every name the symbols that have it,  *)
(* the newest hiding the others until it is deleted.                       *)
(***************************************************************************)
EXTENDS Sequences, SequencesExt

CONSTANTS Syms, name, NULL

VARIABLES
  in,     \* the symbols in the table
  stacks, \* for every name its symbols, newest first
  found   \* what the last search returned

Init ==
  /\ in = {} /\ stacks = [n \in {name[s] : s \in Syms} |-> <<>>]
  /\ found = NULL

Add(s) ==
  /\ s \notin in /\ in' = in \cup {s}
  /\ stacks' = [stacks EXCEPT ![name[s]] = <<s>> \o @]
  /\ UNCHANGED found

\* A symbol is taken out of its stack, wherever it is.
Delete(s) ==
  /\ s \in in /\ in' = in \ {s}
  /\ LET stack == stacks[name[s]]
     IN \E i \in DOMAIN stack :
          stack[i] = s /\ stacks' = [stacks EXCEPT ![name[s]] = RemoveAt(stack, i)]
  /\ UNCHANGED found

Find(n) ==
  /\ UNCHANGED <<in, stacks>>
  /\ found' = IF stacks[n] = <<>> THEN NULL ELSE Head(stacks[n])

Next ==
  \/ \E s \in Syms : Add(s) \/ Delete(s)
  \/ \E n \in DOMAIN stacks : Find(n)

Spec == Init /\ [][Next]_<<in, stacks, found>>
==============================================================================
