---------------------------- MODULE MCInputBuffer ----------------------------
(***************************************************************************)
(* Constants for the model checker.  A buffer of 8: MAXLEX = 2, LOOK = 1.  *)
(* The files run through every length at which a refill can end, several   *)
(* refills long, with newlines at different places of the buffer.          *)
(***************************************************************************)
EXTENDS InputBuffer

MCChars == {"nul", "nl", "a", "b"}

\* A file of n characters, with a newline in every third place.
Pattern(n, shift) ==
  [i \in 1 .. n |-> CASE (i + shift) % 3 = 0 -> "nl"
                      [] (i + shift) % 3 = 1 -> "a"
                      [] OTHER -> "b"]
MCFiles    == {Pattern(n, 1) : n \in {0, 1, 6, 7, 10}}
==============================================================================
