-------------------------------- MODULE MinDfa --------------------------------
(***************************************************************************)
(* compiler/lex/mindfa.c: minimisation.  The DFA's states start in one     *)
(* group for each accept string; passes over the groups move the states    *)
(* that do not behave as the first of their group into a new group, until  *)
(* a pass changes nothing.  The new group is filled, and _ingroup changed, *)
(* while the group it comes from is still being read.                      *)
(***************************************************************************)
EXTENDS Dfa

VARIABLES
  groups,   \* _groups, the one being filled included
  ngroups,  \* _ngroups
  ingroup,  \* _ingroup
  old_numgroups,
  current,  \* the group being processed
  member,   \* the member of it last looked at, NULL if it is not begun
  mindtran, minaccept  \* the table that replaces _dtran, and its accept strings

minOnly == <<groups, ngroups, ingroup, old_numgroups, current, member>>
minVars == <<dfaVars, minOnly, mindtran, minaccept>>

States == 0 .. nstates - 1

MinInit ==
  /\ DfaInit
  /\ groups = [g \in {} |-> {}] /\ ngroups = 0 /\ ingroup = [q \in {} |-> 0]
  /\ old_numgroups = 0 /\ current = 0 /\ member = NULL
  /\ mindtran = [e \in {} |-> F] /\ minaccept = [g \in {} |-> 0]

\* init_groups(): a state joins the group of an earlier one with the same
\* accept string.
FirstAlike(q) == Least({p \in States : dstates[p].accept = dstates[q].accept})
InitialGroup(q) == Cardinality({p \in 0 .. FirstAlike(q) - 1 : FirstAlike(p) = p})

InitGroups ==
  /\ phase = "dfa"
  /\ ngroups' = Cardinality({p \in States : FirstAlike(p) = p})
  /\ ingroup' = [q \in States |-> InitialGroup(q)]
  /\ groups' = [g \in 0 .. ngroups' - 1 |-> {q \in States : InitialGroup(q) = g}]
  /\ old_numgroups' = ngroups' /\ current' = 0 /\ member' = NULL
  /\ phase' = "split"
  /\ UNCHANGED <<nodes, sstate, nstates, dstates, dtran, last_marked, ch, mindtran, minaccept>>

Splitting == phase = "split" /\ current < ngroups

SkipSmallGroup ==
  /\ Splitting /\ member = NULL /\ Cardinality(groups[current]) <= 1
  /\ current' = current + 1
  /\ UNCHANGED <<dfaVars, groups, ngroups, ingroup, old_numgroups, member, mindtran, minaccept>>

BeginGroup ==
  /\ Splitting /\ member = NULL /\ Cardinality(groups[current]) > 1
  /\ groups' = [g \in 0 .. ngroups |-> IF g = ngroups THEN {} ELSE groups[g]]
  /\ member' = Least(groups[current])
  /\ UNCHANGED <<dfaVars, ngroups, ingroup, old_numgroups, current, mindtran, minaccept>>

\* Two states of a group go to different groups on some character, or only one
\* of them goes anywhere.
GotoGroup(q, c) == IF dtran[<<q, c>>] = F THEN F ELSE ingroup[dtran[<<q, c>>]]
Differ_failure_alike(p, q) ==
  \E c \in Chars : F \notin {GotoGroup(p, c), GotoGroup(q, c)} /\ GotoGroup(p, c) # GotoGroup(q, c)
Differ_by_state(p, q) == \E c \in Chars : dtran[<<p, c>>] # dtran[<<q, c>>]
Differ(p, q) == \E c \in Chars : GotoGroup(p, c) # GotoGroup(q, c)

First == Least(groups[current])
Rest  == {q \in groups[current] : q > member}

\* The next member of the group stays in it or is moved to the new one.
Keep ==
  /\ Splitting /\ member # NULL /\ Rest # {}
  /\ ~Differ(First, Least(Rest))
  /\ member' = Least(Rest)
  /\ UNCHANGED <<dfaVars, groups, ngroups, ingroup, old_numgroups, current, mindtran, minaccept>>

Move_ingroup_kept ==
  /\ Splitting /\ member # NULL /\ Rest # {}
  /\ LET next == Least(Rest)
     IN /\ Differ(First, next)
        /\ groups' = [groups EXCEPT ![current] = @ \ {next}, ![ngroups] = @ \cup {next}]
        /\ member' = next
  /\ UNCHANGED <<dfaVars, ngroups, ingroup, old_numgroups, current, mindtran, minaccept>>
Move ==
  /\ Splitting /\ member # NULL /\ Rest # {}
  /\ LET next == Least(Rest)
     IN /\ Differ(First, next)
        /\ groups' = [groups EXCEPT ![current] = @ \ {next}, ![ngroups] = @ \cup {next}]
        /\ ingroup' = [ingroup EXCEPT ![next] = ngroups]
        /\ member' = next
  /\ UNCHANGED <<dfaVars, ngroups, old_numgroups, current, mindtran, minaccept>>

EndGroup ==
  /\ Splitting /\ member # NULL /\ Rest = {}
  /\ ngroups' = IF groups[ngroups] # {} THEN ngroups + 1 ELSE ngroups
  /\ groups' = [g \in 0 .. ngroups' - 1 |-> groups[g]]
  /\ current' = current + 1 /\ member' = NULL
  /\ UNCHANGED <<dfaVars, ingroup, old_numgroups, mindtran, minaccept>>

PassEnded == phase = "split" /\ current = ngroups

NextPass ==
  /\ PassEnded /\ old_numgroups # ngroups
  /\ old_numgroups' = ngroups /\ current' = 0
  /\ UNCHANGED <<dfaVars, groups, ngroups, ingroup, member, mindtran, minaccept>>

\* fix_dtran(): a group takes the row and the accept string of its first state.
FixDtran ==
  /\ PassEnded /\ old_numgroups = ngroups
  /\ mindtran' = [e \in (0 .. ngroups - 1) \X Chars |->
                    GotoGroup(Least(groups[e[1]]), e[2])]
  /\ minaccept' = [g \in 0 .. ngroups - 1 |->
                     [string |-> dstates[Least(groups[g])].accept,
                      anchor |-> dstates[Least(groups[g])].anchor]]
  /\ phase' = "done"
  /\ UNCHANGED <<nodes, sstate, nstates, dstates, dtran, last_marked, ch, minOnly>>

MinNext ==
  \/ DfaNext /\ UNCHANGED <<minOnly, mindtran, minaccept>>
  \/ InitGroups \/ SkipSmallGroup \/ BeginGroup \/ Keep \/ Move \/ EndGroup
  \/ NextPass \/ FixDtran

MinSpec == MinInit /\ [][MinNext]_minVars

-----------------------------------------------------------------------------
(* Properties. *)

\* _groups and _ingroup stay each other's inverse (mindfa.c:15), the group
\* being filled included, so that every state is in exactly one group.
IngroupIsInverse ==
  phase \in {"split", "done"} =>
    /\ DOMAIN ingroup = States
    /\ \A q \in States : ingroup[q] \in DOMAIN groups
    /\ \A g \in DOMAIN groups : groups[g] = {q \in States : ingroup[q] = g}

\* When a pass changes nothing, the groups are stable: the states of a group
\* have the same accept string and go to the same groups.  (Within a pass
\* this fails: a group split later changes what earlier groups were compared
\* by.)
SameGroup(p, q) == ingroup[p] = ingroup[q]
StableWhenDone ==
  phase = "done" =>
    \A p, q \in States : SameGroup(p, q) =>
      /\ dstates[p].accept = dstates[q].accept
      /\ \A c \in Chars : GotoGroup(p, c) = GotoGroup(q, c)

\* No states are kept apart that accept the same texts: states of different
\* groups are told apart by a text of at most nstates characters.  F accepts
\* nothing.
Goes(q, c)  == IF q = F THEN F ELSE dtran[<<q, c>>]
Accepts(q)  == IF q = F THEN NoString ELSE dstates[q].accept
ToldApart ==
  LET pairs == (States \cup {F}) \X (States \cup {F})
      apart[n \in 0 .. nstates] ==
        IF n = 0 THEN {e \in pairs : Accepts(e[1]) # Accepts(e[2])}
        ELSE LET before == apart[n-1]
             IN before \cup {e \in pairs : \E c \in Chars :
                               <<Goes(e[1], c), Goes(e[2], c)>> \in before}
  IN apart[nstates]
FewestStates ==
  phase = "done" =>
    LET apart == ToldApart
    IN \A p, q \in States : ~SameGroup(p, q) => <<p, q>> \in apart
==============================================================================
