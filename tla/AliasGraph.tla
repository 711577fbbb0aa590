----------------------------- MODULE AliasGraph -----------------------------
(***************************************************************************)
(* alias_recursion_productivity: how a type alias refers to itself.  An      *)
(* alias edge is neutral when the target is named directly, productive when  *)
(* an object, array or other structural boundary lies between.              *)
(***************************************************************************)
EXTENDS Relation

\* The aliases on a cycle of edges in R.
OnCycle(R, S) == {a \in S : TransitiveClosure(R, S)[a, a]}

\* A cycle of neutral edges alone never reaches a structure.
Unproductive(neutral, S) ==
    OnCycle([a, b \in S |-> <<a, b>> \in neutral], S)

Productive(neutral, productive, S) ==
    OnCycle([a, b \in S |-> <<a, b>> \in neutral \cup productive], S)
        \ Unproductive(neutral, S)
=============================================================================
