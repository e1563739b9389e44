---------------------------- MODULE MCLifecycle ----------------------------
(***************************************************************************)
(* Model-checking instances of Lifecycle.  The callers of one kind, and    *)
(* the tasks, are interchangeable: no definition tells two of them apart.  *)
(***************************************************************************)
EXTENDS LifecycleRefinement, TLC

Symmetry == Permutations(Starters) \cup Permutations(Stoppers) \cup Permutations(Tasks)

=============================================================================
