--------------------------- MODULE MCWeakReferences ---------------------------
(* Instances of WeakReferences for TLC. *)
EXTENDS WeakReferences, TLC

Symmetry ==
    Permutations(Threads \ {Creator}) \cup Permutations(Strong \ {First})
        \cup Permutations(Weak)
=============================================================================
