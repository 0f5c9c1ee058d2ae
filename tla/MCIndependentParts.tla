-------------------------- MODULE MCIndependentParts --------------------------
(* Instances of IndependentParts for TLC. The objects of Expected and the     *)
(* items of List are the same three model values, which are interchangeable.  *)
EXTENDS IndependentParts, TLC

Things == Permutations(Objects)
=============================================================================
