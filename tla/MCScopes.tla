------------------------------ MODULE MCScopes ------------------------------
(***************************************************************************)
(* Two nested tables of two buckets; three of the names collide, so that a *)
(* chain has a head, a middle and an end.                                  *)
(***************************************************************************)
EXTENDS Scopes, TLC

SomeNames == {"", "_entry", "a", "b", "c"}
SomeHash  == [n \in SomeNames |-> IF n = "_entry" THEN 1 ELSE 0]

(* The nodes are told apart only by who holds them.                        *)
NodeSymmetry == Permutations(Values)
=============================================================================
