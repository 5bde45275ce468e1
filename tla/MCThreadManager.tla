-------------------------- MODULE MCThreadManager ---------------------------
(* The children are interchangeable: the allocator returns any free        *)
(* address.                                                                *)
EXTENDS ThreadManager, TLC

Symmetry == Permutations(Node)
=============================================================================
