---------------------------- MODULE MCContainers ----------------------------
(* A heap shared by a ring and a queue, and two data values.  Addresses are*)
(* interchangeable: the allocator returns any free one.                    *)
EXTENDS Containers, TLC

Symmetry == Permutations(Cell) \cup Permutations(Data)
=============================================================================
