------------------------------ MODULE RingSpec ------------------------------
(***************************************************************************)
(* What the ring of lab4 (src/lab4/src/ring) promises, without pointers: a *)
(* cyclic sequence, written as a TLA+ sequence whose LAST element is the   *)
(* one the caller's "current" pointer designates and whose FIRST element   *)
(* is the one "next" would move to.  The operators are used by the module  *)
(* ThreadManager, whose list of children is such a ring; the               *)
(* specification is the abstract one that the pointers of module Ring are  *)
(* shown to implement.                                                     *)
(***************************************************************************)
EXTENDS Sequences, SequencesExt

CONSTANTS Element,      \* what the ring holds
          NULL          \* the value of a call that returns a null pointer

VARIABLES list,         \* the elements, the current one last
          returned      \* what the last call of remove or data returned

rsVars == <<list, returned>>

-----------------------------------------------------------------------------
Added(l, e) == Append(l, e)             \* e follows current and is current
Removed(l) == Front(l)                  \* the element before becomes current
Advanced(l) == Append(Tail(l), Head(l))
Retreated(l) == <<Last(l)>> \o Front(l)

(* Not the code: the turn stays where it is.                               *)
FollowingSame(l, e) == e

(* The element that follows e on the ring.                                 *)
Following(l, e) ==
    LET i == CHOOSE k \in DOMAIN l : l[k] = e
    IN  IF i = Len(l) THEN l[1] ELSE l[i + 1]

-----------------------------------------------------------------------------
RSInit == list = <<>> /\ returned = NULL

RSAdd(e) == list' = Added(list, e) /\ UNCHANGED returned

RSRemove ==
    /\ returned' = IF list = <<>> THEN NULL ELSE Last(list)
    /\ list' = IF list = <<>> THEN <<>> ELSE Removed(list)

RSNext == list # <<>> /\ list' = Advanced(list) /\ UNCHANGED returned

RSPrevious == list # <<>> /\ list' = Retreated(list) /\ UNCHANGED returned

RSData ==
    /\ returned' = IF list = <<>> THEN NULL ELSE Last(list)
    /\ UNCHANGED list

RSStep ==
    \/ \E e \in Element : RSAdd(e)
    \/ RSRemove
    \/ RSNext
    \/ RSPrevious
    \/ RSData

RSSpec == RSInit /\ [][RSStep]_rsVars
=============================================================================
