-------------------------------- MODULE Ring --------------------------------
(***************************************************************************)
(* The doubly linked ring of lab4, src/lab4/src/ring/ring.c, at the level  *)
(* of its pointers.  A cell is the address of a zox_ring_element; malloc   *)
(* returns any cell that is free, so an address is reused as soon as the   *)
(* element that had it is freed.  Freeing a cell forgets its fields: a     *)
(* call that followed a stale pointer would find NULL there.               *)
(* The caller's pointer to the ring is the variable current.               *)
(***************************************************************************)
EXTENDS FiniteSets, Integers

CONSTANTS Cell,         \* addresses the allocator can hand out
          Data,         \* what elements carry
          NULL          \* the null pointer

ASSUME NullAssumption == NULL \notin Cell
ASSUME HeapAssumption == IsFiniteSet(Cell)

VARIABLES current,      \* the cell designated, or NULL
          live,         \* the cells allocated as ring elements
          next,         \* the three fields of each cell
          previous,
          data,
          result        \* what the last call of remove or data returned

ringVars == <<current, live, next, previous, data, result>>

-----------------------------------------------------------------------------
RingInit ==
    /\ current = NULL
    /\ live = {}
    /\ next = [c \in Cell |-> NULL]
    /\ previous = [c \in Cell |-> NULL]
    /\ data = [c \in Cell |-> NULL]
    /\ result = NULL

(* Not the code: an add that leaves the back pointer of the element after  *)
(* the new one as it was.                                                  *)
AddOneWay(c, d) ==
    /\ c \in Cell \ live
    /\ live' = live \cup {c}
    /\ data' = [data EXCEPT ![c] = d]
    /\ current' = c
    /\ next' = IF current = NULL
               THEN [next EXCEPT ![c] = c]
               ELSE [next EXCEPT ![c] = next[current], ![current] = c]
    /\ previous' = [previous EXCEPT
                        ![c] = IF current = NULL THEN c ELSE current]
    /\ UNCHANGED result

(* add: the new element follows the current one and becomes current.  When *)
(* malloc fails the call has no effect.                                    *)
Add(c, d) ==
    /\ c \in Cell \ live
    /\ live' = live \cup {c}
    /\ data' = [data EXCEPT ![c] = d]
    /\ current' = c
    /\ IF current = NULL
       THEN /\ next' = [next EXCEPT ![c] = c]
            /\ previous' = [previous EXCEPT ![c] = c]
       ELSE LET after == next[current]
            IN  /\ next' = [next EXCEPT ![c] = after, ![current] = c]
                /\ previous' = [previous EXCEPT ![c] = current, ![after] = c]
    /\ UNCHANGED result

(* Not the code: a remove after which the element that followed is current.*)
RemoveToNext ==
    /\ current # NULL
    /\ LET before == previous[current]
           after == next[current]
       IN  /\ result' = data[current]
           /\ live' = live \ {current}
           /\ data' = [data EXCEPT ![current] = NULL]
           /\ current' = IF after = current THEN NULL ELSE after
           /\ next' = [next EXCEPT ![before] = after, ![current] = NULL]
           /\ previous' = [previous EXCEPT ![after] = before,
                                           ![current] = NULL]

(* remove: the current element is unlinked and freed, the element before   *)
(* it becomes current.                                                     *)
Remove ==
    IF current = NULL
    THEN result' = NULL /\ UNCHANGED <<current, live, next, previous, data>>
    ELSE LET before == previous[current]
             after == next[current]
         IN  /\ result' = data[current]
             /\ live' = live \ {current}
             /\ data' = [data EXCEPT ![current] = NULL]
             /\ IF after = current
                THEN /\ current' = NULL
                     /\ next' = [next EXCEPT ![current] = NULL]
                     /\ previous' = [previous EXCEPT ![current] = NULL]
                ELSE /\ current' = before
                     /\ next' = [next EXCEPT ![before] = after,
                                             ![current] = NULL]
                     /\ previous' = [previous EXCEPT ![after] = before,
                                                     ![current] = NULL]

Next ==
    /\ current # NULL
    /\ current' = next[current]
    /\ UNCHANGED <<live, next, previous, data, result>>

Previous ==
    /\ current # NULL
    /\ current' = previous[current]
    /\ UNCHANGED <<live, next, previous, data, result>>

GetData ==
    /\ result' = IF current = NULL THEN NULL ELSE data[current]
    /\ UNCHANGED <<current, live, next, previous, data>>

RingStep ==
    \/ \E c \in Cell, d \in Data : Add(c, d)
    \/ Remove
    \/ Next
    \/ Previous
    \/ GetData

RingSpecification == RingInit /\ [][RingStep]_ringVars

-----------------------------------------------------------------------------
RingTypeOK ==
    /\ current \in Cell \cup {NULL}
    /\ live \subseteq Cell
    /\ next \in [Cell -> Cell \cup {NULL}]
    /\ previous \in [Cell -> Cell \cup {NULL}]
    /\ data \in [Cell -> Data \cup {NULL}]
    /\ result \in Data \cup {NULL}

(* The two directions agree: an element's neighbours are allocated, and one*)
(* step there and back leads to where it started.                          *)
Mutual ==
    \A c \in live : /\ next[c] \in live
                    /\ previous[c] \in live
                    /\ previous[next[c]] = c
                    /\ next[previous[c]] = c

(* Only the whole ring is closed under next: there is one cycle.           *)
OneCycle ==
    \A S \in SUBSET live :
        S # {} /\ (\A c \in S : next[c] \in S) => S = live

(* After any sequence of calls the allocated elements form one ring, the   *)
(* same in both directions, and the caller's pointer is on it: no call     *)
(* leaves it on a freed element or loses part of the ring (ring.c: the     *)
(* assignments of add and remove, which have to agree also when the ring   *)
(* has one or two elements and neighbours coincide).                       *)
Linked ==
    /\ current \in live \/ (current = NULL /\ live = {})
    /\ Mutual
    /\ OneCycle

(* The data met by going once around, starting after current.              *)
Walk ==
    LET at[i \in 0 .. Cardinality(live)] ==
            IF i = 0 THEN current ELSE next[at[i - 1]]
    IN  [i \in 1 .. Cardinality(live) |-> data[at[i]]]

(* The pointers implement the cyclic sequence of module RingSpec: going    *)
(* once around meets every element exactly once, in the order in which     *)
(* add, remove, next and previous would leave a sequence, and remove and   *)
(* data return its current element.                                        *)
Abstract == INSTANCE RingSpec WITH Element <- Data, list <- Walk,
                                   returned <- result
ImplementsRing == Abstract!RSSpec
=============================================================================
