------------------------------- MODULE Queue --------------------------------
(***************************************************************************)
(* The singly linked queue of lab4, src/lab4/src/queue/queue.c, at the     *)
(* level of its pointers.  The caller's pointer, which the code calls tail *)
(* although data is popped from it, is the variable head.                  *)
(***************************************************************************)
EXTENDS Integers, FiniteSets, Sequences

CONSTANTS Cell, Data, NULL

VARIABLES head,         \* the first element, or NULL
          allocated,    \* the cells allocated as queue elements, the ones
                        \*   that can no longer be reached included
          link,         \* the next field of each cell
          item,         \* the data field of each cell
          polled,       \* what the last poll returned
          crashed       \* offer wrote through the null pointer of a failed
                        \*   malloc

queueVars == <<head, allocated, link, item, polled, crashed>>

-----------------------------------------------------------------------------
QueueInit ==
    /\ head = NULL
    /\ allocated = {}
    /\ link = [c \in Cell |-> NULL]
    /\ item = [c \in Cell |-> NULL]
    /\ polled = NULL
    /\ crashed = FALSE

(* The cells from head on: Chain[i] is the i-th, NULL past the end.        *)
Chain ==
    LET at[i \in 1 .. Cardinality(Cell) + 1] ==
            IF i = 1 THEN head
            ELSE IF at[i - 1] = NULL THEN NULL ELSE link[at[i - 1]]
    IN  at

ChainLength == Cardinality({i \in DOMAIN Chain : Chain[i] # NULL})

LastCell == Chain[ChainLength]

(* Not the code: an offer that links the new element behind the first one  *)
(* without looking for the last.                                           *)
OfferSecond(c, d) ==
    /\ c \in Cell \ allocated
    /\ allocated' = allocated \cup {c}
    /\ item' = [item EXCEPT ![c] = d]
    /\ head' = IF head = NULL THEN c ELSE head
    /\ link' = IF head = NULL THEN link ELSE [link EXCEPT ![head] = c]
    /\ UNCHANGED <<polled, crashed>>

(* offer: the loop that looks for the last element advances the caller's   *)
(* own pointer, which is left on the element the new one is appended to.   *)
Offer(c, d) ==
    /\ c \in Cell \ allocated
    /\ allocated' = allocated \cup {c}
    /\ item' = [item EXCEPT ![c] = d]
    /\ IF head = NULL
       THEN /\ head' = c
            /\ link' = [link EXCEPT ![c] = NULL]
       ELSE /\ head' = LastCell
            /\ link' = [link EXCEPT ![c] = NULL, ![LastCell] = c]
    /\ UNCHANGED <<polled, crashed>>

(* malloc failed and offer does not look at what it returned.              *)
OfferNoMemory ==
    /\ crashed' = TRUE
    /\ UNCHANGED <<head, allocated, link, item, polled>>

(* Frees a set of cells: what they hold is forgotten.                      *)
Freed(field, cells) == [c \in Cell |-> IF c \in cells THEN NULL ELSE field[c]]

Free(cells) ==
    /\ allocated' = allocated \ cells
    /\ link' = Freed(link, cells)
    /\ item' = Freed(item, cells)

(* Not the code: a poll that hands out the element instead of its data.    *)
PollElement ==
    /\ polled' = head
    /\ head' = IF head = NULL THEN NULL ELSE link[head]
    /\ Free({head})
    /\ UNCHANGED crashed

Poll ==
    /\ polled' = IF head = NULL THEN NULL ELSE item[head]
    /\ head' = IF head = NULL THEN NULL ELSE link[head]
    /\ Free({head})
    /\ UNCHANGED crashed

(* erase and empty free every element but the last; erase also frees what  *)
(* the elements carry, which is not modelled.                              *)
Empty ==
    /\ head # NULL
    /\ head' = LastCell
    /\ Free({Chain[i] : i \in 1 .. ChainLength - 1})
    /\ UNCHANGED <<polled, crashed>>

-----------------------------------------------------------------------------
Waiting == [i \in 1 .. ChainLength |-> item[Chain[i]]]

(* The pointers implement the two-place queue of module QueueSpec: what    *)
(* poll returns, call after call, is exactly what is left after each offer *)
(* forgot everything but the last waiting element.  An element that poll or*)
(* empty freed while it can still be reached would show: it has no data.   *)
Abstract == INSTANCE QueueSpec WITH Element <- Data, waiting <- Waiting,
                                    returned <- polled
ImplementsQueue == Abstract!QSSpec
=============================================================================
