----------------------------- MODULE Containers -----------------------------
(***************************************************************************)
(* The two containers of lab4 in one process: a ring and a queue that draw *)
(* their elements from the same heap, so that an address the one frees is  *)
(* handed to the other and what the queue loses is lost to both.           *)
(***************************************************************************)
EXTENDS Ring

VARIABLES head, allocated, link, item, polled, crashed

Q == INSTANCE Queue

calledQueue == <<head, allocated, link, item, polled, crashed>>

vars == <<ringVars, calledQueue>>

FreeCells == Cell \ (live \cup allocated)   \* Cell is the heap

Init == RingInit /\ Q!QueueInit

RingCall ==
    /\ \/ \E c \in FreeCells, d \in Data : Add(c, d)
       \/ Remove
       \/ Next
       \/ Previous
       \/ GetData
    /\ UNCHANGED calledQueue

QueueCall ==
    /\ \/ \E c \in FreeCells, d \in Data : Q!Offer(c, d)
       \/ FreeCells = {} /\ Q!OfferNoMemory
       \/ Q!Poll
       \/ Q!Empty
    /\ UNCHANGED ringVars

ContainersNext == ~crashed /\ (RingCall \/ QueueCall)

ContainersSpec == Init /\ [][ContainersNext]_vars

-----------------------------------------------------------------------------
TypeOK ==
    /\ RingTypeOK
    /\ head \in Cell \cup {NULL}
    /\ allocated \subseteq Cell
    /\ link \in [Cell -> Cell \cup {NULL}]
    /\ item \in [Cell -> Data \cup {NULL}]
    /\ polled \in Data \cup {NULL}
    /\ crashed \in BOOLEAN

(* See ImplementsQueue in module Queue.                                    *)
QueueImplements == Q!ImplementsQueue
=============================================================================
