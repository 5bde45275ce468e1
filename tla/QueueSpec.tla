----------------------------- MODULE QueueSpec ------------------------------
(***************************************************************************)
(* What the queue of lab4 (src/lab4/src/queue) amounts to, without         *)
(* pointers.  It is not a FIFO queue: offer walks the caller's own head    *)
(* pointer to the last element before it appends, so whatever was waiting  *)
(* before the last element is out of reach.  At most two elements can ever *)
(* be polled.  The operators are used by module ThreadManager, the         *)
(* specification is the one module Queue is shown to implement.            *)
(***************************************************************************)
EXTENDS Sequences, SequencesExt

CONSTANTS Element, NULL

VARIABLES waiting,      \* what poll would return, call after call
          returned      \* what the last poll returned

qsVars == <<waiting, returned>>

-----------------------------------------------------------------------------
Offered(q, d) == IF q = <<>> THEN <<d>> ELSE <<Last(q), d>>
Polled(q) == Tail(q)
Emptied(q) == IF q = <<>> THEN q ELSE <<Last(q)>>

-----------------------------------------------------------------------------
QSInit == waiting = <<>> /\ returned = NULL

QSOffer(d) == waiting' = Offered(waiting, d) /\ UNCHANGED returned

QSPoll ==
    IF waiting = <<>>
    THEN returned' = NULL /\ UNCHANGED waiting
    ELSE returned' = Head(waiting) /\ waiting' = Polled(waiting)

QSEmpty == waiting' = Emptied(waiting) /\ UNCHANGED returned

QSStep == (\E d \in Element : QSOffer(d)) \/ QSPoll \/ QSEmpty

QSSpec == QSInit /\ [][QSStep]_qsVars
=============================================================================
