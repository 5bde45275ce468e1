------------------------------- MODULE Concat -------------------------------
(***************************************************************************)
(* What the concatenation library of lab5 (src/lab5/src/zox_aio) promises: *)
(* every file added gets a place of its own in the target, the places      *)
(* follow each other, each file is copied into its place from the first    *)
(* byte to the last, several files at a time, and the context is closed    *)
(* when everything has been copied.                                        *)
(***************************************************************************)
EXTENDS Integers

CONSTANTS File,
          Position,     \* of a byte in the target
          HOLE          \* a byte of the target that was never written

VARIABLES size,         \* of each file
          start,        \* where its place begins, -1: it has none yet
          length,       \* of all the places together
          copied,       \* how many bytes of each file have arrived
          target,
          closed

cVars == <<size, start, length, copied, target, closed>>

-----------------------------------------------------------------------------
CInit ==
    /\ size \in [File -> Nat]
    /\ start = [f \in File |-> -1]
    /\ length = 0
    /\ copied = [f \in File |-> 0]
    /\ target = [p \in Position |-> HOLE]
    /\ closed = FALSE

Reserve(f) ==
    /\ start[f] = -1
    /\ start' = [start EXCEPT ![f] = length]
    /\ length' = length + size[f]
    /\ UNCHANGED <<size, copied, target, closed>>

(* The bytes of f that follow those copied; byte i of f is <<f, i>>.       *)
Copy(f) ==
    /\ start[f] # -1
    /\ \E n \in 1 .. size[f] - copied[f] :
          /\ copied' = [copied EXCEPT ![f] = @ + n]
          /\ target' = [p \in Position |->
                            IF p - start[f] \in copied[f] .. copied[f] + n - 1
                            THEN <<f, p - start[f]>> ELSE target[p]]
    /\ UNCHANGED <<size, start, length, closed>>

Close ==
    /\ \A f \in File : start[f] # -1 => copied[f] = size[f]
    /\ closed' = TRUE
    /\ UNCHANGED <<size, start, length, copied, target>>

CNext == (\E f \in File : Reserve(f) \/ Copy(f)) \/ Close

CSpec == CInit /\ [][CNext]_cVars
=============================================================================
