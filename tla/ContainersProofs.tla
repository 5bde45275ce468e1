-------------------------- MODULE ContainersProofs --------------------------
(***************************************************************************)
(* Proofs about the ring of module Ring, alone and inside a process that   *)
(* also uses the queue, and about that queue (module Containers), for every*)
(* finite heap and every set of data: the ring stays one cycle and is the  *)
(* cyclic sequence of RingSpec, the queue is the two-place queue of        *)
(* QueueSpec.                                                              *)
(***************************************************************************)
EXTENDS Containers, Iteration, SequenceTheorems, FunctionTheorems, TLAPS

(* Linked is inductive once the fields are known to be functions on the    *)
(* addresses.                                                              *)
RingInv == RingTypeOK /\ Linked

-----------------------------------------------------------------------------

(* An empty ring is well linked.                                           *)
LEMMA RingInitial == RingInit => RingInv
  BY DEF RingInit, RingInv, RingTypeOK, Linked, Mutual, OneCycle

(* An add inserts the new element between the current one and the one that *)
(* follows it, also when those two are the same element.                   *)
LEMMA AddLinked ==
  ASSUME NEW c \in Cell, NEW d \in Data, RingInv, Add(c, d)
  PROVE  RingInv'
  <1>1. RingTypeOK'
    BY DEF RingInv, RingTypeOK, Linked, Mutual, Add
  <1>2. CASE current = NULL
    BY <1>1, <1>2, NullAssumption
       DEF RingInv, RingTypeOK, Linked, Mutual, OneCycle, Add
  <1>3. CASE current # NULL
    <2> DEFINE after == next[current]
    <2>1. /\ current \in live /\ after \in live /\ live \subseteq Cell
          /\ c \notin live /\ live' = live \cup {c} /\ current' = c
          /\ next' = [next EXCEPT ![c] = after, ![current] = c]
          /\ previous' = [previous EXCEPT ![c] = current, ![after] = c]
      BY <1>3 DEF RingInv, RingTypeOK, Linked, Mutual, Add
    <2>2. \A e \in live' : next'[e] =
             IF e = c THEN after ELSE IF e = current THEN c ELSE next[e]
      BY <2>1 DEF RingInv, RingTypeOK
    <2>3. \A e \in live' : previous'[e] =
             IF e = c THEN current ELSE IF e = after THEN c ELSE previous[e]
      BY <2>1 DEF RingInv, RingTypeOK
    <2>4. Mutual'
      <3>0. /\ next'[c] = after /\ previous'[c] = current
            /\ next'[current] = c /\ previous'[after] = c
            /\ {c, after, current} \subseteq live'
            /\ \A e \in live' \ {c} : e \in live
        BY <2>1, <2>2, <2>3
      <3>1. \A e \in live : /\ e # current => next[e] # after
                            /\ e # after => previous[e] # current
        BY <2>1 DEF RingInv, Linked, Mutual
      <3>2. ASSUME NEW e \in live'
            PROVE  /\ next'[e] \in live' /\ previous'[e] \in live'
                   /\ previous'[next'[e]] = e /\ next'[previous'[e]] = e
        <4>1. CASE e = c
          BY <3>0, <4>1
        <4>2. CASE e # c
          <5> DEFINE n == next[e]
                     p == previous[e]
          <5>1. /\ e \in live /\ n \in live /\ p \in live
                /\ previous[n] = e /\ next[p] = e
            BY <3>0, <4>2 DEF RingInv, Linked, Mutual
          <5>2. ASSUME e # current
                PROVE  next'[e] \in live' /\ previous'[next'[e]] = e
            <6>1. n # after /\ n # c /\ next'[e] = n
              BY <2>1, <2>2, <3>1, <4>2, <5>1, <5>2
            <6>2. previous'[n] = e /\ n \in live'
              BY <2>1, <2>3, <5>1, <6>1
            <6>3. QED
              BY <6>1, <6>2
          <5>3. ASSUME e # after
                PROVE  previous'[e] \in live' /\ next'[previous'[e]] = e
            <6>1. p # current /\ p # c /\ previous'[e] = p
              BY <2>1, <2>3, <3>1, <4>2, <5>1, <5>3
            <6>2. next'[p] = e /\ p \in live'
              BY <2>1, <2>2, <5>1, <6>1
            <6>3. QED
              BY <6>1, <6>2
          <5>4. QED
            BY <3>0, <5>2, <5>3
        <4>3. QED
          BY <4>1, <4>2
      <3>3. QED
        BY <3>2 DEF Mutual
    <2>5. OneCycle'
      <3> SUFFICES ASSUME NEW S \in SUBSET live', S # {},
                          \A e \in S : next'[e] \in S
                   PROVE  S = live'
        BY DEF OneCycle
      <3> DEFINE T == S \ {c}
      <3>1. T \in SUBSET live /\ T # {}
        BY <2>1, <2>2
      <3>2. current \in S => c \in S /\ after \in S
        BY <2>1, <2>2
      <3>3. ASSUME NEW e \in T
            PROVE  next[e] \in T
        <4>1. e \in live /\ e # c /\ e \in live' /\ next[e] \in live
          BY <2>1, <3>1 DEF RingInv, Linked, Mutual
        <4>2. next'[e] \in S
          OBVIOUS
        <4>3. CASE e = current
          BY <2>1, <3>2, <4>3
        <4>4. CASE e # current
          BY <2>1, <2>2, <4>1, <4>2, <4>4
        <4>5. QED
          BY <4>3, <4>4
      <3>4. T = live
        BY <3>1, <3>3 DEF RingInv, Linked, OneCycle
      <3>5. c \in S
        BY <2>1, <3>2, <3>4
      <3>6. QED
        BY <2>1, <3>4, <3>5
    <2>6. QED
      BY <1>1, <2>1, <2>4, <2>5 DEF RingInv, Linked
  <1>4. QED
    BY <1>2, <1>3

(* A remove ties the two neighbours of the current element to each other,  *)
(* also when they are the same element; an element that is its own         *)
(* neighbour is the only one, because there is one cycle.                  *)
LEMMA RemoveLinked ==
  ASSUME RingInv, Remove
  PROVE  RingInv'
  <1>1. CASE current = NULL
    BY <1>1 DEF RingInv, RingTypeOK, Linked, Mutual, OneCycle, Remove
  <1>2. CASE current # NULL
    <2> DEFINE before == previous[current]
               after == next[current]
    <2>1. /\ current \in live /\ before \in live /\ after \in live
          /\ live \subseteq Cell
      BY <1>2 DEF RingInv, RingTypeOK, Linked, Mutual
    <2>2. live' = live \ {current}
      BY <1>2 DEF Remove
    <2>3. RingTypeOK'
      BY <1>2, <2>1 DEF RingInv, RingTypeOK, Remove
    <2>4. CASE after = current
      <3>1. {current} = live
        BY <2>1, <2>4 DEF RingInv, Linked, OneCycle
      <3>2. live' = {} /\ current' = NULL
        BY <1>2, <2>2, <2>4, <3>1 DEF Remove
      <3>3. QED
        BY <2>3, <3>2 DEF RingInv, Linked, Mutual, OneCycle
    <2>5. CASE after # current
      <3>1. /\ current' = before
            /\ next' = [next EXCEPT ![before] = after, ![current] = NULL]
            /\ previous' = [previous EXCEPT ![after] = before,
                                            ![current] = NULL]
        BY <1>2, <2>5 DEF Remove
      <3>2. before # current
        BY <2>1, <2>5 DEF RingInv, Linked, Mutual
      <3>3. \A e \in live' :
               /\ next'[e] = IF e = before THEN after ELSE next[e]
               /\ previous'[e] = IF e = after THEN before ELSE previous[e]
        BY <2>1, <2>2, <3>1 DEF RingInv, RingTypeOK
      <3>4. Mutual'
        <4>1. \A e \in live : /\ e # before => next[e] # current
                              /\ e # after => previous[e] # current
          BY <2>1 DEF RingInv, Linked, Mutual
        <4>2. QED
          BY <2>1, <2>2, <2>5, <3>2, <3>3, <4>1 DEF RingInv, Linked, Mutual
      <3>5. OneCycle'
        <4> SUFFICES ASSUME NEW S \in SUBSET live', S # {},
                            \A e \in S : next'[e] \in S
                     PROVE  S = live'
          BY DEF OneCycle
        <4> DEFINE T == IF before \in S THEN S \cup {current} ELSE S
        <4>1. T \in SUBSET live /\ T # {}
          BY <2>1, <2>2
        <4>2. \A e \in T : next[e] \in T
          BY <2>1, <2>2, <3>3 DEF RingInv, Linked, Mutual
        <4>3. T = live
          BY <4>1, <4>2 DEF RingInv, Linked, OneCycle
        <4>4. QED
          BY <2>1, <2>2, <4>3
      <3>6. QED
        BY <2>1, <2>2, <2>3, <3>1, <3>2, <3>4, <3>5 DEF RingInv, Linked
    <2>6. QED
      BY <2>4, <2>5
  <1>3. QED
    BY <1>1, <1>2

(* Moving the pointer and reading leave the cycle as it is.                *)
LEMMA WalkLinked ==
  ASSUME RingInv, Next \/ Previous \/ GetData \/ UNCHANGED ringVars
  PROVE  RingInv'
  BY DEF RingInv, RingTypeOK, Linked, Mutual, OneCycle,
         Next, Previous, GetData, ringVars

(* Every step of the ring keeps the invariant.                             *)
LEMMA RingStepLinked == RingInv /\ [RingStep]_ringVars => RingInv'
  BY AddLinked, RemoveLinked, WalkLinked DEF RingStep

-----------------------------------------------------------------------------

(* Whatever calls a program makes, the allocated elements of the ring form *)
(* one cycle, the same both ways, with the caller's pointer on it (ring.c).*)
THEOREM RingStaysLinked == RingSpecification => []Linked
  <1>1. RingSpecification => []RingInv
    BY RingInitial, RingStepLinked, PTL DEF RingSpecification
  <1>2. RingInv => Linked
    BY DEF RingInv
  <1>3. QED
    BY <1>1, <1>2, PTL

(* The same when ring and queue share a heap: no call on the queue disturbs*)
(* the ring.                                                               *)
THEOREM SharedHeapKeepsLinked == ContainersSpec => []Linked
  <1>1. Init => RingInit
    BY DEF Init
  <1>2. [ContainersNext]_vars => [RingStep]_ringVars
    <2>1. RingCall => RingStep
      BY DEF RingCall, RingStep, FreeCells
    <2>2. QueueCall => UNCHANGED ringVars
      BY DEF QueueCall
    <2>3. QED
      BY <2>1, <2>2 DEF ContainersNext, vars, ringVars
  <1>3. ContainersSpec => RingSpecification
    BY <1>1, <1>2, PTL DEF ContainersSpec, RingSpecification
  <1>4. QED
    BY <1>3, RingStaysLinked, PTL

-----------------------------------------------------------------------------
(***************************************************************************)
(* The queue.                                                              *)
(***************************************************************************)

(* At most two elements can be reached from head.                          *)
Reachable(h, l, cells) ==
  h # NULL => /\ h \in cells
              /\ l[h] # NULL => l[h] \in cells \ {h} /\ l[l[h]] = NULL

QueueInv == TypeOK /\ Reachable(head, link, allocated)

(* The chain of links l from h, its length and its last cell.              *)
ChainTo(n, h, l) ==
  LET at[i \in 1 .. n + 1] ==
        IF i = 1 THEN h ELSE IF at[i - 1] = NULL THEN NULL ELSE l[at[i - 1]]
  IN  at
ChainOf(h, l) == ChainTo(Cardinality(Cell), h, l)
LengthOf(h, l) == Cardinality({i \in DOMAIN ChainOf(h, l) : ChainOf(h, l)[i] # NULL})

(* Two different things are two.                                           *)
LEMMA Pair ==
  ASSUME NEW x, NEW y, x # y PROVE Cardinality({x, y}) = 2
  <1>1. IsFiniteSet({x}) /\ Cardinality({x}) = 1
    BY FS_Singleton
  <1>2. {x, y} = {x} \cup {y} /\ y \notin {x}
    OBVIOUS
  <1>3. Cardinality({x} \cup {y}) = Cardinality({x}) + 1
    BY <1>1, <1>2, FS_AddElement
  <1>4. QED
    BY <1>1, <1>2, <1>3

(* The chain has an element, two or none.                                  *)
LEMMA ChainIs ==
  ASSUME NEW h \in Cell \cup {NULL}, NEW l \in [Cell -> Cell \cup {NULL}],
         NEW cells \in SUBSET Cell, Reachable(h, l, cells)
  PROVE  /\ h = NULL => LengthOf(h, l) = 0
         /\ h # NULL => ChainOf(h, l)[1] = h
         /\ h # NULL /\ l[h] = NULL => LengthOf(h, l) = 1
         /\ h # NULL /\ l[h] # NULL => LengthOf(h, l) = 2 /\ ChainOf(h, l)[2] = l[h]
  <1> DEFINE K == Cardinality(Cell)
             f == [i \in 1 .. K + 1 |-> IF i = 1 THEN h
                                        ELSE IF i = 2 /\ h # NULL THEN l[h] ELSE NULL]
             IsChain(a) == a = [i \in 1 .. K + 1 |->
                                  IF i = 1 THEN h ELSE IF a[i - 1] = NULL THEN NULL ELSE l[a[i - 1]]]
             a == CHOOSE a : IsChain(a)
  <1>1. K \in Nat /\ (Cell # {} => K # 0)
    BY HeapAssumption, FS_CardinalityType, FS_EmptySet
  <1>2. h # NULL /\ l[h] # NULL => K >= 2
    <2>1. SUFFICES ASSUME h # NULL, l[h] # NULL PROVE K >= 2
      OBVIOUS
    <2>2. {h, l[h]} \subseteq Cell /\ h # l[h]
      BY <2>1 DEF Reachable
    <2>3. Cardinality({h, l[h]}) = 2
      BY <2>2, Pair
    <2>4. QED
      BY <2>2, <2>3, HeapAssumption, FS_Subset
  <1> HIDE DEF K
  <1>3. IsChain(f)
    <2>1. ASSUME NEW i \in 1 .. K + 1
          PROVE  f[i] = IF i = 1 THEN h ELSE IF f[i - 1] = NULL THEN NULL ELSE l[f[i - 1]]
      <3>1. CASE i = 1
        BY <1>1, <3>1
      <3>2. CASE i = 2
        BY <1>1, <3>2
      <3>3. CASE i = 3
        <4>1. f[2] = (IF h # NULL THEN l[h] ELSE NULL) /\ f[3] = NULL
          BY <1>1, <3>3
        <4>2. QED
          BY <3>3, <4>1, NullAssumption DEF Reachable
      <3>4. CASE i > 3
        BY <1>1, <3>4
      <3>5. QED
        BY <3>1, <3>2, <3>3, <3>4
    <2>2. f = [i \in 1 .. K + 1 |-> f[i]]
      OBVIOUS
    <2> HIDE DEF f
    <2>3. QED
      BY <2>1, <2>2
  <1>4. IsChain(a)
    <2> HIDE DEF IsChain
    <2>1. QED
      BY <1>3
  <1>5. ChainOf(h, l) = a
    BY DEF ChainOf, ChainTo, K
  <1> HIDE DEF a, f
  <1>6. a = f
    <2> DEFINE S == {k \in Nat : k <= K => a[k + 1] = f[k + 1]}
    <2>1. 0 \in S
      BY <1>1, <1>3, <1>4
    <2>2. ASSUME NEW k \in Nat, k \in S PROVE k + 1 \in S
      <3> SUFFICES ASSUME k + 1 <= K PROVE a[(k + 1) + 1] = f[(k + 1) + 1]
        OBVIOUS
      <3>1. (k + 1) + 1 \in 1 .. K + 1 /\ ((k + 1) + 1) - 1 = k + 1 /\ (k + 1) + 1 # 1
        BY <1>1
      <3>2. a[k + 1] = f[k + 1]
        BY <1>1, <2>2
      <3> HIDE DEF f, a
      <3>3. /\ a[(k + 1) + 1] = IF a[k + 1] = NULL THEN NULL ELSE l[a[k + 1]]
            /\ f[(k + 1) + 1] = IF f[k + 1] = NULL THEN NULL ELSE l[f[k + 1]]
        <4>1. \A i \in 1 .. K + 1 :
                /\ a[i] = IF i = 1 THEN h ELSE IF a[i - 1] = NULL THEN NULL ELSE l[a[i - 1]]
                /\ f[i] = IF i = 1 THEN h ELSE IF f[i - 1] = NULL THEN NULL ELSE l[f[i - 1]]
          BY <1>3, <1>4
        <4> HIDE DEF IsChain
        <4>2. QED
          BY <3>1, <4>1
      <3>4. QED
        BY <3>2, <3>3
    <2> HIDE DEF S
    <2>3. Nat \subseteq S
      BY <2>1, <2>2, NatSet
    <2>4. ASSUME NEW i \in 1 .. K + 1 PROVE a[i] = f[i]
      <3>1. i - 1 \in Nat /\ i - 1 <= K /\ (i - 1) + 1 = i
        BY <1>1
      <3>2. i - 1 \in S
        BY <2>3, <3>1
      <3>3. QED
        BY <3>1, <3>2 DEF S
    <2>5. a = [i \in 1 .. K + 1 |-> a[i]] /\ f = [i \in 1 .. K + 1 |-> f[i]]
      BY <1>3, <1>4
    <2> HIDE DEF IsChain
    <2>6. QED
      BY <2>4, <2>5
  <1>7. LengthOf(h, l) = Cardinality({i \in 1 .. K + 1 : f[i] # NULL})
    <2>1. ChainOf(h, l) = f /\ DOMAIN f = 1 .. K + 1
      BY <1>5, <1>6 DEF f
    <2>2. QED
      BY <2>1 DEF LengthOf
  <1>8. CASE h = NULL
    <2>1. {i \in 1 .. K + 1 : f[i] # NULL} = {}
      BY <1>1, <1>8 DEF f
    <2>2. QED
      BY <1>7, <1>8, <2>1, FS_EmptySet
  <1>9. CASE h # NULL /\ l[h] = NULL
    <2>1. {i \in 1 .. K + 1 : f[i] # NULL} = {1} /\ f[1] = h
      BY <1>1, <1>9 DEF f
    <2>2. QED
      BY <1>5, <1>6, <1>7, <1>9, <2>1, FS_Singleton
  <1>10. CASE h # NULL /\ l[h] # NULL
    <2> DEFINE x == 1
               y == 2
    <2>1. {i \in 1 .. K + 1 : f[i] # NULL} = {x, y} /\ f[1] = h /\ f[2] = l[h] /\ x # y
      BY <1>1, <1>2, <1>10 DEF f
    <2> HIDE DEF x, y
    <2>2. Cardinality({x, y}) = 2
      BY <2>1, Pair
    <2>3. QED
      BY <1>5, <1>6, <1>7, <1>10, <2>1, <2>2
  <1>11. QED
    BY <1>8, <1>9, <1>10

(* What the queue promises, read off the cells.                            *)
Held(h, l, it) ==
  IF h = NULL THEN <<>> ELSE IF l[h] = NULL THEN <<it[h]>> ELSE <<it[h], it[l[h]]>>

(* Waiting is what the cells that can be reached hold.                     *)
LEMMA HeldIs ==
  ASSUME NEW h \in Cell \cup {NULL}, NEW l \in [Cell -> Cell \cup {NULL}],
         NEW cells \in SUBSET Cell, Reachable(h, l, cells), NEW it
  PROVE  [i \in 1 .. LengthOf(h, l) |-> it[ChainOf(h, l)[i]]] = Held(h, l, it)
  <1> DEFINE w == [i \in 1 .. LengthOf(h, l) |-> it[ChainOf(h, l)[i]]]
  <1>1. CASE h = NULL
    <2>1. LengthOf(h, l) = 0
      BY <1>1, ChainIs
    <2>2. QED
      BY <1>1, <2>1 DEF Held
  <1>2. CASE h # NULL /\ l[h] = NULL
    <2>1. LengthOf(h, l) = 1 /\ ChainOf(h, l)[1] = h
      BY <1>2, ChainIs
    <2>2. w = [i \in 1 .. 1 |-> it[h]]
      BY <2>1
    <2>3. QED
      BY <1>2, <2>2 DEF Held
  <1>3. CASE h # NULL /\ l[h] # NULL
    <2>1. LengthOf(h, l) = 2 /\ ChainOf(h, l)[1] = h /\ ChainOf(h, l)[2] = l[h]
      BY <1>3, ChainIs
    <2>2. w = [i \in 1 .. 2 |-> IF i = 1 THEN it[h] ELSE it[l[h]]]
      BY <2>1
    <2>3. QED
      BY <1>3, <2>2 DEF Held
  <1>4. QED
    BY <1>1, <1>2, <1>3

(* The queue counts as the ring does.                                      *)
LEMMA CountsAlike == \A S : Q!Cardinality(S) = Cardinality(S)
  BY DEF Q!Cardinality, Cardinality

(* The queue's own operators.                                              *)
LEMMA WaitingIs ==
  /\ Q!Chain = ChainOf(head, link) /\ Q!ChainLength = LengthOf(head, link)
  /\ Q!Waiting = [i \in 1 .. LengthOf(head, link) |-> item[ChainOf(head, link)[i]]]
  /\ Q!Waiting' = [i \in 1 .. LengthOf(head', link') |-> item'[ChainOf(head', link')[i]]]
  <1>1. Q!Cardinality(Cell) = Cardinality(Cell)
    BY CountsAlike
  <1>2. /\ Q!Chain = ChainTo(Q!Cardinality(Cell), head, link)
        /\ Q!Chain' = ChainTo(Q!Cardinality(Cell), head', link')
    BY DEF Q!Chain, ChainTo
  <1>3. Q!Chain = ChainOf(head, link) /\ Q!Chain' = ChainOf(head', link')
    BY <1>1, <1>2 DEF ChainOf
  <1>4. Q!ChainLength = LengthOf(head, link) /\ Q!ChainLength' = LengthOf(head', link')
    BY <1>3, CountsAlike DEF Q!ChainLength, LengthOf
  <1>5. QED
    BY <1>3, <1>4 DEF Q!Waiting

(* What is held at the start.                                              *)
LEMMA QueueInitial == Init => QueueInv
  BY RingInitial DEF Init, Q!QueueInit, QueueInv, TypeOK, Reachable, RingInv

(* The element that offer and empty leave the pointer on.                  *)
LEMMA LastIs ==
  ASSUME QueueInv, head # NULL
  PROVE  Q!LastCell = IF link[head] = NULL THEN head ELSE link[head]
  <1>1. /\ head \in Cell /\ link \in [Cell -> Cell \cup {NULL}] /\ allocated \in SUBSET Cell
        /\ Reachable(head, link, allocated)
    BY DEF QueueInv, TypeOK
  <1>2. Q!LastCell = ChainOf(head, link)[LengthOf(head, link)]
    BY WaitingIs DEF Q!LastCell
  <1>3. QED
    BY <1>1, <1>2, ChainIs

(* What waits, now and after a step.                                       *)
LEMMA NowHeld == ASSUME QueueInv PROVE Q!Waiting = Held(head, link, item)
  BY WaitingIs, HeldIs DEF QueueInv, TypeOK

(* The same after a step.                                                 *)
LEMMA ThenHeld == ASSUME QueueInv' PROVE Q!Waiting' = Held(head', link', item')
  BY WaitingIs, HeldIs DEF QueueInv, TypeOK

(* offer: the invariant, and that only the last element is kept.           *)
LEMMA OfferKeeps ==
  ASSUME QueueInv, NEW c \in FreeCells, NEW d \in Data, Q!Offer(c, d), UNCHANGED ringVars
  PROVE  QueueInv' /\ Q!Abstract!QSOffer(d)
  <1>1. /\ c \in Cell \ allocated /\ allocated \in SUBSET Cell
        /\ link \in [Cell -> Cell \cup {NULL}] /\ item \in [Cell -> Data \cup {NULL}]
        /\ head \in Cell \cup {NULL} /\ Reachable(head, link, allocated) /\ TypeOK
    BY DEF FreeCells, QueueInv, TypeOK
  <1>2. /\ allocated' = allocated \cup {c} /\ item' = [item EXCEPT ![c] = d]
        /\ UNCHANGED <<polled, crashed>>
    BY DEF Q!Offer
  <1>3. CASE head = NULL
    <2>1. head' = c /\ link' = [link EXCEPT ![c] = NULL]
      BY <1>3 DEF Q!Offer
    <2>2. QueueInv'
      BY <1>1, <1>2, <2>1 DEF QueueInv, TypeOK, Reachable, RingTypeOK, ringVars
    <2>3. Q!Waiting = <<>> /\ Q!Waiting' = <<d>>
      <3>1. item'[c] = d /\ link'[c] = NULL /\ c # NULL
        BY <1>1, <1>2, <2>1, NullAssumption
      <3>2. Q!Waiting = <<>>
        BY <1>3, NowHeld DEF Held
      <3>3. Q!Waiting' = Held(head', link', item')
        BY <2>2, ThenHeld
      <3>4. QED
        BY <2>1, <3>1, <3>2, <3>3 DEF Held
    <2>4. QED
      BY <1>2, <2>2, <2>3 DEF Q!Abstract!QSOffer, Q!Abstract!Offered
  <1>4. CASE head # NULL
    <2> DEFINE e == IF link[head] = NULL THEN head ELSE link[head]
    <2>1. Q!LastCell = e
      BY <1>4, LastIs
    <2>2. head' = e /\ link' = [link EXCEPT ![c] = NULL, ![e] = c]
      BY <1>4, <2>1 DEF Q!Offer
    <2>3. e \in allocated /\ e # c /\ link[e] = NULL
      BY <1>1, <1>4, NullAssumption DEF Reachable
    <2> HIDE DEF e
    <2>4. link'[e] = c /\ link'[c] = NULL /\ link' \in [Cell -> Cell \cup {NULL}]
      BY <1>1, <2>2, <2>3
    <2>5. QueueInv'
      BY <1>1, <1>2, <2>2, <2>3, <2>4 DEF QueueInv, TypeOK, Reachable, RingTypeOK, ringVars
    <2>6. Q!Waiting' = <<item[e], d>>
      <3>1. item'[e] = item[e] /\ item'[c] = d /\ c # NULL /\ e # NULL
        BY <1>1, <1>2, <2>3, NullAssumption
      <3>2. QED
        BY <2>2, <2>4, <2>5, <3>1, ThenHeld DEF Held
    <2>7. Q!Waiting # <<>> /\ Q!Abstract!Last(Q!Waiting) = item[e]
      <3>1. Q!Waiting = IF link[head] = NULL THEN <<item[head]>> ELSE <<item[head], item[link[head]]>>
        BY <1>4, NowHeld DEF Held
      <3>2. QED
        BY <3>1 DEF e, Q!Abstract!Last
    <2>8. QED
      BY <1>2, <2>5, <2>6, <2>7 DEF Q!Abstract!QSOffer, Q!Abstract!Offered
  <1>5. QED
    BY <1>3, <1>4

(* poll.                                                                   *)
LEMMA PollKeeps ==
  ASSUME QueueInv, Q!Poll, UNCHANGED ringVars
  PROVE  QueueInv' /\ Q!Abstract!QSPoll
  <1>1. /\ allocated \in SUBSET Cell
        /\ link \in [Cell -> Cell \cup {NULL}] /\ item \in [Cell -> Data \cup {NULL}]
        /\ head \in Cell \cup {NULL} /\ Reachable(head, link, allocated) /\ TypeOK
    BY DEF QueueInv, TypeOK
  <1>2. /\ polled' = IF head = NULL THEN NULL ELSE item[head]
        /\ head' = IF head = NULL THEN NULL ELSE link[head]
        /\ allocated' = allocated \ {head} /\ UNCHANGED crashed
        /\ link' = [c \in Cell |-> IF c \in {head} THEN NULL ELSE link[c]]
        /\ item' = [c \in Cell |-> IF c \in {head} THEN NULL ELSE item[c]]
    BY DEF Q!Poll, Q!Free, Q!Freed
  <1>3. QueueInv'
    <2>1. TypeOK'
      BY <1>1, <1>2 DEF TypeOK, RingTypeOK, ringVars
    <2>2. Reachable(head', link', allocated')
      BY <1>1, <1>2 DEF Reachable
    <2>3. QED
      BY <2>1, <2>2 DEF QueueInv
  <1>4. Q!Waiting = Held(head, link, item) /\ Q!Waiting' = Held(head', link', item')
    BY <1>3, NowHeld, ThenHeld
  <1>5. CASE head = NULL
    <2>1. Q!Waiting = <<>> /\ Q!Waiting' = <<>>
      BY <1>2, <1>4, <1>5 DEF Held
    <2>2. QED
      BY <1>2, <1>3, <1>5, <2>1 DEF Q!Abstract!QSPoll
  <1>6. CASE head # NULL /\ link[head] = NULL
    <2>1. Q!Waiting = <<item[head]>> /\ Q!Waiting' = <<>>
      BY <1>2, <1>4, <1>6 DEF Held
    <2>2. QED
      BY <1>2, <1>3, <1>6, <2>1 DEF Q!Abstract!QSPoll, Q!Abstract!Polled
  <1>7. CASE head # NULL /\ link[head] # NULL
    <2> DEFINE e == link[head]
    <2>1. e \in Cell /\ e # head /\ e # NULL /\ link[e] = NULL
      BY <1>1, <1>7, NullAssumption DEF Reachable
    <2>2. head' = e /\ link'[e] = NULL /\ item'[e] = item[e]
      BY <1>2, <1>7, <2>1
    <2>3. Q!Waiting = <<item[head], item[e]>> /\ Q!Waiting' = <<item[e]>>
      <3>1. Q!Waiting = <<item[head], item[e]>>
        BY <1>4, <1>7 DEF Held
      <3>2. Q!Waiting' = <<item'[e]>>
        BY <1>4, <2>1, <2>2 DEF Held
      <3>3. QED
        BY <2>2, <3>1, <3>2
    <2> HIDE DEF e
    <2>4. QED
      BY <1>2, <1>3, <1>7, <2>3 DEF Q!Abstract!QSPoll, Q!Abstract!Polled
  <1>8. QED
    BY <1>5, <1>6, <1>7

(* erase and empty.                                                        *)
LEMMA EmptyKeeps ==
  ASSUME QueueInv, Q!Empty, UNCHANGED ringVars
  PROVE  QueueInv' /\ Q!Abstract!QSEmpty
  <1> DEFINE F == {Q!Chain[i] : i \in 1 .. Q!ChainLength - 1}
             e == IF link[head] = NULL THEN head ELSE link[head]
  <1>1. /\ allocated \in SUBSET Cell
        /\ link \in [Cell -> Cell \cup {NULL}] /\ item \in [Cell -> Data \cup {NULL}]
        /\ head \in Cell \cup {NULL} /\ Reachable(head, link, allocated) /\ TypeOK
    BY DEF QueueInv, TypeOK
  <1>2. head # NULL /\ UNCHANGED <<polled, crashed>>
    BY DEF Q!Empty
  <1>3. /\ head' = e /\ allocated' = allocated \ F
        /\ link' = [c \in Cell |-> IF c \in F THEN NULL ELSE link[c]]
        /\ item' = [c \in Cell |-> IF c \in F THEN NULL ELSE item[c]]
    BY <1>2, LastIs DEF Q!Empty, Q!Free, Q!Freed
  <1>4. F = IF link[head] = NULL THEN {} ELSE {head}
    <2>1. Q!Chain = ChainOf(head, link) /\ Q!ChainLength = LengthOf(head, link)
      BY WaitingIs
    <2>2. CASE link[head] = NULL
      <3>1. Q!ChainLength = 1
        BY <1>1, <1>2, <2>1, <2>2, ChainIs
      <3>2. QED
        BY <2>2, <3>1
    <2>3. CASE link[head] # NULL
      <3>1. Q!ChainLength = 2 /\ Q!Chain[1] = head
        BY <1>1, <1>2, <2>1, <2>3, ChainIs
      <3>2. QED
        BY <2>3, <3>1
    <2>4. QED
      BY <2>2, <2>3
  <1>5. e \in allocated /\ e \notin F /\ e \in Cell /\ link[e] = NULL /\ e # NULL
    BY <1>1, <1>2, <1>4, NullAssumption DEF Reachable
  <1>6. Q!Waiting = IF link[head] = NULL THEN <<item[e]>> ELSE <<item[head], item[e]>>
    BY <1>2, NowHeld DEF Held
  <1> HIDE DEF e, F
  <1>7. link'[e] = NULL /\ item'[e] = item[e]
    BY <1>3, <1>5
  <1>8. QueueInv'
    <2>1. TypeOK'
      BY <1>1, <1>2, <1>3, <1>5 DEF TypeOK, RingTypeOK, ringVars
    <2>2. Reachable(head', link', allocated')
      BY <1>3, <1>5, <1>7 DEF Reachable
    <2>3. QED
      BY <2>1, <2>2 DEF QueueInv
  <1>9. Q!Waiting' = <<item[e]>>
    BY <1>3, <1>5, <1>7, <1>8, ThenHeld DEF Held
  <1>10. QED
    BY <1>2, <1>6, <1>8, <1>9 DEF Q!Abstract!QSEmpty, Q!Abstract!Emptied, Q!Abstract!Last

(* A failed malloc and the ring leave the queue as it is.                  *)
LEMMA QueueRests ==
  ASSUME QueueInv, RingTypeOK', UNCHANGED <<head, allocated, link, item, polled>>,
         crashed' \in BOOLEAN
  PROVE  QueueInv' /\ UNCHANGED Q!Abstract!qsVars
  <1>1. QueueInv'
    BY DEF QueueInv, TypeOK
  <1>2. Q!Waiting' = Q!Waiting
    BY <1>1, NowHeld, ThenHeld
  <1>3. QED
    BY <1>1, <1>2 DEF Q!Abstract!qsVars

(* Every call keeps the invariant and is one the queue promises, or none.  *)
LEMMA CallsKeep ==
  ASSUME QueueInv, RingInv, [ContainersNext]_vars
  PROVE  QueueInv' /\ RingInv' /\ [Q!Abstract!QSStep]_Q!Abstract!qsVars
  <1>1. crashed \in BOOLEAN
    BY DEF QueueInv, TypeOK
  <1>2. RingInv'
    <2>1. RingCall => RingStep
      BY DEF RingCall, RingStep, FreeCells
    <2>2. QueueCall \/ UNCHANGED vars => UNCHANGED ringVars
      BY DEF QueueCall, vars
    <2>3. QED
      BY <2>1, <2>2, RingStepLinked DEF ContainersNext
  <1>3. RingTypeOK'
    BY <1>2 DEF RingInv
  <1>4. CASE RingCall \/ UNCHANGED vars
    <2>1. UNCHANGED <<head, allocated, link, item, polled, crashed>>
      BY <1>4 DEF RingCall, calledQueue, vars
    <2>2. QED
      BY <1>1, <1>2, <1>3, <2>1, QueueRests
  <1>5. CASE QueueCall
    <2>1. UNCHANGED ringVars
      BY <1>5 DEF QueueCall
    <2>2. CASE \E c \in FreeCells, d \in Data : Q!Offer(c, d)
      BY <1>2, <2>1, <2>2, OfferKeeps DEF Q!Abstract!QSStep
    <2>3. CASE Q!OfferNoMemory
      <3>1. UNCHANGED <<head, allocated, link, item, polled>> /\ crashed' \in BOOLEAN
        BY <2>3 DEF Q!OfferNoMemory
      <3>2. QED
        BY <1>2, <1>3, <3>1, QueueRests
    <2>4. CASE Q!Poll
      BY <1>2, <2>1, <2>4, PollKeeps DEF Q!Abstract!QSStep
    <2>5. CASE Q!Empty
      BY <1>2, <2>1, <2>5, EmptyKeeps DEF Q!Abstract!QSStep
    <2>6. QED
      BY <1>5, <2>2, <2>3, <2>4, <2>5 DEF QueueCall
  <1>6. QED
    BY <1>4, <1>5 DEF ContainersNext

(* Both containers keep their types.                                       *)
THEOREM Typed == ContainersSpec => []TypeOK
  <1>1. Init => QueueInv /\ RingInv
    BY QueueInitial, RingInitial DEF Init
  <1>2. QueueInv /\ RingInv /\ [ContainersNext]_vars => QueueInv' /\ RingInv'
    BY CallsKeep
  <1>3. QueueInv => TypeOK
    BY DEF QueueInv
  <1>4. QED
    BY <1>1, <1>2, <1>3, PTL DEF ContainersSpec

(* What poll returns is what the two-place queue would return, whatever    *)
(* calls are made and however the ring uses the heap.                      *)
THEOREM QueueHoldsTwo == ContainersSpec => QueueImplements
  <1>1. Init => QueueInv /\ RingInv
    BY QueueInitial, RingInitial DEF Init
  <1>2. Init => Q!Abstract!QSInit
    <2> SUFFICES ASSUME Init PROVE Q!Abstract!QSInit
      OBVIOUS
    <2>1. Q!Waiting = <<>> /\ polled = NULL
      BY <1>1, NowHeld DEF Init, Q!QueueInit, Held
    <2>2. QED
      BY <2>1 DEF Q!Abstract!QSInit
  <1>3. QueueInv /\ RingInv /\ [ContainersNext]_vars =>
          QueueInv' /\ RingInv' /\ [Q!Abstract!QSStep]_Q!Abstract!qsVars
    BY CallsKeep
  <1>4. ContainersSpec => Q!Abstract!QSSpec
    BY <1>1, <1>2, <1>3, PTL DEF ContainersSpec, Q!Abstract!QSSpec
  <1>5. QED
    BY <1>4 DEF QueueImplements, Q!ImplementsQueue

-----------------------------------------------------------------------------
(***************************************************************************)
(* The order of the ring.                                                  *)
(***************************************************************************)

(* s lists the elements of the ring in the order of their next fields, the *)
(* current one last.                                                       *)
Order(cur, cells, nx, s) ==
  /\ s \in Seq(Cell)
  /\ \A c \in Cell : c \in cells <=> \E i \in 1 .. Len(s) : s[i] = c
  /\ \A i, j \in 1 .. Len(s) : s[i] = s[j] => i = j
  /\ \A i \in 1 .. Len(s) : nx[s[i]] = IF i = Len(s) THEN s[1] ELSE s[i + 1]
  /\ cur = IF Len(s) = 0 THEN NULL ELSE s[Len(s)]

OrderInv == RingInv /\ \E s : Order(current, live, next, s)

(* The data met in n steps along nx from cur.                              *)
DataAlong(n, cur, nx, dt) ==
  LET at[i \in 0 .. n] == IF i = 0 THEN cur ELSE nx[at[i - 1]]
  IN  [i \in 1 .. n |-> dt[at[i]]]

(* Going around once from cur meets the data w.                            *)
Meets(w, cur, cells, nx, dt) == w = DataAlong(Cardinality(cells), cur, nx, dt)

(* w are the data of the elements of s, in order.                          *)
DataOf(w, s, dt) ==
  /\ w \in Seq(Data \cup {NULL}) /\ Len(w) = Len(s)
  /\ \A i \in 1 .. Len(s) : w[i] = dt[s[i]]

(* The elements listed are as many as there are.                           *)
LEMMA OrderCounts ==
  ASSUME NEW cur, NEW cells \in SUBSET Cell, NEW nx, NEW s, Order(cur, cells, nx, s)
  PROVE  Cardinality(cells) = Len(s) /\ Len(s) \in Nat
  <1>1. s \in Seq(Cell) /\ Len(s) \in Nat /\ \A i \in 1 .. Len(s) : s[i] \in Cell
    BY ElementOfSeq DEF Order
  <1> DEFINE N == Len(s)
             f == [i \in 1 .. N |-> s[i]]
  <1>2. /\ f \in [1 .. N -> cells]
        /\ \A a, b \in 1 .. N : f[a] = f[b] => a = b
        /\ \A c \in cells : \E i \in 1 .. N : f[i] = c
    BY <1>1 DEF Order
  <1> HIDE DEF f, N
  <1>3. f \in Bijection(1 .. N, cells)
    BY <1>2, Fun_IsBij
  <1>4. QED
    BY <1>1, <1>3, FS_CountingElements DEF ExistsBijection, N

(* Going around meets them in this order.                                  *)
LEMMA AlongIs ==
  ASSUME NEW cur, NEW cells \in SUBSET Cell, NEW nx, NEW s, Order(cur, cells, nx, s),
         NEW dt \in [Cell -> Data \cup {NULL}],
         NEW w, Meets(w, cur, cells, nx, dt)
  PROVE  DataOf(w, s, dt)
  <1> DEFINE N == Len(s)
             IsAt(a) == a = [i \in 0 .. N |-> IF i = 0 THEN cur ELSE nx[a[i - 1]]]
             f == [i \in 0 .. N |-> IF i = 0 THEN cur ELSE s[i]]
             a == CHOOSE x : IsAt(x)
  <1>1. N \in Nat /\ Cardinality(cells) = N /\ \A i \in 1 .. N : s[i] \in Cell
    <2>1. N \in Nat /\ Cardinality(cells) = N
      BY OrderCounts
    <2>2. s \in Seq(Cell)
      BY DEF Order
    <2>3. QED
      BY <2>1, <2>2, ElementOfSeq
  <1>2. w = [i \in 1 .. N |-> dt[a[i]]]
    BY <1>1 DEF DataAlong, Meets
  <1>3. IsAt(f)
    <2>1. ASSUME NEW i \in 1 .. N PROVE s[i] = nx[f[i - 1]]
      <3>1. CASE i = 1
        <4>1. f[0] = s[N] /\ nx[s[N]] = s[1]
          BY <1>1, <3>1 DEF Order
        <4>2. QED
          BY <3>1, <4>1
      <3>2. CASE i # 1
        <4>1. i - 1 \in 1 .. N /\ i - 1 # N /\ (i - 1) + 1 = i
          BY <1>1, <3>2
        <4>2. f[i - 1] = s[i - 1] /\ nx[s[i - 1]] = s[(i - 1) + 1]
          BY <1>1, <4>1 DEF Order
        <4>3. QED
          BY <4>1, <4>2
      <3>3. QED
        BY <3>1, <3>2
    <2>2. \A i \in 0 .. N : f[i] = IF i = 0 THEN cur ELSE nx[f[i - 1]]
      BY <1>1, <2>1
    <2>3. f = [i \in 0 .. N |-> f[i]]
      OBVIOUS
    <2> HIDE DEF f
    <2>4. QED
      BY <2>2, <2>3
  <1>4. IsAt(a)
    <2> HIDE DEF IsAt
    <2>1. QED
      BY <1>3
  <1> HIDE DEF a
  <1>5. \A i \in 0 .. N : a[i] = f[i]
    <2>1. f[0] = a[0]
      BY <1>1, <1>3, <1>4
    <2>2. \A n \in 1 .. N : f[n] = nx[f[n - 1]] /\ a[n] = nx[a[n - 1]]
      <3>1. /\ \A n \in 0 .. N : f[n] = IF n = 0 THEN cur ELSE nx[f[n - 1]]
            /\ \A n \in 0 .. N : a[n] = IF n = 0 THEN cur ELSE nx[a[n - 1]]
        <4> HIDE DEF f
        <4>1. QED
          BY <1>3, <1>4
      <3> HIDE DEF IsAt, f
      <3>2. QED
        BY <1>1, <3>1
    <2> HIDE DEF IsAt, f
    <2>3. \A n \in 1 .. N : f[n - 1] = a[n - 1] => f[n] = a[n]
      BY <2>2
    <2>4. QED
      BY <1>1, <2>1, <2>3, SameRun
  <1>6. \A i \in 1 .. N : dt[a[i]] = dt[s[i]] /\ dt[s[i]] \in Data \cup {NULL}
    BY <1>1, <1>5
  <1>7. w \in [1 .. N -> Data \cup {NULL}] /\ \A i \in 1 .. N : w[i] = dt[s[i]]
    BY <1>2, <1>6
  <1>8. w \in Seq(Data \cup {NULL}) /\ Len(w) = N
    BY <1>1, <1>7
  <1>9. QED
    BY <1>7, <1>8 DEF DataOf

(* The ring's own operator.                                                *)
LEMMA WalkAlong ==
  /\ Meets(Walk, current, live, next, data)
  /\ Meets(Walk', current', live', next', data')
  BY DEF Walk, DataAlong, Meets

(* What is met, now and after a step.                                      *)
LEMMA Met ==
  ASSUME RingTypeOK, NEW s, Order(current, live, next, s)
  PROVE  /\ Walk \in Seq(Data \cup {NULL}) /\ Len(Walk) = Len(s) /\ Len(s) \in Nat
         /\ \A i \in 1 .. Len(s) : Walk[i] = data[s[i]]
  <1> DEFINE w == Walk
  <1>1. live \in SUBSET Cell /\ data \in [Cell -> Data \cup {NULL}]
    BY DEF RingTypeOK
  <1>2. Meets(w, current, live, next, data)
    BY WalkAlong
  <1>3. Len(s) \in Nat
    BY <1>1, OrderCounts
  <1> HIDE DEF w
  <1>4. DataOf(w, s, data)
    BY <1>1, <1>2, AlongIs
  <1>5. QED
    BY <1>3, <1>4 DEF w, DataOf

(* The same after a step.                                                 *)
LEMMA ThenMet ==
  ASSUME RingTypeOK', NEW s, Order(current', live', next', s)
  PROVE  /\ Walk' \in Seq(Data \cup {NULL}) /\ Len(Walk') = Len(s) /\ Len(s) \in Nat
         /\ \A i \in 1 .. Len(s) : Walk'[i] = data'[s[i]]
  <1> DEFINE w == Walk'
  <1>1. live' \in SUBSET Cell /\ data' \in [Cell -> Data \cup {NULL}]
    BY DEF RingTypeOK
  <1>2. Meets(w, current', live', next', data')
    BY WalkAlong
  <1>3. Len(s) \in Nat
    BY <1>1, OrderCounts
  <1> HIDE DEF w
  <1>4. DataOf(w, s, data')
    BY <1>1, <1>2, AlongIs
  <1>5. QED
    BY <1>3, <1>4 DEF w, DataOf

(* What the order says of the elements it lists.                           *)
LEMMA Listed ==
  ASSUME RingTypeOK, NEW s, Order(current, live, next, s)
  PROVE  /\ s \in Seq(Cell) /\ Len(s) \in Nat /\ (Len(s) = 0 <=> s = <<>>)
         /\ \A i \in 1 .. Len(s) : s[i] \in live /\ s[i] \in Cell
         /\ (Len(s) = 0 <=> current = NULL) /\ (Len(s) = 0 <=> live = {})
         /\ Len(s) # 0 => current = s[Len(s)] /\ next[current] = s[1]
  <1>1. s \in Seq(Cell) /\ Len(s) \in Nat /\ (Len(s) = 0 <=> s = <<>>)
    BY EmptySeq DEF Order
  <1>2. \A i \in 1 .. Len(s) : s[i] \in live /\ s[i] \in Cell
    BY <1>1, ElementOfSeq DEF Order
  <1>3. live \subseteq Cell
    BY DEF RingTypeOK
  <1>4. QED
    BY <1>1, <1>2, <1>3, NullAssumption DEF Order

(* add.                                                                    *)
LEMMA AddOrdered ==
  ASSUME OrderInv, NEW c \in Cell, NEW d \in Data, Add(c, d)
  PROVE  OrderInv' /\ Abstract!RSAdd(d)
  <1>1. PICK s : Order(current, live, next, s)
    BY DEF OrderInv
  <1> DEFINE t == Append(s, c)
             N == Len(s)
  <1>2. RingInv' /\ RingTypeOK /\ RingTypeOK'
    BY AddLinked DEF OrderInv, RingInv
  <1>3. /\ s \in Seq(Cell) /\ N \in Nat /\ \A i \in 1 .. N : s[i] \in live /\ s[i] \in Cell
        /\ (N = 0 <=> current = NULL) /\ (N = 0 <=> live = {})
        /\ N # 0 => current = s[N] /\ next[current] = s[1]
    BY <1>1, <1>2, Listed
  <1>4. /\ c \notin live /\ live' = live \cup {c} /\ data' = [data EXCEPT ![c] = d] /\ current' = c
        /\ current = NULL => next' = [next EXCEPT ![c] = c]
        /\ current # NULL => next' = [next EXCEPT ![c] = next[current], ![current] = c]
        /\ result' = result
        /\ next \in [Cell -> Cell \cup {NULL}] /\ data \in [Cell -> Data \cup {NULL}]
    BY <1>2 DEF Add, RingTypeOK
  <1>5. /\ t \in Seq(Cell) /\ Len(t) = N + 1 /\ t[N + 1] = c
        /\ \A i \in 1 .. N : t[i] = s[i]
    BY <1>3, AppendProperties
  <1> HIDE DEF t, N
  <1>6. Order(current', live', next', t)
    <2>1. \A x \in Cell : x \in live' <=> \E i \in 1 .. N + 1 : t[i] = x
      <3>1. \A x \in Cell : x \in live <=> \E i \in 1 .. N : s[i] = x
        BY <1>1 DEF Order, N
      <3>2. QED
        BY <1>3, <1>4, <1>5, <3>1
    <2>2. \A i, j \in 1 .. N + 1 : t[i] = t[j] => i = j
      <3>1. \A i, j \in 1 .. N : s[i] = s[j] => i = j
        BY <1>1 DEF Order, N
      <3>2. QED
        BY <1>3, <1>4, <1>5, <3>1
    <2>3. ASSUME NEW i \in 1 .. N + 1
          PROVE  next'[t[i]] = IF i = N + 1 THEN t[1] ELSE t[i + 1]
      <3>1. CASE i = N + 1
        <4>1. CASE N = 0
          BY <1>3, <1>4, <1>5, <3>1, <4>1
        <4>2. CASE N # 0
          <5>1. t[1] = s[1] /\ t[i] = c /\ current # c /\ current \in Cell
            BY <1>3, <1>4, <1>5, <3>1, <4>2
          <5>2. QED
            BY <1>3, <1>4, <3>1, <4>2, <5>1
        <4>3. QED
          BY <4>1, <4>2
      <3>2. CASE i = N
        <4>1. N # 0 /\ t[i] = current /\ t[i + 1] = c /\ current \in Cell
          BY <1>3, <1>5, <3>2
        <4>2. QED
          BY <1>3, <1>4, <3>2, <4>1
      <3>3. CASE i \in 1 .. N - 1
        <4>1. /\ i \in 1 .. N /\ i + 1 \in 1 .. N /\ t[i] = s[i] /\ t[i + 1] = s[i + 1]
              /\ N \in 1 .. N /\ i # N /\ i # N + 1
          BY <1>3, <1>5, <3>3
        <4>2. s[i] # c /\ s[i] # current /\ s[i] \in Cell /\ next[s[i]] = s[i + 1]
          BY <1>1, <1>3, <1>4, <4>1 DEF Order, N
        <4>3. next'[s[i]] = next[s[i]]
          BY <1>4, <4>2
        <4>4. QED
          BY <4>1, <4>2, <4>3
      <3>4. QED
        BY <1>3, <3>1, <3>2, <3>3
    <2>4. N + 1 # 0
      BY <1>3
    <2>5. QED
      BY <1>4, <1>5, <2>1, <2>2, <2>3, <2>4 DEF Order
  <1>7. Walk' = Append(Walk, d)
    <2> DEFINE D == Data \cup {NULL}
               w == Walk
               v == Walk'
    <2>1. w \in Seq(D) /\ Len(w) = N /\ \A i \in 1 .. N : w[i] = data[s[i]]
      BY <1>1, <1>2, Met DEF N
    <2>2. v \in Seq(D) /\ Len(v) = N + 1 /\ \A i \in 1 .. N + 1 : v[i] = data'[t[i]]
      BY <1>2, <1>5, <1>6, ThenMet
    <2>3. \A i \in 1 .. N : data'[t[i]] = data[s[i]]
      BY <1>3, <1>4, <1>5
    <2>4. data'[t[N + 1]] = d /\ d \in D
      BY <1>4, <1>5
    <2> HIDE DEF w, v, D
    <2>5. /\ Append(w, d) \in Seq(D) /\ Len(Append(w, d)) = N + 1
          /\ Append(w, d)[N + 1] = d /\ \A i \in 1 .. N : Append(w, d)[i] = w[i]
      BY <2>1, <2>4, AppendProperties
    <2>6. \A i \in 1 .. N + 1 : v[i] = Append(w, d)[i]
      BY <1>3, <2>1, <2>2, <2>3, <2>4, <2>5
    <2>7. v = Append(w, d)
      BY <2>2, <2>5, <2>6, SeqEqual
    <2>8. QED
      BY <2>7 DEF v, w
  <1>8. QED
    BY <1>2, <1>4, <1>6, <1>7 DEF OrderInv, Abstract!RSAdd, Abstract!Added

(* remove.                                                                 *)
LEMMA RemoveOrdered ==
  ASSUME OrderInv, Remove PROVE OrderInv' /\ Abstract!RSRemove
  <1>1. PICK s : Order(current, live, next, s)
    BY DEF OrderInv
  <1> DEFINE N == Len(s)
  <1>2. RingInv' /\ RingTypeOK /\ RingTypeOK' /\ RingInv
    BY RemoveLinked DEF OrderInv, RingInv
  <1>3. /\ s \in Seq(Cell) /\ N \in Nat /\ \A i \in 1 .. N : s[i] \in live /\ s[i] \in Cell
        /\ (N = 0 <=> current = NULL) /\ (N = 0 <=> live = {}) /\ (N = 0 <=> s = <<>>)
        /\ N # 0 => current = s[N] /\ next[current] = s[1]
    BY <1>1, <1>2, Listed
  <1>4. /\ next \in [Cell -> Cell \cup {NULL}] /\ data \in [Cell -> Data \cup {NULL}]
        /\ \A i, j \in 1 .. N : s[i] = s[j] => i = j
        /\ \A i \in 1 .. N : next[s[i]] = IF i = N THEN s[1] ELSE s[i + 1]
        /\ \A x \in Cell : x \in live <=> \E i \in 1 .. N : s[i] = x
    BY <1>1, <1>2 DEF RingTypeOK, Order
  <1> DEFINE D == Data \cup {NULL}
             w == Walk
             v == Walk'
  <1>5. w \in Seq(D) /\ Len(w) = N /\ \A i \in 1 .. N : w[i] = data[s[i]]
    BY <1>1, <1>2, Met
  <1> HIDE DEF N, D, w, v
  <1>6. Abstract!RSRemove <=>
          /\ result' = IF w = <<>> THEN NULL ELSE Abstract!Last(w)
          /\ v = IF w = <<>> THEN <<>> ELSE Abstract!Front(w)
    BY DEF Abstract!RSRemove, Abstract!Removed, w, v
  <1>7. CASE N = 0
    <2>1. result' = NULL /\ UNCHANGED <<current, live, next, previous, data>>
      BY <1>3, <1>7 DEF Remove
    <2>2. w = <<>>
      BY <1>5, <1>7, EmptySeq
    <2>3. v = w
      BY <2>1 DEF v, w, Walk
    <2>4. OrderInv'
      BY <1>1, <1>2, <2>1 DEF OrderInv
    <2>5. QED
      BY <1>6, <2>1, <2>2, <2>3, <2>4
  <1>8. CASE N # 0
    <2> DEFINE t == SubSeq(s, 1, N - 1)
    <2>1. /\ t \in Seq(Cell) /\ Len(t) = N - 1 /\ \A i \in 1 .. N - 1 : t[i] = s[i]
      BY <1>3, <1>8, SubSeqProperties
    <2> HIDE DEF t
    <2>2. /\ current = s[N] /\ current \in Cell /\ current # NULL /\ next[current] = s[1]
          /\ N \in 1 .. N /\ 1 \in 1 .. N
      BY <1>3, <1>8
    <2>3. (N = 1) <=> (next[current] = current)
      BY <1>3, <1>4, <2>2
    <2>4. /\ result' = data[current] /\ live' = live \ {current}
          /\ data' = [data EXCEPT ![current] = NULL]
      BY <2>2 DEF Remove
    <2>5. \A i \in 1 .. N - 1 : s[i] # current /\ i \in 1 .. N
      BY <1>3, <1>4, <2>2
    <2>6. Order(current', live', next', t)
      <3>1. \A x \in Cell : x \in live' <=> \E i \in 1 .. N - 1 : t[i] = x
        <4>1. SUFFICES ASSUME NEW x \in Cell PROVE x \in live' <=> \E i \in 1 .. N - 1 : t[i] = x
          OBVIOUS
        <4>2. ASSUME x \in live' PROVE \E i \in 1 .. N - 1 : t[i] = x
          <5>1. PICK i \in 1 .. N : s[i] = x
            BY <1>4, <2>4, <4>2
          <5>2. i # N
            BY <2>2, <2>4, <4>2, <5>1
          <5>3. i \in 1 .. N - 1
            BY <1>3, <5>2
          <5>4. QED
            BY <2>1, <5>1, <5>3
        <4>3. ASSUME NEW i \in 1 .. N - 1, t[i] = x PROVE x \in live'
          BY <1>3, <2>1, <2>4, <2>5, <4>3
        <4>4. QED
          BY <4>2, <4>3
      <3>2. \A i, j \in 1 .. N - 1 : t[i] = t[j] => i = j
        BY <1>4, <2>1, <2>5
      <3>3. CASE N = 1
        <4>1. current' = NULL
          BY <2>2, <2>3, <3>3 DEF Remove
        <4>2. QED
          BY <2>1, <3>1, <3>2, <3>3, <4>1 DEF Order
      <3>4. CASE N # 1
        <4>1. N - 1 \in 1 .. N - 1 /\ N - 1 # N /\ (N - 1) + 1 = N
          BY <1>3, <1>8, <3>4
        <4>2. previous[current] = s[N - 1]
          <5> DEFINE m == N - 1
          <5>1. m \in 1 .. N /\ m # N /\ m + 1 = N
            BY <1>3, <1>8, <4>1
          <5> HIDE DEF m
          <5>2. s[m] \in live /\ next[s[m]] = current
            <6>1. next[s[m]] = s[m + 1]
              BY <1>4, <5>1
            <6>2. QED
              BY <1>3, <2>2, <5>1, <6>1
          <5>3. previous[next[s[m]]] = s[m]
            BY <1>2, <5>2 DEF RingInv, Linked, Mutual
          <5>4. QED
            BY <5>2, <5>3 DEF m
        <4>3. /\ current' = s[N - 1]
              /\ next' = [next EXCEPT ![s[N - 1]] = s[1], ![current] = NULL]
          BY <2>2, <2>3, <3>4, <4>2 DEF Remove
        <4>4. ASSUME NEW i \in 1 .. N - 1
              PROVE  next'[t[i]] = IF i = N - 1 THEN t[1] ELSE t[i + 1]
          <5>1. t[i] = s[i] /\ s[i] # current /\ s[i] \in Cell /\ t[1] = s[1]
            BY <1>3, <2>1, <2>5, <4>1
          <5>2. CASE i = N - 1
            BY <1>4, <4>3, <5>1, <5>2
          <5>3. CASE i # N - 1
            <6>1. /\ i + 1 \in 1 .. N - 1 /\ i \in 1 .. N /\ i # N /\ N - 1 \in 1 .. N
              BY <1>3, <4>1, <5>3
            <6>2. s[i] # s[N - 1] /\ next[s[i]] = s[i + 1] /\ t[i + 1] = s[i + 1]
              BY <1>4, <2>1, <5>3, <6>1
            <6>3. QED
              BY <1>4, <4>3, <5>1, <5>3, <6>2
          <5>4. QED
            BY <5>2, <5>3
        <4>5. current' = t[N - 1] /\ N - 1 # 0
          BY <2>1, <3>4, <4>1, <4>3
        <4>6. QED
          BY <2>1, <3>1, <3>2, <4>4, <4>5 DEF Order
      <3>5. QED
        BY <3>3, <3>4
    <2>7. v \in Seq(D) /\ Len(v) = N - 1 /\ \A i \in 1 .. N - 1 : v[i] = data'[t[i]]
      BY <1>2, <2>1, <2>6, ThenMet DEF v, D
    <2>8. w # <<>> /\ Abstract!Last(w) = data[current]
      <3>1. w # <<>>
        BY <1>5, <1>8, EmptySeq
      <3>2. QED
        BY <1>5, <2>2, <3>1 DEF Abstract!Last
    <2>9. v = Abstract!Front(w)
      <3> DEFINE f == SubSeq(w, 1, N - 1)
      <3>1. f \in Seq(D) /\ Len(f) = N - 1 /\ \A i \in 1 .. N - 1 : f[i] = w[i]
        BY <1>3, <1>5, <1>8, SubSeqProperties
      <3>2. Abstract!Front(w) = f
        BY <1>5 DEF Abstract!Front
      <3> HIDE DEF f
      <3>3. \A i \in 1 .. N - 1 : data'[t[i]] = w[i]
        <4>1. SUFFICES ASSUME NEW i \in 1 .. N - 1 PROVE data'[t[i]] = w[i]
          OBVIOUS
        <4>2. i \in 1 .. N /\ s[i] # current /\ t[i] = s[i]
          BY <2>1, <2>5
        <4>3. s[i] \in Cell /\ w[i] = data[s[i]]
          BY <1>3, <1>5, <4>2
        <4>4. data'[s[i]] = data[s[i]]
          BY <1>4, <2>4, <4>2, <4>3
        <4>5. QED
          BY <4>2, <4>3, <4>4
      <3>4. v = f
        BY <2>7, <3>1, <3>3, SeqEqual
      <3>5. QED
        BY <3>2, <3>4
    <2>10. QED
      BY <1>2, <1>6, <2>4, <2>6, <2>8, <2>9 DEF OrderInv
  <1>9. QED
    BY <1>7, <1>8

(* A sequence turned by one place.                                         *)
LEMMA AdvancedIs ==
  ASSUME NEW S, NEW l \in Seq(S), Len(l) # 0
  PROVE  /\ Abstract!Advanced(l) \in Seq(S) /\ Len(Abstract!Advanced(l)) = Len(l)
         /\ \A i \in 1 .. Len(l) :
               Abstract!Advanced(l)[i] = IF i = Len(l) THEN l[1] ELSE l[i + 1]
  <1> DEFINE N == Len(l)
             t == Tail(l)
             h == Head(l)
             a == Append(t, h)
  <1>1. Len(l) \in Nat /\ l # <<>>
    BY EmptySeq, LenProperties
  <1>2. h \in S /\ t \in Seq(S) /\ Len(t) = N - 1 /\ \A i \in 1 .. N - 1 : t[i] = l[i + 1]
    BY <1>1, HeadTailProperties
  <1>3. h = l[1]
    OBVIOUS
  <1>4. Abstract!Advanced(l) = a
    BY DEF Abstract!Advanced
  <1> HIDE DEF t, h
  <1>5. /\ a \in Seq(S) /\ Len(a) = Len(t) + 1 /\ a[Len(t) + 1] = h
        /\ \A i \in 1 .. Len(t) : a[i] = t[i]
    BY <1>2, AppendProperties
  <1> HIDE DEF a
  <1>6. Len(a) = N /\ a[N] = l[1]
    BY <1>1, <1>2, <1>3, <1>5
  <1>7. ASSUME NEW i \in 1 .. N, i # N PROVE a[i] = l[i + 1]
    <2>1. i \in 1 .. N - 1
      BY <1>1, <1>7
    <2>2. QED
      BY <1>2, <1>5, <2>1
  <1>8. QED
    BY <1>4, <1>5, <1>6, <1>7

(* And the other way.                                                      *)
LEMMA RetreatedIs ==
  ASSUME NEW S, NEW l \in Seq(S), Len(l) # 0
  PROVE  /\ Abstract!Retreated(l) \in Seq(S) /\ Len(Abstract!Retreated(l)) = Len(l)
         /\ \A i \in 1 .. Len(l) :
               Abstract!Retreated(l)[i] = IF i = 1 THEN l[Len(l)] ELSE l[i - 1]
  <1> DEFINE N == Len(l)
             e == <<l[N]>>
             f == SubSeq(l, 1, N - 1)
             a == e \o f
  <1>1. N \in Nat /\ l[N] \in S /\ \A i \in 1 .. N : l[i] \in S
    BY LenProperties, ElementOfSeq
  <1>2. e \in Seq(S) /\ Len(e) = 1 /\ e[1] = l[N]
    BY <1>1
  <1>3. f \in Seq(S) /\ Len(f) = N - 1 /\ \A i \in 1 .. N - 1 : f[i] = l[i]
    <2>1. N - 1 \in Int /\ 1 \in Int /\ \A i \in 1 .. N - 1 : i \in 1 .. N
      BY <1>1
    <2> HIDE DEF N
    <2>2. \A i \in 1 .. N - 1 : l[i] \in S
      BY <1>1, <2>1
    <2>3. /\ f \in Seq(S) /\ Len(f) = IF 1 <= N - 1 THEN N - 1 - 1 + 1 ELSE 0
          /\ \A i \in 1 .. N - 1 - 1 + 1 : f[i] = l[1 + i - 1]
      BY ONLY <2>1, <2>2, SubSeqProperties
    <2>4. N - 1 \in Nat
      BY <1>1 DEF N
    <2> HIDE DEF f
    <2>5. QED
      BY <1>1, <2>3, <2>4
  <1>4. Abstract!Retreated(l) = a
    BY DEF Abstract!Retreated, Abstract!Last, Abstract!Front
  <1> HIDE DEF e, f
  <1>5. /\ a \in Seq(S) /\ Len(a) = Len(e) + Len(f)
        /\ \A i \in 1 .. Len(e) + Len(f) : a[i] = IF i <= Len(e) THEN e[i] ELSE f[i - Len(e)]
    BY <1>2, <1>3, ConcatProperties
  <1> HIDE DEF a
  <1>6. Len(a) = N /\ Len(e) + Len(f) = N
    BY <1>1, <1>2, <1>3, <1>5
  <1>7. ASSUME NEW i \in 1 .. N PROVE a[i] = IF i = 1 THEN l[N] ELSE l[i - 1]
    <2>1. CASE i = 1
      BY <1>2, <1>5, <1>6, <2>1
    <2>2. CASE i # 1
      <3>1. i - 1 \in 1 .. N - 1 /\ ~(i <= 1)
        BY <1>1, <2>2
      <3>2. a[i] = f[i - 1]
        BY <1>2, <1>5, <1>6, <3>1
      <3>3. QED
        BY <1>3, <2>2, <3>1, <3>2
    <2>3. QED
      BY <2>1, <2>2
  <1>8. QED
    BY <1>4, <1>5, <1>6, <1>7

(* next.                                                                   *)
LEMMA NextOrdered ==
  ASSUME OrderInv, Next PROVE OrderInv' /\ Abstract!RSNext
  <1>1. PICK s : Order(current, live, next, s)
    BY DEF OrderInv
  <1> DEFINE N == Len(s)
             D == Data \cup {NULL}
             t == Abstract!Advanced(s)
             w == Walk
             v == Walk'
             a == Abstract!Advanced(w)
  <1>2. RingInv' /\ RingTypeOK /\ RingTypeOK' /\ RingInv
    BY WalkLinked DEF OrderInv, RingInv
  <1>3. /\ current # NULL /\ current' = next[current]
        /\ live' = live /\ next' = next /\ data' = data /\ result' = result
    BY DEF Next
  <1>4. /\ s \in Seq(Cell) /\ N \in Nat /\ N # 0 /\ next[current] = s[1] /\ current = s[N]
    BY <1>1, <1>2, <1>3, Listed
  <1>5. /\ t \in Seq(Cell) /\ Len(t) = N
        /\ \A i \in 1 .. N : t[i] = IF i = N THEN s[1] ELSE s[i + 1]
    BY <1>4, AdvancedIs
  <1>6. w \in Seq(D) /\ Len(w) = N /\ \A i \in 1 .. N : w[i] = data[s[i]]
    BY <1>1, <1>2, Met
  <1> HIDE DEF D
  <1>7. /\ a \in Seq(D) /\ Len(a) = N
        /\ \A i \in 1 .. N : a[i] = IF i = N THEN w[1] ELSE w[i + 1]
    <2> HIDE DEF w
    <2>1. QED
      BY <1>4, <1>6, AdvancedIs
  <1>8. w # <<>>
    BY <1>4, <1>6, EmptySeq
  <1>9. /\ \A x \in Cell : x \in live <=> \E i \in 1 .. N : s[i] = x
        /\ \A i, j \in 1 .. N : s[i] = s[j] => i = j
        /\ \A i \in 1 .. N : next[s[i]] = IF i = N THEN s[1] ELSE s[i + 1]
    BY <1>1 DEF Order
  <1> HIDE DEF t, v, w, a, N
  <1>10. Order(current', live', next', t)
    <2>1. \A i \in 1 .. N : i # N => i + 1 \in 1 .. N
      BY <1>4
    <2>2. ASSUME NEW x \in Cell PROVE x \in live' <=> \E i \in 1 .. N : t[i] = x
      <3>1. ASSUME NEW i \in 1 .. N, s[i] = x PROVE \E j \in 1 .. N : t[j] = x
        <4>1. CASE i = 1
          <5>1. N \in 1 .. N
            BY <1>4
          <5>2. QED
            BY <1>5, <3>1, <4>1, <5>1
        <4>2. CASE i # 1
          <5>1. i - 1 \in 1 .. N /\ i - 1 # N /\ (i - 1) + 1 = i
            BY <1>4, <4>2
          <5>2. QED
            BY <1>5, <3>1, <5>1
        <4>3. QED
          BY <4>1, <4>2
      <3>2. ASSUME NEW i \in 1 .. N, t[i] = x PROVE \E j \in 1 .. N : s[j] = x
        <4>1. 1 \in 1 .. N
          BY <1>4
        <4>2. QED
          BY <1>5, <2>1, <3>2, <4>1
      <3>3. QED
        BY <1>3, <1>9, <3>1, <3>2
    <2>3. ASSUME NEW i \in 1 .. N, NEW j \in 1 .. N, t[i] = t[j] PROVE i = j
      <3>1. 1 \in 1 .. N
        BY <1>4
      <3>2. CASE i = N /\ j # N
        <4>1. s[1] = s[j + 1] /\ j + 1 \in 1 .. N
          BY <1>5, <2>1, <2>3, <3>2
        <4>2. QED
          BY <1>4, <1>9, <3>1, <4>1
      <3>3. CASE i # N /\ j = N
        <4>1. s[1] = s[i + 1] /\ i + 1 \in 1 .. N
          BY <1>5, <2>1, <2>3, <3>3
        <4>2. QED
          BY <1>4, <1>9, <3>1, <4>1
      <3>4. CASE i # N /\ j # N
        <4>1. s[i + 1] = s[j + 1] /\ i + 1 \in 1 .. N /\ j + 1 \in 1 .. N
          BY <1>5, <2>1, <2>3, <3>4
        <4>2. i + 1 = j + 1
          BY <1>9, <4>1
        <4>3. QED
          BY <1>4, <4>2
      <3>5. QED
        BY <3>2, <3>3, <3>4
    <2>4. ASSUME NEW i \in 1 .. N PROVE next[t[i]] = IF i = N THEN t[1] ELSE t[i + 1]
      <3> DEFINE k == IF i = N THEN 1 ELSE i + 1
      <3>1. k \in 1 .. N /\ t[i] = s[k]
        BY <1>4, <1>5, <2>1
      <3>2. next[t[i]] = IF k = N THEN s[1] ELSE s[k + 1]
        <4> HIDE DEF k
        <4>1. QED
          BY <1>9, <3>1
      <3>3. t[k] = IF k = N THEN s[1] ELSE s[k + 1]
        <4> HIDE DEF k
        <4>1. QED
          BY <1>5, <3>1
      <3>4. QED
        BY <3>2, <3>3
    <2>5. current' = t[N] /\ N # 0
      <3>1. N \in 1 .. N
        BY <1>4
      <3>2. QED
        BY <1>3, <1>4, <1>5, <3>1
    <2>6. QED
      BY <1>3, <1>5, <2>2, <2>3, <2>4, <2>5 DEF Order
  <1>11. v \in Seq(D) /\ Len(v) = N /\ \A i \in 1 .. N : v[i] = data[t[i]]
    BY <1>2, <1>3, <1>5, <1>10, ThenMet DEF v, D
  <1>12. v = a
    <2>1. ASSUME NEW i \in 1 .. N PROVE v[i] = a[i]
      <3>1. CASE i = N
        <4>1. 1 \in 1 .. N
          BY <1>4
        <4>2. v[i] = data[s[1]] /\ a[i] = w[1] /\ w[1] = data[s[1]]
          BY <1>5, <1>6, <1>7, <1>11, <3>1, <4>1
        <4>3. QED
          BY <4>2
      <3>2. CASE i # N
        <4>1. i + 1 \in 1 .. N
          BY <1>4, <3>2
        <4>2. v[i] = data[s[i + 1]] /\ a[i] = w[i + 1] /\ w[i + 1] = data[s[i + 1]]
          BY <1>5, <1>6, <1>7, <1>11, <3>2, <4>1
        <4>3. QED
          BY <4>2
      <3>3. QED
        BY <3>1, <3>2
    <2>2. QED
      BY <1>7, <1>11, <2>1, SeqEqual
  <1>13. OrderInv'
    BY <1>2, <1>10 DEF OrderInv
  <1>14. QED
    BY <1>3, <1>8, <1>12, <1>13 DEF Abstract!RSNext, v, w, a

(* previous.                                                               *)
LEMMA PreviousOrdered ==
  ASSUME OrderInv, Previous PROVE OrderInv' /\ Abstract!RSPrevious
  <1>1. PICK s : Order(current, live, next, s)
    BY DEF OrderInv
  <1> DEFINE N == Len(s)
             D == Data \cup {NULL}
             t == Abstract!Retreated(s)
             w == Walk
             v == Walk'
             a == Abstract!Retreated(w)
  <1>2. RingInv' /\ RingTypeOK /\ RingTypeOK' /\ RingInv
    BY WalkLinked DEF OrderInv, RingInv
  <1>3. /\ current # NULL /\ current' = previous[current]
        /\ live' = live /\ next' = next /\ data' = data /\ result' = result
    BY DEF Previous
  <1>4. /\ s \in Seq(Cell) /\ N \in Nat /\ N # 0 /\ next[current] = s[1] /\ current = s[N]
        /\ \A i \in 1 .. N : s[i] \in live
    BY <1>1, <1>2, <1>3, Listed
  <1>5. /\ t \in Seq(Cell) /\ Len(t) = N
        /\ \A i \in 1 .. N : t[i] = IF i = 1 THEN s[N] ELSE s[i - 1]
    BY <1>4, RetreatedIs
  <1>6. w \in Seq(D) /\ Len(w) = N /\ \A i \in 1 .. N : w[i] = data[s[i]]
    BY <1>1, <1>2, Met
  <1> HIDE DEF D
  <1>7. /\ a \in Seq(D) /\ Len(a) = N
        /\ \A i \in 1 .. N : a[i] = IF i = 1 THEN w[N] ELSE w[i - 1]
    <2> HIDE DEF w
    <2>1. QED
      BY <1>4, <1>6, RetreatedIs
  <1>8. w # <<>>
    BY <1>4, <1>6, EmptySeq
  <1>9. /\ \A x \in Cell : x \in live <=> \E i \in 1 .. N : s[i] = x
        /\ \A i, j \in 1 .. N : s[i] = s[j] => i = j
        /\ \A i \in 1 .. N : next[s[i]] = IF i = N THEN s[1] ELSE s[i + 1]
    BY <1>1 DEF Order
  <1> HIDE DEF t, v, w, a, N
  <1>10. Order(current', live', next', t)
    <2>1. \A i \in 1 .. N : i # 1 => i - 1 \in 1 .. N /\ i - 1 # N /\ (i - 1) + 1 = i
      BY <1>4
    <2>2. ASSUME NEW x \in Cell PROVE x \in live' <=> \E i \in 1 .. N : t[i] = x
      <3>1. ASSUME NEW i \in 1 .. N, s[i] = x PROVE \E j \in 1 .. N : t[j] = x
        <4>1. CASE i = N
          <5>1. 1 \in 1 .. N
            BY <1>4
          <5>2. QED
            BY <1>5, <3>1, <4>1, <5>1
        <4>2. CASE i # N
          <5>1. i + 1 \in 1 .. N /\ i + 1 # 1 /\ (i + 1) - 1 = i
            BY <1>4, <4>2
          <5>2. QED
            BY <1>5, <3>1, <5>1
        <4>3. QED
          BY <4>1, <4>2
      <3>2. ASSUME NEW i \in 1 .. N, t[i] = x PROVE \E j \in 1 .. N : s[j] = x
        <4>1. N \in 1 .. N
          BY <1>4
        <4>2. QED
          BY <1>5, <2>1, <3>2, <4>1
      <3>3. QED
        BY <1>3, <1>9, <3>1, <3>2
    <2>3. ASSUME NEW i \in 1 .. N, NEW j \in 1 .. N, t[i] = t[j] PROVE i = j
      <3>1. N \in 1 .. N
        BY <1>4
      <3>2. CASE i = 1 /\ j # 1
        <4>1. s[N] = s[j - 1] /\ j - 1 \in 1 .. N /\ j - 1 # N
          BY <1>5, <2>1, <2>3, <3>2
        <4>2. QED
          BY <1>4, <1>9, <3>1, <4>1
      <3>3. CASE i # 1 /\ j = 1
        <4>1. s[N] = s[i - 1] /\ i - 1 \in 1 .. N /\ i - 1 # N
          BY <1>5, <2>1, <2>3, <3>3
        <4>2. QED
          BY <1>4, <1>9, <3>1, <4>1
      <3>4. CASE i # 1 /\ j # 1
        <4>1. s[i - 1] = s[j - 1] /\ i - 1 \in 1 .. N /\ j - 1 \in 1 .. N
          BY <1>5, <2>1, <2>3, <3>4
        <4>2. i - 1 = j - 1
          BY <1>9, <4>1
        <4>3. QED
          BY <1>4, <4>2
      <3>5. QED
        BY <3>2, <3>3, <3>4
    <2>4. ASSUME NEW i \in 1 .. N PROVE next[t[i]] = IF i = N THEN t[1] ELSE t[i + 1]
      <3>1. t[1] = s[N] /\ 1 \in 1 .. N /\ N \in 1 .. N
        BY <1>4, <1>5
      <3>2. CASE i = 1
        <4>1. next[t[i]] = s[1]
          BY <1>9, <3>1, <3>2
        <4>2. CASE N = 1
          BY <3>1, <3>2, <4>1, <4>2
        <4>3. CASE N # 1
          <5>1. 2 \in 1 .. N /\ 2 # 1 /\ 2 - 1 = 1 /\ i + 1 = 2 /\ i # N
            BY <1>4, <3>2, <4>3
          <5>2. t[2] = s[1]
            BY <1>5, <5>1
          <5>3. QED
            BY <4>1, <5>1, <5>2
        <4>4. QED
          BY <4>2, <4>3
      <3>3. CASE i # 1
        <4>1. i - 1 \in 1 .. N /\ i - 1 # N /\ (i - 1) + 1 = i
          BY <2>1, <3>3
        <4>2. t[i] = s[i - 1]
          BY <1>5, <3>3
        <4>3. next[s[i - 1]] = s[(i - 1) + 1]
          BY <1>9, <4>1
        <4>4. next[t[i]] = s[i]
          BY <4>1, <4>2, <4>3
        <4>5. CASE i = N
          BY <3>1, <4>4, <4>5
        <4>6. CASE i # N
          <5>1. i + 1 \in 1 .. N /\ i + 1 # 1 /\ (i + 1) - 1 = i
            BY <1>4, <4>6
          <5>2. t[i + 1] = s[i]
            BY <1>5, <5>1
          <5>3. QED
            BY <4>4, <4>6, <5>2
        <4>7. QED
          BY <4>5, <4>6
      <3>4. QED
        BY <3>2, <3>3
    <2>5. current' = t[N] /\ N # 0
      <3> DEFINE k == IF N = 1 THEN N ELSE N - 1
      <3>1. k \in 1 .. N /\ N \in 1 .. N /\ (k # N => k + 1 = N) /\ (k = N => N = 1)
        BY <1>4
      <3>2. t[N] = s[k]
        BY <1>5, <3>1
      <3>3. next[s[k]] = s[N]
        <4>1. next[s[k]] = IF k = N THEN s[1] ELSE s[k + 1]
          <5> HIDE DEF k
          <5>1. QED
            BY <1>9, <3>1
        <4> HIDE DEF k
        <4>2. QED
          BY <3>1, <4>1
      <3> HIDE DEF k
      <3>4. previous[next[s[k]]] = s[k]
        BY <1>2, <1>4, <3>1 DEF RingInv, Linked, Mutual
      <3>5. QED
        BY <1>3, <1>4, <3>2, <3>3, <3>4
    <2>6. QED
      BY <1>3, <1>5, <2>2, <2>3, <2>4, <2>5 DEF Order
  <1>11. v \in Seq(D) /\ Len(v) = N /\ \A i \in 1 .. N : v[i] = data[t[i]]
    BY <1>2, <1>3, <1>5, <1>10, ThenMet DEF v, D
  <1>12. v = a
    <2>1. ASSUME NEW i \in 1 .. N PROVE v[i] = a[i]
      <3>1. CASE i = 1
        <4>1. N \in 1 .. N
          BY <1>4
        <4>2. v[i] = data[s[N]] /\ a[i] = w[N] /\ w[N] = data[s[N]]
          BY <1>5, <1>6, <1>7, <1>11, <3>1, <4>1
        <4>3. QED
          BY <4>2
      <3>2. CASE i # 1
        <4>1. i - 1 \in 1 .. N
          BY <1>4, <3>2
        <4>2. v[i] = data[s[i - 1]] /\ a[i] = w[i - 1] /\ w[i - 1] = data[s[i - 1]]
          BY <1>5, <1>6, <1>7, <1>11, <3>2, <4>1
        <4>3. QED
          BY <4>2
      <3>3. QED
        BY <3>1, <3>2
    <2>2. QED
      BY <1>7, <1>11, <2>1, SeqEqual
  <1>13. OrderInv'
    BY <1>2, <1>10 DEF OrderInv
  <1>14. QED
    BY <1>3, <1>8, <1>12, <1>13 DEF Abstract!RSPrevious, v, w, a

(* data, and a step that is none of the ring's.                            *)
LEMMA DataOrdered ==
  ASSUME OrderInv, GetData PROVE OrderInv' /\ Abstract!RSData
  <1>1. PICK s : Order(current, live, next, s)
    BY DEF OrderInv
  <1> DEFINE N == Len(s)
             w == Walk
  <1>2. RingInv' /\ RingTypeOK /\ RingInv
    BY WalkLinked DEF OrderInv, RingInv
  <1>3. /\ result' = IF current = NULL THEN NULL ELSE data[current]
        /\ current' = current /\ live' = live /\ next' = next /\ data' = data
    BY DEF GetData
  <1>4. N \in Nat /\ (N = 0 <=> current = NULL) /\ (N # 0 => current = s[N])
    BY <1>1, <1>2, Listed
  <1>5. w \in Seq(Data \cup {NULL}) /\ Len(w) = N /\ \A i \in 1 .. N : w[i] = data[s[i]]
    BY <1>1, <1>2, Met
  <1>6. Walk' = w
    BY <1>3 DEF Walk
  <1> HIDE DEF w, N
  <1>7. (w = <<>> <=> N = 0) /\ (N # 0 => w[Len(w)] = data[current])
    <2>1. N # 0 => N \in 1 .. N
      BY <1>4
    <2>2. w = <<>> <=> N = 0
      BY <1>5, EmptySeq
    <2>3. QED
      BY <1>4, <1>5, <2>1, <2>2
  <1>8. result' = IF w = <<>> THEN NULL ELSE Abstract!Last(w)
    BY <1>3, <1>4, <1>7 DEF Abstract!Last
  <1>9. OrderInv'
    BY <1>1, <1>2, <1>3 DEF OrderInv
  <1>10. QED
    BY <1>6, <1>8, <1>9 DEF Abstract!RSData, w

(* A step that leaves the ring alone.                                      *)
LEMMA RestOrdered ==
  ASSUME OrderInv, UNCHANGED ringVars PROVE OrderInv' /\ UNCHANGED Abstract!rsVars
  <1>1. RingInv'
    BY WalkLinked DEF OrderInv
  <1>2. Walk' = Walk /\ result' = result
    BY DEF Walk, ringVars
  <1>3. OrderInv'
    BY <1>1 DEF OrderInv, ringVars
  <1>4. QED
    BY <1>2, <1>3 DEF Abstract!rsVars

(* The ring starts empty.                                                  *)
LEMMA RingStartsOrdered == RingInit => OrderInv /\ Abstract!RSInit
  <1> SUFFICES ASSUME RingInit PROVE OrderInv /\ Abstract!RSInit
    OBVIOUS
  <1> DEFINE s == <<>>
  <1>1. s \in Seq(Cell) /\ Len(s) = 0
    BY EmptySeq
  <1>2. RingInv /\ current = NULL /\ live = {} /\ result = NULL
    BY RingInitial DEF RingInit
  <1> HIDE DEF s
  <1>3. Order(current, live, next, s)
    BY <1>1, <1>2 DEF Order
  <1>4. OrderInv
    BY <1>2, <1>3 DEF OrderInv
  <1>5. Walk = <<>>
    <2> DEFINE w == Walk
    <2>1. w \in Seq(Data \cup {NULL}) /\ Len(w) = 0
      BY <1>1, <1>2, <1>3, Met DEF RingInv
    <2> HIDE DEF w
    <2>2. w = <<>>
      BY <2>1, EmptySeq
    <2>3. QED
      BY <2>2 DEF w
  <1>6. QED
    BY <1>2, <1>4, <1>5 DEF Abstract!RSInit

(* Every step of the pointers is one of the sequence or none.              *)
LEMMA RingStepOrdered ==
  OrderInv /\ [RingStep]_ringVars => OrderInv' /\ [Abstract!RSStep]_Abstract!rsVars
  <1> SUFFICES ASSUME OrderInv, [RingStep]_ringVars
               PROVE  OrderInv' /\ [Abstract!RSStep]_Abstract!rsVars
    OBVIOUS
  <1>1. CASE \E c \in Cell, d \in Data : Add(c, d)
    BY <1>1, AddOrdered DEF Abstract!RSStep
  <1>2. CASE Remove
    BY <1>2, RemoveOrdered DEF Abstract!RSStep
  <1>3. CASE Next
    BY <1>3, NextOrdered DEF Abstract!RSStep
  <1>4. CASE Previous
    BY <1>4, PreviousOrdered DEF Abstract!RSStep
  <1>5. CASE GetData
    BY <1>5, DataOrdered DEF Abstract!RSStep
  <1>6. CASE UNCHANGED ringVars
    BY <1>6, RestOrdered
  <1>7. QED
    BY <1>1, <1>2, <1>3, <1>4, <1>5, <1>6 DEF RingStep

(* The ring of pointers is the cyclic sequence, for every heap and every   *)
(* set of data, alone and beside the queue.                                *)
THEOREM RingIsASequence == RingSpecification => ImplementsRing
  <1>1. RingSpecification => Abstract!RSSpec
    BY RingStartsOrdered, RingStepOrdered, PTL DEF RingSpecification, Abstract!RSSpec
  <1>2. QED
    BY <1>1 DEF ImplementsRing

(* The same when ring and queue share a heap.                              *)
THEOREM SharedHeapKeepsSequence == ContainersSpec => ImplementsRing
  <1>1. Init => RingInit
    BY DEF Init
  <1>2. [ContainersNext]_vars => [RingStep]_ringVars
    <2>1. RingCall => RingStep
      BY DEF RingCall, RingStep, FreeCells
    <2>2. QueueCall => UNCHANGED ringVars
      BY DEF QueueCall
    <2>3. QED
      BY <2>1, <2>2 DEF ContainersNext, vars, ringVars
  <1>3. ContainersSpec => RingSpecification
    BY <1>1, <1>2, PTL DEF ContainersSpec, RingSpecification
  <1>4. QED
    BY <1>3, RingIsASequence
=============================================================================
