------------------------ MODULE ThreadManagerProofs -------------------------
(***************************************************************************)
(* Proofs about the thread manager, for any number of children, letters    *)
(* per turn and commands typed.                                            *)
(***************************************************************************)
EXTENDS ThreadManager, SequenceTheorems, TLAPS

-----------------------------------------------------------------------------
(* The two-place queue: what an offer leaves.                              *)
LEMMA OfferedType ==
  ASSUME NEW S, NEW q \in Seq(S), NEW d \in S
  PROVE  /\ Q!Offered(q, d) \in Seq(S)
         /\ Len(Q!Offered(q, d)) \in 0 .. 2
         /\ Q!Offered(q, d)[Len(Q!Offered(q, d))] = d
         /\ q # <<>> => /\ Len(Q!Offered(q, d)) = 2
                        /\ Q!Offered(q, d)[1] = q[Len(q)]
         /\ q = <<>> => Len(Q!Offered(q, d)) = 1
  <1>1. CASE q = <<>>
    BY <1>1 DEF Q!Offered
  <1>2. CASE q # <<>>
    <2>1. q[Len(q)] \in S
      BY <1>2
    <2>2. Q!Offered(q, d) = <<q[Len(q)], d>>
      BY <1>2 DEF Q!Offered, Q!Last
    <2>3. QED
      BY <1>2, <2>1, <2>2
  <1>3. QED
    BY <1>1, <1>2

(* The child that follows one on the ring is on the ring.                  *)
LEMMA FollowingOnRing ==
  ASSUME NEW S, NEW l \in Seq(S), NEW e \in Range(l)
  PROVE  R!Following(l, e) \in Range(l)
  <1> DEFINE i == CHOOSE k \in DOMAIN l : l[k] = e
  <1>1. i \in DOMAIN l
    BY DEF Range
  <1>2. R!Following(l, e) = IF i = Len(l) THEN l[1] ELSE l[i + 1]
    BY DEF R!Following
  <1> HIDE DEF i
  <1>3. R!Following(l, e) \in {l[x] : x \in 1 .. Len(l)}
    BY <1>1, <1>2
  <1>4. QED
    BY <1>3 DEF Range

(* Without its last element a ring keeps all the others.                   *)
LEMMA RemovedType ==
  ASSUME NEW S, NEW l \in Seq(S), l # <<>>
  PROVE  /\ R!Removed(l) \in Seq(S)
         /\ Last(l) \in S
         /\ R!Removed(l) = <<>> <=> Len(l) = 1
         /\ \A e \in Range(l) : e # Last(l) => e \in Range(R!Removed(l))
         /\ Range(R!Removed(l)) \subseteq Range(l)
         /\ Len(R!Removed(l)) = Len(l) - 1
         /\ \A i \in 1 .. Len(l) - 1 : R!Removed(l)[i] = l[i]
  <1> DEFINE n == Len(l) - 1
             r == R!Removed(l)
  <1>6. /\ Last(l) = l[Len(l)] /\ Len(l) \in Nat \ {0} /\ Last(l) \in S
        /\ n \in Nat /\ n \in Int /\ 1 \in Int /\ \A i \in 1 .. n : l[i] \in S
    BY DEF Last
  <1> HIDE DEF n
  <1>7. /\ SubSeq(l, 1, n) \in Seq(S)
        /\ Len(SubSeq(l, 1, n)) = IF 1 <= n THEN n - 1 + 1 ELSE 0
        /\ \A i \in 1 .. n - 1 + 1 : SubSeq(l, 1, n)[i] = l[1 + i - 1]
    BY <1>6, SubSeqProperties
  <1>8. r = SubSeq(l, 1, n)
    BY DEF R!Removed, R!Front, n
  <1> HIDE DEF r
  <1>9. (IF 1 <= n THEN n - 1 + 1 ELSE 0) = n /\ n - 1 + 1 = n
    BY <1>6
  <1>0. ASSUME NEW i \in 1 .. Len(l) - 1
        PROVE  r[i] = l[i]
    <2>1. i \in 1 .. n /\ 1 + i - 1 = i
      BY DEF n
    <2>2. QED
      BY <1>7, <1>8, <1>9, <2>1
  <1>1. r \in Seq(S)
    BY <1>7, <1>8
  <1>2. Len(r) = Len(l) - 1
    BY <1>7, <1>8, <1>9 DEF n
  <1>3. \A e \in Range(l) : e # Last(l) => e \in Range(r)
    BY <1>0, <1>1, <1>2, <1>6 DEF Range
  <1>4. Range(r) \subseteq Range(l)
    BY <1>0, <1>1, <1>2, <1>6 DEF Range
  <1>5. r = <<>> <=> Len(l) = 1
    BY <1>1, <1>2, <1>6
  <1>10. QED
    BY <1>0, <1>1, <1>2, <1>3, <1>4, <1>5, <1>6 DEF r

(* An element that is added joins the others, and all stay in the list.    *)
LEMMA AddedType ==
  ASSUME NEW S, NEW l \in Seq(S), NEW e \in S
  PROVE  /\ R!Added(l, e) \in Seq(S)
         /\ R!Added(l, e) # <<>>
         /\ e \in Range(R!Added(l, e))
         /\ Range(l) \subseteq Range(R!Added(l, e))
  <1> DEFINE a == R!Added(l, e)
  <1>1. /\ a \in Seq(S) /\ Len(a) = Len(l) + 1 /\ a[Len(a)] = e
        /\ \A i \in 1 .. Len(l) : a[i] = l[i]
        /\ Len(l) \in Nat
    BY DEF R!Added
  <1> HIDE DEF a
  <1>2. QED
    BY <1>1 DEF Range, a

-----------------------------------------------------------------------------
(* Types hold at the start.                                                *)
LEMMA InitialTypes == Init => TypeOK
  <1> SUFFICES ASSUME Init PROVE TypeOK
    OBVIOUS
  <1>1. ManagerTypeOK
    BY DEF Init, ManagerTypeOK, Commands, FirstLetter
  <1>2. MainTypeOK
    BY MaxTypedAssumption DEF Init, MainTypeOK
  <1>3. ChildTypeOK
    BY LettersAssumption DEF Init, ChildTypeOK, FirstLetter
  <1>4. QED
    BY <1>1, <1>2, <1>3 DEF TypeOK, Init

(* The next name fits in a char.                                           *)
LEMMA NameType == TypeOK => NextName \in -128 .. 127
  BY LastLetterAssumption
     DEF TypeOK, ManagerTypeOK, NextName, Increment, FirstLetter

(* Steps that only change what is on the screen or end the process keep    *)
(* the types.                                                              *)
LEMMA IdleTypes ==
  ASSUME TypeOK, UNCHANGED <<listVars, pauseVars, tm_data, tmVars, mainVars,
                             childVars, hist>>,
         UNCHANGED process \/ process' = "crashed"
  PROVE  TypeOK'
  <1> USE DEF listVars, pauseVars, tmVars, mainVars, childVars
  <1>1. ManagerTypeOK'
    BY DEF TypeOK, ManagerTypeOK, Commands
  <1>2. MainTypeOK'
    BY DEF TypeOK, MainTypeOK, Commands
  <1>3. ChildTypeOK'
    BY DEF TypeOK, ChildTypeOK
  <1>4. QED
    BY <1>1, <1>2, <1>3 DEF TypeOK

(* A crash keeps the types.                                                *)
LEMMA CrashTypes == ASSUME TypeOK, Crash PROVE TypeOK'
  BY IdleTypes DEF Crash

(* What main and the user do to the types.                                 *)
LEMMA MainTypes ==
  ASSUME TypeOK, MainStep \/ M_Input \/ M_Info \/ Interrupt
  PROVE  TypeOK'
  <1> USE DEF listVars, pauseVars, tmVars, mainVars, childVars, endVars
  <1>1. ChildTypeOK' /\ process' \in {"running", "crashed"}
        /\ hist' \subseteq {"removed", "failed", "wrapped", "lost"}
    BY DEF TypeOK, ChildTypeOK, MainStep, M_Lock, M_Offer, OfferTM, M_Signal,
           M_InfoLock, Crash, M_InfoUnlock, M_Join, M_Input, M_Info, Interrupt
  <1>2. MainTypeOK'
    <2> USE DEF MainTypeOK, Commands
    <2>1. CASE M_Lock
      BY <2>1 DEF TypeOK, M_Lock
    <2>2. CASE M_Offer
      BY <2>2 DEF TypeOK, M_Offer
    <2>3. CASE M_Signal
      BY <2>3 DEF TypeOK, M_Signal
    <2>4. CASE M_InfoLock
      BY <2>4 DEF TypeOK, M_InfoLock, Crash
    <2>5. CASE M_InfoUnlock
      BY <2>5 DEF TypeOK, M_InfoUnlock
    <2>6. CASE M_Join
      BY <2>6 DEF TypeOK, M_Join
    <2>7. CASE M_Input
      BY <2>7, MaxTypedAssumption, NodeAssumption DEF TypeOK, M_Input
    <2>8. CASE M_Info
      BY <2>8 DEF TypeOK, M_Info
    <2>9. CASE Interrupt
      BY <2>9, NodeAssumption DEF TypeOK, Interrupt
    <2>10. QED
      BY <2>1, <2>2, <2>3, <2>4, <2>5, <2>6, <2>7, <2>8, <2>9 DEF MainStep
  <1>3. ManagerTypeOK'
    <2>1. CASE M_Offer
      <3>1. mainCmd \in Commands
        BY <2>1 DEF TypeOK, MainTypeOK, M_Offer
      <3>2. tm_data \in Seq(Commands) /\ tm_data' = Q!Offered(tm_data, mainCmd)
        BY <2>1 DEF TypeOK, ManagerTypeOK, M_Offer, OfferTM
      <3>3. tm_data' \in Seq(Commands) /\ Len(tm_data') \in 0 .. 2
        BY <3>1, <3>2, OfferedType, Zenon
      <3>4. QED
        BY <2>1, <3>3 DEF TypeOK, ManagerTypeOK, M_Offer, Commands
    <2>2. CASE M_Signal
      BY <2>2 DEF TypeOK, ManagerTypeOK, M_Signal, SignalTM
    <2>3. CASE UNCHANGED <<listVars, pauseVars, tm_data, tmVars>>
      BY <2>3 DEF TypeOK, ManagerTypeOK, Commands
    <2>4. QED
      BY <2>1, <2>2, <2>3
         DEF MainStep, M_Lock, M_InfoLock, Crash, M_InfoUnlock, M_Join,
             M_Input, M_Info, Interrupt
  <1>4. QED
    BY <1>1, <1>2, <1>3 DEF TypeOK

(* What the manager does to the types.                                     *)
LEMMA ManagerTypes ==
  ASSUME TypeOK, TMStep
  PROVE  TypeOK'
  <1> USE DEF listVars, pauseVars, tmVars, mainVars, childVars, endVars
  <1>1. CASE T_Get
    <2>1. ManagerTypeOK'
      <3>1. CASE tm_data = <<>>
        BY <1>1, <3>1 DEF TypeOK, ManagerTypeOK, T_Get, Commands
      <3>2. CASE tm_data # <<>>
        <4>1. tm_data \in Seq(Commands) /\ Len(tm_data) \in 0 .. 2
          BY DEF TypeOK, ManagerTypeOK
        <4>2. Head(tm_data) \in Commands /\ Tail(tm_data) \in Seq(Commands)
              /\ Len(Tail(tm_data)) \in 0 .. 2
          BY <3>2, <4>1
        <4>3. QED
          BY <1>1, <3>2, <4>2
             DEF TypeOK, ManagerTypeOK, T_Get, Q!Polled, Commands
      <3>3. QED
        BY <3>1, <3>2
    <2>2. QED
      BY <1>1, <2>1 DEF TypeOK, MainTypeOK, ChildTypeOK, T_Get, Commands
  <1>2. ASSUME NEW n \in Node, T_Add(n)
        PROVE  TypeOK'
    <2>1. /\ ring' \in Seq(Node) /\ ring' # <<>>
          /\ last_child_name' \in -128 .. 127
      BY <1>2, AddedType, NameType DEF TypeOK, ManagerTypeOK, T_Add, UseName
    <2>2. ManagerTypeOK'
      BY <1>2, <2>1
         DEF TypeOK, ManagerTypeOK, T_Add, UpdateCurrentChild, Commands
    <2>3. ChildTypeOK'
      BY <1>2 DEF TypeOK, ManagerTypeOK, ChildTypeOK, T_Add
    <2>4. QED
      BY <1>2, <2>2, <2>3 DEF TypeOK, MainTypeOK, T_Add, UseName, Commands
  <1>3. ASSUME NEW n \in Node, T_CreateFails(n)
        PROVE  TypeOK'
    <2>0. ring' \in Seq(Node) /\ (ring' = <<>> => ring = <<>>)
      <3>1. CASE ring = <<>>
        BY <1>3, <3>1 DEF TypeOK, ManagerTypeOK, T_CreateFails
      <3>2. CASE ring # <<>>
        BY <1>3, <3>2, AddedType DEF TypeOK, ManagerTypeOK, T_CreateFails
      <3>3. QED
        BY <3>1, <3>2
    <2>1. last_child_name' \in -128 .. 127
      <3>1. CASE ring = <<>>
        BY <1>3, <3>1 DEF TypeOK, ManagerTypeOK, T_CreateFails
      <3>2. CASE ring # <<>>
        BY <1>3, <3>2, NameType DEF T_CreateFails
      <3>3. QED
        BY <3>1, <3>2
    <2>2. ManagerTypeOK'
      BY <1>3, <2>0, <2>1 DEF TypeOK, ManagerTypeOK, T_CreateFails, Commands
    <2>3. ChildTypeOK'
      BY <1>3 DEF TypeOK, ChildTypeOK, T_CreateFails
    <2>4. QED
      BY <1>3, <2>2, <2>3 DEF TypeOK, MainTypeOK, T_CreateFails, Commands
  <1>4. CASE T_AddNoMemory
    <2>1. ManagerTypeOK'
      BY <1>4, NameType DEF TypeOK, ManagerTypeOK, T_AddNoMemory, Commands
    <2>2. ChildTypeOK'
      BY <1>4 DEF TypeOK, ChildTypeOK, T_AddNoMemory
    <2>3. MainTypeOK'
      BY <1>4 DEF TypeOK, MainTypeOK, T_AddNoMemory
    <2>4. QED
      BY <1>4, <2>1, <2>2, <2>3 DEF TypeOK, T_AddNoMemory
  <1>5. CASE T_Wake
    <2>1. ManagerTypeOK'
      BY <1>5 DEF TypeOK, ManagerTypeOK, T_Wake, Crash, Commands
    <2>2. ChildTypeOK'
      BY <1>5 DEF TypeOK, ManagerTypeOK, ChildTypeOK, T_Wake, Crash
    <2>3. QED
      BY <1>5, <2>1, <2>2 DEF TypeOK, MainTypeOK, T_Wake, Commands, Crash
  <1>6. CASE T_WakeSignal
    <2>1. ManagerTypeOK'
      BY <1>6 DEF TypeOK, ManagerTypeOK, T_WakeSignal, Commands
    <2>2. ChildTypeOK'
      BY <1>6 DEF TypeOK, ManagerTypeOK, ChildTypeOK, T_WakeSignal, SignalChild
    <2>3. QED
      BY <1>6, <2>1, <2>2 DEF TypeOK, MainTypeOK, T_WakeSignal, Commands
  <1>7. CASE T_ChildSignal
    <2>1. current_child' \in Node \cup {NULL}
      <3>1. ring \in Seq(Node) /\ Children \subseteq Node
        BY DEF TypeOK, ManagerTypeOK, Children, Range
      <3>2. CASE current_child' = current_child
        BY <3>2 DEF TypeOK, ManagerTypeOK
      <3>3. CASE Dangling /\ current_child' = ring[1]
        BY <1>7, <3>1, <3>3
           DEF T_ChildSignal, Dangling, TypeOK, ManagerTypeOK
      <3>4. CASE /\ ~Dangling /\ current_child # NULL
                 /\ current_child' = R!Following(ring, current_child)
        <4>1. current_child \in Range(ring)
          BY <3>4 DEF Dangling, Children
        <4>2. R!Following(ring, current_child) \in Range(ring)
          BY <3>1, <4>1, FollowingOnRing
        <4>3. QED
          BY <3>1, <3>4, <4>2 DEF Children
      <3>5. QED
        BY <1>7, <3>2, <3>3, <3>4 DEF T_ChildSignal, UpdateCurrentChild
    <2>2. ManagerTypeOK'
      BY <1>7, <2>1 DEF TypeOK, ManagerTypeOK, T_ChildSignal, Commands
    <2>3. QED
      BY <1>7, <2>2 DEF TypeOK, MainTypeOK, ChildTypeOK, T_ChildSignal, Commands
  <1>8. CASE T_Pause
    <2>1. ManagerTypeOK'
      BY <1>8 DEF TypeOK, ManagerTypeOK, T_Pause, Commands
    <2>2. ChildTypeOK'
      BY <1>8 DEF TypeOK, ManagerTypeOK, ChildTypeOK, T_Pause
    <2>3. QED
      BY <1>8, <2>1, <2>2 DEF TypeOK, MainTypeOK, T_Pause, Commands
  <1>9. CASE T_Send
    <2>1. tm_data \in Seq(Commands) /\ tm_data' = Q!Offered(tm_data, "x")
          /\ "x" \in Commands
      BY <1>9 DEF TypeOK, ManagerTypeOK, T_Send, OfferTM, Commands
    <2>2. tm_data' \in Seq(Commands) /\ Len(tm_data') \in 0 .. 2
      BY <2>1, OfferedType, Zenon
    <2>3. ManagerTypeOK'
      BY <1>9, <2>2 DEF TypeOK, ManagerTypeOK, T_Send, OfferTM, Commands
    <2>4. QED
      BY <1>9, <2>3 DEF TypeOK, MainTypeOK, ChildTypeOK, T_Send, OfferTM, Commands
  <1>10. CASE T_NoChild
    <2>1. ManagerTypeOK'
      BY <1>10 DEF TypeOK, ManagerTypeOK, T_NoChild, Commands
    <2>2. ChildTypeOK'
      BY <1>10 DEF TypeOK, ManagerTypeOK, ChildTypeOK, T_NoChild
    <2>3. QED
      BY <1>10, <2>1, <2>2 DEF TypeOK, MainTypeOK, T_NoChild, Commands
  <1>11. CASE T_Remove
    <2>1. CASE ring # <<>> /\ childPC[Last(ring)] = "none"
      BY <1>11, <2>1, CrashTypes DEF T_Remove
    <2>2. CASE ring # <<>> /\ childPC[Last(ring)] # "none"
      <3>1. ring' \in Seq(Node) /\ tmNode' \in Node
        BY <1>11, <2>2, RemovedType DEF TypeOK, ManagerTypeOK, T_Remove
      <3>2. ManagerTypeOK'
        BY <1>11, <2>2, <3>1 DEF TypeOK, ManagerTypeOK, T_Remove, Commands
      <3>3. ChildTypeOK'
        BY <1>11, <2>2 DEF TypeOK, ChildTypeOK, T_Remove
      <3>4. QED
        BY <1>11, <2>2, <3>2, <3>3 DEF TypeOK, MainTypeOK, T_Remove, Commands
    <2>3. QED
      BY <1>11, <2>1, <2>2 DEF T_Remove
  <1>12. CASE T_KillSignal
    <2>1. ManagerTypeOK'
      BY <1>12 DEF TypeOK, ManagerTypeOK, T_KillSignal, Commands
    <2>2. ChildTypeOK'
      BY <1>12 DEF TypeOK, ManagerTypeOK, ChildTypeOK, T_KillSignal, SignalChild
    <2>3. QED
      BY <1>12, <2>1, <2>2 DEF TypeOK, MainTypeOK, T_KillSignal, Commands
  <1>13. CASE T_Join
    <2>1. last_child_name' \in -128 .. 127
      BY <1>13 DEF TypeOK, ManagerTypeOK, T_Join, Decrement
    <2>2. ManagerTypeOK'
      BY <1>13, <2>1
         DEF TypeOK, ManagerTypeOK, T_Join, UpdateCurrentChild, Commands
    <2>3. ChildTypeOK'
      <3>1. 0 \in 0 .. Letters - 1 /\ FirstLetter \in -128 .. 127
        BY LettersAssumption DEF FirstLetter
      <3>2. QED
        BY <1>13, <3>1 DEF TypeOK, ChildTypeOK, T_Join, Blank
    <2>4. QED
      BY <1>13, <2>2, <2>3 DEF TypeOK, MainTypeOK, T_Join, Commands
  <1>14. QED
    BY <1>1, <1>2, <1>3, <1>4, <1>5, <1>6, <1>7, <1>8, <1>9, <1>10, <1>11,
       <1>12, <1>13 DEF TMStep

(* What a child does to the types.                                         *)
LEMMA ChildTypes ==
  ASSUME NEW n \in Node, TypeOK, ChildStep(n)
  PROVE  TypeOK'
  <1> USE DEF listVars, pauseVars, tmVars, mainVars, childVars, endVars
  <1>1. ManagerTypeOK' /\ hist' \subseteq {"removed", "failed", "wrapped", "lost"}
    <2>1. CASE C_Send(n)
      <3>1. tm_data \in Seq(Commands) /\ tm_data' = Q!Offered(tm_data, "x")
            /\ "x" \in Commands
        BY <2>1 DEF TypeOK, ManagerTypeOK, C_Send, OfferTM, Commands
      <3>2. tm_data' \in Seq(Commands) /\ Len(tm_data') \in 0 .. 2
        BY <3>1, OfferedType, Zenon
      <3>3. QED
        BY <2>1, <3>2 DEF TypeOK, ManagerTypeOK, C_Send, OfferTM, Commands
    <2>2. CASE C_Signal(n)
      BY <2>2 DEF TypeOK, ManagerTypeOK, C_Signal, SignalTM, Commands
    <2>3. CASE UNCHANGED <<listVars, pauseVars, tm_data, tmVars, hist>>
      BY <2>3 DEF TypeOK, ManagerTypeOK, Commands
    <2>4. QED
      BY <2>1, <2>2, <2>3 DEF ChildStep, C_Receive, C_CancelWait, C_Letter
  <1>2. ChildTypeOK'
    <2> USE DEF TypeOK, ChildTypeOK
    <2>1. CASE C_Receive(n)
      BY <2>1 DEF C_Receive
    <2>2. CASE C_CancelWait(n)
      BY <2>2 DEF C_CancelWait
    <2>3. CASE C_Letter(n)
      <3>1. letter' \in [Node -> 0 .. Letters - 1]
        BY <2>3, LettersAssumption DEF C_Letter
      <3>2. QED
        BY <2>3, <3>1 DEF C_Letter
    <2>4. CASE C_Send(n)
      BY <2>4 DEF C_Send
    <2>5. CASE C_Signal(n)
      BY <2>5 DEF C_Signal
    <2>6. QED
      BY <2>1, <2>2, <2>3, <2>4, <2>5 DEF ChildStep
  <1>3. MainTypeOK' /\ process' \in {"running", "crashed"}
    BY DEF TypeOK, MainTypeOK, Commands, ChildStep, C_Receive, C_CancelWait,
           C_Letter, C_Send, C_Signal
  <1>4. QED
    BY <1>1, <1>2, <1>3 DEF TypeOK

(* Every variable keeps its type (tm.c, child.c): the queue never holds    *)
(* more than two commands, the name is a char whatever is added and        *)
(* removed, and a child never prints more letters than it was told.        *)
THEOREM TypeCorrect == Spec => []TypeOK
  <1>1. TypeOK /\ [Next]_vars => TypeOK'
    <2>1. CASE UNCHANGED vars
      BY <2>1, IdleTypes DEF vars, endVars
    <2>2. QED
      BY <2>1, MainTypes, ManagerTypes, ChildTypes
         DEF Next, Main, User, TM, Child
  <1>2. QED
    BY <1>1, InitialTypes, PTL DEF Spec

-----------------------------------------------------------------------------
(* The turn.  OneTurn is not inductive: that a turn is passed on and not   *)
(* doubled depends on where current_child points and on which children are *)
(* on the ring.  TurnInv says, while case '-' has not taken current_child, *)
(* who can have the turn in each situation of the manager.                 *)
Woken(n) == message[n] = 1
Printing(n) == childPC[n] \in {"print", "send"}
ManagerHas == tmPC \in {"wake", "send", "x"}
PauseHas == tm_paused = 1 /\ tm_child_paused = 1
Queued == \E i \in DOMAIN tm_data : tm_data[i] = "x"
QueuedOnce ==
    \A i, j \in DOMAIN tm_data : tm_data[i] = "x" /\ tm_data[j] = "x" => i = j

Killing == tmPC \in {"killSignal", "join"}
Ending == tmPC \in {"q", "done"} \/ (Killing /\ tmAfter = "q")

HolderInv ==
    \A n \in Node :
        /\ Woken(n) \/ Printing(n)
               => n = current_child /\ ~ManagerHas /\ ~PauseHas /\ ~Queued
        /\ ~(Woken(n) /\ Printing(n))
        /\ Woken(n) => n \in Children
        /\ Printing(n) => n \in Children \/ (Killing /\ n = tmNode)

TokenInv ==
    /\ ManagerHas => ~PauseHas /\ ~Queued
    /\ PauseHas => ~Queued
    /\ QueuedOnce

RingInv ==
    /\ tmAfter # "send"
    /\ ~Ending => current_child \in Children \/ (ring = <<>> /\ current_child = NULL)
    /\ ring = <<>> /\ ~Ending => ~ManagerHas /\ ~PauseHas /\ ~Queued

TurnInv == "removed" \notin hist => HolderInv /\ TokenInv /\ RingInv

(* A command that is not the child signal leaves at most the "x" that was  *)
(* there.                                                                  *)
LEMMA OfferOther ==
  ASSUME TypeOK, QueuedOnce, NEW cmd \in Commands \ {"x"}, OfferTM(cmd)
  PROVE  QueuedOnce' /\ (Queued' => Queued)
  <1>1. tm_data \in Seq(Commands) /\ Len(tm_data) \in 0 .. 2 /\ cmd \in Commands
    BY DEF TypeOK, ManagerTypeOK
  <1>2. tm_data' = IF tm_data = <<>> THEN <<cmd>>
                   ELSE <<tm_data[Len(tm_data)], cmd>>
    BY DEF OfferTM, Q!Offered, Q!Last
  <1>3. /\ tm_data' \in Seq(Commands) /\ Len(tm_data') \in 0 .. 2
        /\ tm_data'[Len(tm_data')] = cmd
        /\ tm_data # <<>> => /\ Len(tm_data') = 2
                             /\ tm_data'[1] = tm_data[Len(tm_data)]
        /\ tm_data = <<>> => Len(tm_data') = 1
    BY <1>1, <1>2
  <1>4. ASSUME NEW i \in DOMAIN tm_data', tm_data'[i] = "x"
        PROVE  i = 1 /\ Len(tm_data) \in DOMAIN tm_data
               /\ tm_data[Len(tm_data)] = "x"
    <2>1. Len(tm_data') # i
      BY <1>3, <1>4
    <2>2. Len(tm_data') = 2 /\ i = 1 /\ tm_data # <<>>
      BY <1>1, <1>3, <2>1
    <2>3. QED
      BY <1>1, <1>3, <1>4, <2>2
  <1>5. QED
    BY <1>4 DEF QueuedOnce, Queued

(* Where no child has announced its end, an "x" that is offered is the     *)
(* only one queued.                                                        *)
LEMMA OfferSignal ==
  ASSUME TypeOK, ~Queued, OfferTM("x")
  PROVE  QueuedOnce'
  <1>1. tm_data \in Seq(Commands) /\ Len(tm_data) \in 0 .. 2 /\ "x" \in Commands
    BY DEF TypeOK, ManagerTypeOK, Commands
  <1>2. tm_data' = IF tm_data = <<>> THEN <<"x">>
                   ELSE <<tm_data[Len(tm_data)], "x">>
    BY DEF OfferTM, Q!Offered, Q!Last
  <1>3. /\ tm_data' \in Seq(Commands) /\ Len(tm_data') \in 0 .. 2
        /\ tm_data'[Len(tm_data')] = "x"
        /\ tm_data # <<>> => /\ Len(tm_data') = 2
                             /\ tm_data'[1] = tm_data[Len(tm_data)]
        /\ tm_data = <<>> => Len(tm_data') = 1
    BY <1>1, <1>2
  <1>4. ASSUME NEW i \in DOMAIN tm_data', tm_data'[i] = "x"
        PROVE  i = Len(tm_data')
    <2>1. CASE tm_data = <<>>
      BY <1>3, <2>1
    <2>2. CASE tm_data # <<>>
      <3>1. Len(tm_data) \in DOMAIN tm_data
        BY <1>1, <2>2
      <3>2. tm_data'[1] # "x"
        BY <1>3, <2>2, <3>1 DEF Queued
      <3>3. i # 1
        BY <1>4, <3>2
      <3>4. QED
        BY <1>3, <2>2, <3>3
    <2>3. QED
      BY <2>1, <2>2
  <1>5. QED
    BY <1>4 DEF QueuedOnce

(* The children keep the turn they have, or lose it.                       *)
LEMMA HolderFrame ==
  ASSUME HolderInv, UNCHANGED <<ring, current_child, message, childPC>>,
         ManagerHas' => ManagerHas, PauseHas' => PauseHas, Queued' => Queued,
         Killing => Killing' /\ tmNode' = tmNode
  PROVE  HolderInv'
  BY DEF HolderInv, Woken, Printing, Children

(* Steps that touch nothing of the turn keep its invariant.                *)
LEMMA TurnIdle ==
  ASSUME TurnInv, UNCHANGED <<ring, current_child, tm_paused, tm_child_paused,
                              tm_data, tmPC, tmNode, tmAfter, message, childPC,
                              hist>>
  PROVE  TurnInv'
  BY DEF TurnInv, HolderInv, TokenInv, RingInv, Woken, Printing, ManagerHas,
         PauseHas, Queued, QueuedOnce, Killing, Ending, Children

(* The invariant of the turn holds at the start.                           *)
LEMMA InitialTurn == Init => TurnInv
  BY DEF Init, TurnInv, HolderInv, TokenInv, RingInv, Woken, Printing,
         ManagerHas, PauseHas, Queued, QueuedOnce, Killing, Ending, Children

(* Main hands over commands, never an "x", and only wakes the manager.     *)
LEMMA TurnMain ==
  ASSUME TypeOK, TurnInv, MainStep \/ M_Input \/ M_Info \/ Interrupt
  PROVE  TurnInv'
  <1> USE DEF listVars, pauseVars, tmVars, mainVars, childVars, endVars
  <1>1. CASE M_Offer
    <2> SUFFICES ASSUME "removed" \notin hist'
                 PROVE  (HolderInv /\ TokenInv /\ RingInv)'
      BY DEF TurnInv
    <2>1. "removed" \notin hist /\ OfferTM(mainCmd)
      BY <1>1 DEF M_Offer, OfferTM
    <2>2. HolderInv /\ TokenInv /\ RingInv
      BY <2>1 DEF TurnInv
    <2>3. mainCmd \in Commands \ {"x"}
      BY <1>1 DEF TypeOK, MainTypeOK, M_Offer
    <2>4. QueuedOnce' /\ (Queued' => Queued)
      BY <2>1, <2>2, <2>3, OfferOther, Zenon DEF TokenInv
    <2>5. UNCHANGED <<ring, current_child, tm_paused, tm_child_paused, tmPC,
                      tmNode, tmAfter, message, childPC>>
      BY <1>1 DEF M_Offer
    <2>6. UNCHANGED <<ManagerHas, PauseHas, Killing, Ending, Children>>
      BY <2>5 DEF ManagerHas, PauseHas, Killing, Ending, Children
    <2>7. HolderInv'
      BY <2>2, <2>4, <2>5, <2>6, HolderFrame
    <2>8. TokenInv' /\ RingInv'
      BY <2>2, <2>4, <2>5, <2>6 DEF TokenInv, RingInv
    <2>9. QED
      BY <2>7, <2>8
  <1>2. CASE M_Signal
    <2>1. UNCHANGED <<ring, current_child, tm_paused, tm_child_paused, tm_data,
                      tmNode, tmAfter, message, childPC, hist>>
          /\ (tmPC' = tmPC \/ (tmPC = "wait" /\ tmPC' = "get"))
      BY <1>2 DEF M_Signal, SignalTM
    <2>2. QED
      BY <2>1 DEF TurnInv, HolderInv, TokenInv, RingInv, Woken, Printing,
                  ManagerHas, PauseHas, Queued, QueuedOnce, Killing, Ending,
                  Children
  <1>3. CASE UNCHANGED <<listVars, pauseVars, tm_data, tmVars, childVars, hist>>
    BY <1>3, TurnIdle
  <1>4. QED
    BY <1>1, <1>2, <1>3 DEF MainStep, M_Lock, M_InfoLock, Crash, M_InfoUnlock,
       M_Join, M_Input, M_Info, Interrupt

(* A child that is woken prints, and its "x" takes the turn from it.       *)
LEMMA TurnChild ==
  ASSUME NEW n \in Node, TypeOK, TurnInv, ChildStep(n)
  PROVE  TurnInv'
  <1> USE DEF listVars, pauseVars, tmVars, mainVars, childVars, endVars
  <1> SUFFICES ASSUME "removed" \notin hist'
               PROVE  (HolderInv /\ TokenInv /\ RingInv)'
    BY DEF TurnInv
  <1>1. UNCHANGED <<ring, current_child, tm_paused, tm_child_paused, tmNode,
                    tmAfter>>
        /\ "removed" \notin hist
        /\ (tmPC' = tmPC \/ (tmPC = "wait" /\ tmPC' = "get"))
    BY DEF ChildStep, C_Receive, C_CancelWait, C_Letter, C_Send, C_Signal,
           OfferTM, SignalTM
  <1>2. HolderInv /\ TokenInv /\ RingInv
    BY <1>1 DEF TurnInv
  <1>3. UNCHANGED <<ManagerHas, PauseHas, Killing, Ending, Children>>
    BY <1>1 DEF ManagerHas, PauseHas, Killing, Ending, Children
  <1>4. message \in [Node -> {-1, 0, 1}] /\ childPC \in
        [Node -> {"none", "ready", "wait", "print", "send", "signal", "dead"}]
    BY DEF TypeOK, ChildTypeOK
  <1>5. CASE C_Send(n)
    <2>1. /\ Printing(n) /\ ~Printing(n)'
          /\ message' = message /\ OfferTM("x")
          /\ \A m \in Node \ {n} : childPC'[m] = childPC[m]
      BY <1>4, <1>5 DEF C_Send, Printing
    <2>2. ~ManagerHas /\ ~PauseHas /\ ~Queued
      BY <1>2, <2>1 DEF HolderInv
    <2>3. QueuedOnce'
      BY <2>1, <2>2, OfferSignal
    <2>4. \A m \in Node : ~Woken(m)' /\ ~Printing(m)'
      BY <1>2, <2>1 DEF HolderInv, Woken, Printing
    <2>5. HolderInv'
      BY <2>4 DEF HolderInv
    <2>6. TokenInv'
      BY <1>3, <2>2, <2>3 DEF TokenInv
    <2>7. Ending \/ ring # <<>>
      <3>1. n = current_child /\ n # NULL
        BY <1>2, <2>1, NodeAssumption DEF HolderInv
      <3>2. Ending \/ current_child \in Children
        BY <1>2, <3>1 DEF RingInv
      <3>3. QED
        BY <3>2 DEF Children, Range
    <2>8. RingInv'
      BY <1>1, <1>2, <1>3, <2>7 DEF RingInv
    <2>9. QED
      BY <2>5, <2>6, <2>8
  <1>6. CASE tm_data' = tm_data
    <2>1. UNCHANGED <<Queued, QueuedOnce>>
      BY <1>6 DEF Queued, QueuedOnce
    <2>2. TokenInv' /\ RingInv'
      BY <1>1, <1>2, <1>3, <2>1 DEF TokenInv, RingInv
    <2>3. ASSUME NEW m \in Node
          PROVE  /\ Woken(m)' => Woken(m)
                 /\ Printing(m)' => Printing(m) \/ Woken(m)
                 /\ Woken(m) /\ Printing(m)' => ~Woken(m)'
      BY <1>2, <1>4, <1>6
         DEF ChildStep, C_Receive, C_CancelWait, C_Letter, C_Send, C_Signal,
             Woken, Printing, HolderInv
    <2>4. HolderInv'
      BY <1>1, <1>2, <1>3, <2>1, <2>3 DEF HolderInv
    <2>5. QED
      BY <2>2, <2>4
  <1>7. QED
    BY <1>5, <1>6 DEF ChildStep, C_Receive, C_CancelWait, C_Letter, C_Signal

(* The manager gives the turn to the child that follows, keeps it while    *)
(* paused, and never gives away one it does not have.                      *)
LEMMA TurnManager ==
  ASSUME TypeOK, TurnInv, TMStep
  PROVE  TurnInv'
  <1> USE DEF listVars, pauseVars, tmVars, mainVars, childVars, endVars
  <1> SUFFICES ASSUME "removed" \notin hist'
               PROVE  (HolderInv /\ TokenInv /\ RingInv)'
    BY DEF TurnInv
  <1>1. "removed" \notin hist
    BY DEF TMStep, T_Get, T_Add, T_CreateFails, T_AddNoMemory, T_Wake,
           T_WakeSignal, T_ChildSignal, T_Pause, T_Send, T_NoChild, T_Remove,
           T_KillSignal, T_Join, OfferTM, Crash, UseName
  <1>2. HolderInv /\ TokenInv /\ RingInv
    BY <1>1 DEF TurnInv
  <1>3. /\ ring \in Seq(Node) /\ tm_data \in Seq(Commands)
        /\ message \in [Node -> {-1, 0, 1}]
        /\ childPC \in [Node -> {"none", "ready", "wait", "print", "send",
                                 "signal", "dead"}]
    BY DEF TypeOK, ManagerTypeOK, ChildTypeOK
  <1>4. CASE T_Get
    <2>1. UNCHANGED <<ring, current_child, tm_paused, tm_child_paused, tmNode,
                      tmAfter, message, childPC>>
      BY <1>4 DEF T_Get
    <2>2. CASE tm_data = <<>>
      <3>1. tmPC = "get" /\ tmPC' = "wait" /\ tm_data' = tm_data
        BY <1>4, <2>2 DEF T_Get
      <3>2. QED
        BY <1>2, <2>1, <3>1
           DEF HolderInv, TokenInv, RingInv, Woken, Printing, ManagerHas,
               PauseHas, Queued, QueuedOnce, Killing, Ending, Children
    <2>3. CASE tm_data # <<>>
      <3>1. /\ tmPC = "get" /\ tmPC' = Head(tm_data)
            /\ tm_data' = Tail(tm_data)
        BY <1>4, <2>3 DEF T_Get, Q!Polled
      <3>2. /\ \A i \in DOMAIN tm_data' : /\ i + 1 \in DOMAIN tm_data
                                          /\ tm_data'[i] = tm_data[i + 1]
            /\ 1 \in DOMAIN tm_data /\ tmPC' = tm_data[1]
            /\ DOMAIN tm_data' \subseteq Nat \ {0}
            /\ tmPC' \in Commands
        BY <1>3, <2>3, <3>1
      <3>3. QueuedOnce' /\ (Queued' => Queued)
        BY <1>2, <3>2 DEF TokenInv, QueuedOnce, Queued
      <3>4. tmPC' = "x" => Queued /\ ~Queued'
        <4>1. ASSUME tmPC' = "x", NEW i \in DOMAIN tm_data', tm_data'[i] = "x"
              PROVE  FALSE
          <5>1. i + 1 \in DOMAIN tm_data /\ tm_data[i + 1] = "x"
            BY <3>2, <4>1
          <5>2. tm_data[1] = "x" /\ i \in Nat \ {0}
            BY <3>2, <4>1
          <5>3. i + 1 = 1
            BY <1>2, <3>2, <5>1, <5>2 DEF TokenInv, QueuedOnce
          <5>4. QED
            BY <5>2, <5>3
        <4>2. QED
          BY <3>2, <4>1 DEF Queued
      <3>5. /\ ~ManagerHas /\ ManagerHas' = (tmPC' = "x")
            /\ ~Killing /\ ~Killing' /\ ~Ending
            /\ UNCHANGED <<PauseHas, Children>>
        BY <2>1, <3>1, <3>2
           DEF ManagerHas, Killing, Ending, PauseHas, Children, Commands
      <3>6. ASSUME NEW n \in Node
            PROVE  /\ Woken(n)' = Woken(n) /\ Printing(n)' = Printing(n)
        BY <2>1 DEF Woken, Printing
      <3>7. HolderInv'
        BY <1>2, <2>1, <3>3, <3>4, <3>5, <3>6 DEF HolderInv
      <3>8. TokenInv' /\ RingInv'
        BY <1>2, <2>1, <3>3, <3>4, <3>5 DEF TokenInv, RingInv
      <3>9. QED
        BY <3>7, <3>8
    <2>4. QED
      BY <2>2, <2>3
  <1>5. ASSUME NEW n \in Node, T_Add(n)
        PROVE  (HolderInv /\ TokenInv /\ RingInv)'
    <2>1. /\ UNCHANGED <<tm_paused, tm_child_paused, tm_data, tmNode, tmAfter,
                         message>>
          /\ tmPC = "+" /\ n \notin Children
          /\ childPC' = [childPC EXCEPT ![n] = "ready"]
      BY <1>5 DEF T_Add
    <2>2. ring' # <<>> /\ n \in Children' /\ Children \subseteq Children'
      BY <1>3, <1>5, AddedType DEF T_Add, Children
    <2>3. /\ UNCHANGED <<PauseHas, Queued, QueuedOnce>>
          /\ ~ManagerHas /\ ~Killing /\ ~Ending /\ ~Killing' /\ ~Ending'
      BY <1>5, <2>1
         DEF T_Add, PauseHas, Queued, QueuedOnce, ManagerHas, Killing, Ending
    <2>4. ASSUME NEW m \in Node
          PROVE  /\ Woken(m)' = Woken(m)
                 /\ Printing(m)' => Printing(m)
      BY <1>3, <2>1 DEF Woken, Printing
    <2>5. CASE ring = <<>>
      <3>1. current_child' = n /\ tmPC' = "wake" /\ Children = {}
        BY <1>5, <2>5 DEF T_Add, UpdateCurrentChild, Children, Range
      <3>2. ~PauseHas /\ ~Queued
        BY <1>2, <2>3, <2>5 DEF RingInv
      <3>3. \A m \in Node : ~Woken(m)' /\ ~Printing(m)'
        BY <1>2, <2>3, <2>4, <3>1 DEF HolderInv
      <3>4. QED
        BY <1>2, <2>1, <2>2, <2>3, <3>1, <3>2, <3>3
           DEF HolderInv, TokenInv, RingInv
    <2>6. CASE ring # <<>>
      <3>1. current_child' = current_child /\ tmPC' = "get" /\ ~ManagerHas'
        BY <1>5, <2>6 DEF T_Add, ManagerHas
      <3>2. HolderInv'
        BY <1>2, <2>2, <2>3, <2>4, <3>1 DEF HolderInv
      <3>3. TokenInv' /\ RingInv'
        BY <1>2, <2>1, <2>2, <2>3, <2>6, <3>1 DEF TokenInv, RingInv
      <3>4. QED
        BY <3>2, <3>3
    <2>7. QED
      BY <2>5, <2>6
  <1>6. ASSUME NEW n \in Node, T_CreateFails(n)
        PROVE  (HolderInv /\ TokenInv /\ RingInv)'
    <2>1. CASE ring = <<>>
      <3>1. UNCHANGED <<ring, current_child, tm_paused, tm_child_paused,
                        tm_data, tmPC, tmNode, tmAfter, message, childPC>>
        BY <1>6, <2>1 DEF T_CreateFails
      <3>2. QED
        BY <1>2, <3>1
           DEF HolderInv, TokenInv, RingInv, Woken, Printing, ManagerHas,
               PauseHas, Queued, QueuedOnce, Killing, Ending, Children
    <2>2. CASE ring # <<>>
      <3>1. /\ UNCHANGED <<current_child, tm_paused, tm_child_paused, tm_data,
                           tmNode, tmAfter, message>>
            /\ tmPC = "+" /\ tmPC' = "get"
            /\ childPC' = [childPC EXCEPT ![n] = "none"]
        BY <1>6, <2>2 DEF T_CreateFails
      <3>2. ring' # <<>> /\ Children \subseteq Children'
        BY <1>3, <1>6, <2>2, AddedType DEF T_CreateFails, Children
      <3>3. /\ UNCHANGED <<PauseHas, Queued, QueuedOnce>>
            /\ ~ManagerHas /\ ~Killing /\ ~Ending
            /\ ~ManagerHas' /\ ~Killing' /\ ~Ending'
        BY <3>1 DEF PauseHas, Queued, QueuedOnce, ManagerHas, Killing, Ending
      <3>4. ASSUME NEW m \in Node
            PROVE  Woken(m)' = Woken(m) /\ (Printing(m)' => Printing(m))
        BY <1>3, <3>1 DEF Woken, Printing
      <3>5. HolderInv'
        BY <1>2, <3>1, <3>2, <3>3, <3>4 DEF HolderInv
      <3>6. TokenInv' /\ RingInv'
        BY <1>2, <2>2, <3>1, <3>2, <3>3 DEF TokenInv, RingInv
      <3>7. QED
        BY <3>5, <3>6
    <2>3. QED
      BY <2>1, <2>2
  <1>7. CASE T_AddNoMemory \/ T_NoChild
    <2>1. /\ UNCHANGED <<ring, current_child, tm_paused, tm_child_paused,
                         tm_data, tmNode, tmAfter, message, childPC>>
          /\ \/ tmPC \in {"+", "-"} /\ tmPC' = "get"
             \/ tmPC = "q" /\ tmPC' = "done"
      BY <1>7 DEF T_AddNoMemory, T_NoChild
    <2>2. QED
      BY <1>2, <2>1
         DEF HolderInv, TokenInv, RingInv, Woken, Printing, ManagerHas,
             PauseHas, Queued, QueuedOnce, Killing, Ending, Children
  <1>8. CASE T_Wake
    <2>1. CASE childPC[current_child] = "none"
      <3>1. UNCHANGED <<ring, current_child, tm_paused, tm_child_paused,
                        tm_data, tmPC, tmNode, tmAfter, message, childPC>>
        BY <1>8, <2>1 DEF T_Wake, Crash
      <3>2. QED
        BY <1>2, <3>1
           DEF HolderInv, TokenInv, RingInv, Woken, Printing, ManagerHas,
               PauseHas, Queued, QueuedOnce, Killing, Ending, Children
    <2>2. CASE childPC[current_child] # "none"
      <3>1. /\ UNCHANGED <<ring, current_child, tm_paused, tm_child_paused,
                           tm_data, tmNode, tmAfter, childPC>>
            /\ tmPC = "wake" /\ tmPC' = "wakeSignal"
            /\ message' = [message EXCEPT ![current_child] = 1]
        BY <1>8, <2>2 DEF T_Wake
      <3>2. /\ UNCHANGED <<PauseHas, Queued, QueuedOnce, Children>>
            /\ ManagerHas /\ ~Killing /\ ~Ending
            /\ ~ManagerHas' /\ ~Killing' /\ ~Ending'
        BY <3>1 DEF PauseHas, Queued, QueuedOnce, ManagerHas, Killing, Ending,
                    Children
      <3>3. current_child \in Children /\ current_child \in Node
        BY <1>2, <1>3, <3>2 DEF RingInv, Children, Range
      <3>4. ASSUME NEW m \in Node
            PROVE  ~Woken(m) /\ ~Printing(m) /\ ~Printing(m)'
                   /\ (Woken(m)' => m = current_child)
        BY <1>2, <1>3, <3>1, <3>2 DEF HolderInv, Woken, Printing
      <3>5. ~PauseHas /\ ~Queued
        BY <1>2, <3>2 DEF TokenInv
      <3>6. HolderInv'
        BY <3>1, <3>2, <3>3, <3>4, <3>5 DEF HolderInv
      <3>7. TokenInv' /\ RingInv'
        BY <1>2, <3>1, <3>2, <3>3, <3>5 DEF TokenInv, RingInv
      <3>8. QED
        BY <3>6, <3>7
    <2>3. QED
      BY <2>1, <2>2
  <1>9. CASE T_WakeSignal
    <2>1. /\ UNCHANGED <<ring, current_child, tm_paused, tm_child_paused,
                         tm_data, tmNode, tmAfter, message>>
          /\ tmPC = "wakeSignal" /\ tmPC' = "get"
          /\ \A m \in Node : \/ childPC'[m] = childPC[m]
                             \/ childPC'[m] = "ready"
      BY <1>3, <1>9 DEF T_WakeSignal, SignalChild
    <2>2. QED
      BY <1>2, <2>1
         DEF HolderInv, TokenInv, RingInv, Woken, Printing, ManagerHas,
             PauseHas, Queued, QueuedOnce, Killing, Ending, Children
  <1>10. CASE T_ChildSignal
    <2>1. /\ UNCHANGED <<ring, tm_paused, tm_data, tmNode, tmAfter, message,
                         childPC>>
          /\ tmPC = "x"
      BY <1>10 DEF T_ChildSignal
    <2>2. /\ UNCHANGED <<Queued, QueuedOnce, Children>>
          /\ ManagerHas /\ ~Killing /\ ~Ending
      BY <2>1 DEF Queued, QueuedOnce, ManagerHas, Killing, Ending, Children
    <2>3. /\ ~PauseHas /\ ~Queued /\ current_child \in Children
          /\ ring # <<>>
          /\ \A m \in Node : ~Woken(m) /\ ~Printing(m)
      BY <1>2, <2>2 DEF HolderInv, TokenInv, RingInv
    <2>4. \A m \in Node : ~Woken(m)' /\ ~Printing(m)'
      BY <2>1, <2>3 DEF Woken, Printing
    <2>5. /\ current_child' \in Children
          /\ tmPC' \in {"x", "get", "wake"}
          /\ tmPC' = "get" \/ tm_child_paused' = tm_child_paused
      <3>1. current_child # NULL /\ ~Dangling
        BY <1>3, <2>3, NodeAssumption DEF Children, Range, Dangling
      <3>2. R!Following(ring, current_child) \in Children
        BY <1>3, <2>3, FollowingOnRing DEF Children
      <3>3. QED
        BY <1>10, <2>1, <2>3, <3>1, <3>2 DEF T_ChildSignal, UpdateCurrentChild
    <2>6. ~Killing' /\ ~Ending' /\ (ManagerHas' => ~PauseHas')
      BY <2>1, <2>3, <2>5 DEF Killing, Ending, ManagerHas, PauseHas
    <2>7. QED
      BY <1>2, <2>1, <2>2, <2>3, <2>4, <2>5, <2>6
         DEF HolderInv, TokenInv, RingInv
  <1>11. CASE T_Pause
    <2>1. /\ UNCHANGED <<ring, current_child, tm_data, tmNode, tmAfter, message,
                         childPC>>
          /\ tmPC = "p"
          /\ \/ tmPC' = "get" /\ (PauseHas' => PauseHas)
             \/ tmPC' = "send" /\ PauseHas /\ ~PauseHas'
      BY <1>11 DEF T_Pause, PauseHas, TypeOK, ManagerTypeOK
    <2>2. UNCHANGED <<Queued, QueuedOnce, Children>> /\ ~ManagerHas /\ ~Killing
          /\ ~Ending /\ ~Killing' /\ ~Ending'
      BY <2>1 DEF Queued, QueuedOnce, ManagerHas, Killing, Ending, Children
    <2>3. ManagerHas' => PauseHas /\ ~PauseHas'
      BY <2>1 DEF ManagerHas
    <2>4. ASSUME NEW m \in Node
          PROVE  Woken(m)' = Woken(m) /\ Printing(m)' = Printing(m)
      BY <2>1 DEF Woken, Printing
    <2>5. HolderInv'
      BY <1>2, <2>1, <2>2, <2>3, <2>4 DEF HolderInv
    <2>6. TokenInv' /\ RingInv'
      BY <1>2, <2>1, <2>2, <2>3 DEF TokenInv, RingInv
    <2>7. QED
      BY <2>5, <2>6
  <1>12. CASE T_Send
    <2>1. /\ UNCHANGED <<ring, current_child, tm_paused, tm_child_paused,
                         tmNode, tmAfter, message, childPC>>
          /\ tmPC = "send" /\ tmPC' = "get" /\ OfferTM("x")
      BY <1>12 DEF T_Send
    <2>2. /\ UNCHANGED <<PauseHas, Children>>
          /\ ManagerHas /\ ~Killing /\ ~Ending
          /\ ~ManagerHas' /\ ~Killing' /\ ~Ending'
      BY <2>1 DEF PauseHas, ManagerHas, Killing, Ending, Children
    <2>3. /\ ~PauseHas /\ ~Queued /\ ring # <<>>
          /\ \A m \in Node : ~Woken(m) /\ ~Printing(m)
      BY <1>2, <2>2 DEF HolderInv, TokenInv, RingInv
    <2>4. QueuedOnce'
      BY <2>1, <2>3, OfferSignal
    <2>5. \A m \in Node : ~Woken(m)' /\ ~Printing(m)'
      BY <2>1, <2>3 DEF Woken, Printing
    <2>6. QED
      BY <1>2, <2>1, <2>2, <2>3, <2>4, <2>5 DEF HolderInv, TokenInv, RingInv
  <1>13. CASE T_Remove
    <2>1. CASE ring # <<>> /\ childPC[Last(ring)] = "none"
      <3>1. UNCHANGED <<ring, current_child, tm_paused, tm_child_paused,
                        tm_data, tmPC, tmNode, tmAfter, message, childPC>>
        BY <1>13, <2>1 DEF T_Remove, Crash
      <3>2. QED
        BY <1>2, <3>1
           DEF HolderInv, TokenInv, RingInv, Woken, Printing, ManagerHas,
               PauseHas, Queued, QueuedOnce, Killing, Ending, Children
    <2>2. CASE ring # <<>> /\ childPC[Last(ring)] # "none"
      <3>1. /\ UNCHANGED <<current_child, tm_paused, tm_child_paused, tm_data,
                           childPC>>
            /\ tmPC \in {"-", "q"} /\ tmPC' = "killSignal"
            /\ tmNode' = Last(ring) /\ ring' = R!Removed(ring)
            /\ message' = [message EXCEPT ![Last(ring)] = -1]
            /\ tmPC = "q" => tmAfter' = "q"
            /\ tmPC = "-" => current_child # Last(ring) /\ tmAfter' = "get"
        BY <1>13, <2>2 DEF T_Remove
      <3>2. /\ Last(ring) \in Node
            /\ \A e \in Children : e # Last(ring) => e \in Children'
        BY <1>3, <2>2, <3>1, RemovedType DEF Children
      <3>3. UNCHANGED <<PauseHas, Queued, QueuedOnce>> /\ ~ManagerHas
            /\ ~ManagerHas' /\ ~Killing /\ Killing' /\ (Ending' = Ending)
        BY <3>1 DEF PauseHas, Queued, QueuedOnce, ManagerHas, Killing, Ending
      <3>4. ASSUME NEW m \in Node
            PROVE  /\ Woken(m)' => Woken(m) /\ m # Last(ring)
                   /\ Printing(m)' = Printing(m)
        BY <1>3, <3>1, <3>2 DEF Woken, Printing
      <3>5. HolderInv'
        BY <1>2, <3>1, <3>2, <3>3, <3>4 DEF HolderInv
      <3>6. ~Ending => current_child \in Children' /\ ring' # <<>>
        <4>1. ~Ending => tmPC = "-"
          BY <3>1 DEF Ending
        <4>2. ~Ending => current_child \in Children
          BY <1>2, <2>2 DEF RingInv
        <4>3. QED
          BY <3>1, <3>2, <4>1, <4>2 DEF Children, Range
      <3>7. TokenInv' /\ RingInv'
        BY <1>2, <3>1, <3>3, <3>6 DEF TokenInv, RingInv
      <3>8. QED
        BY <3>5, <3>7
    <2>3. QED
      BY <1>13, <2>1, <2>2 DEF T_Remove
  <1>14. CASE T_KillSignal
    <2>1. /\ UNCHANGED <<ring, current_child, tm_paused, tm_child_paused,
                         tm_data, tmNode, tmAfter, message>>
          /\ tmPC = "killSignal" /\ tmPC' = "join"
          /\ \A m \in Node : \/ childPC'[m] = childPC[m]
                             \/ childPC'[m] = "ready"
      BY <1>3, <1>14 DEF T_KillSignal, SignalChild
    <2>2. QED
      BY <1>2, <2>1
         DEF HolderInv, TokenInv, RingInv, Woken, Printing, ManagerHas,
             PauseHas, Queued, QueuedOnce, Killing, Ending, Children
  <1>15. CASE T_Join
    <2>1. /\ UNCHANGED <<ring, tm_paused, tm_child_paused, tm_data>>
          /\ tmPC = "join" /\ tmPC' = tmAfter /\ tmAfter' = "get"
          /\ childPC[tmNode] = "dead"
          /\ childPC' = [childPC EXCEPT ![tmNode] = "none"]
          /\ message' = [message EXCEPT ![tmNode] = 0]
          /\ current_child' = IF ring = <<>> THEN NULL ELSE current_child
      BY <1>15 DEF T_Join, Blank, UpdateCurrentChild
    <2>2. tmNode \in Node /\ tmAfter \in {"get", "q"}
      BY <1>2, <2>1 DEF TypeOK, ManagerTypeOK, RingInv
    <2>3. UNCHANGED <<PauseHas, Queued, QueuedOnce, Children>>
          /\ ~ManagerHas /\ ~ManagerHas' /\ ~Killing' /\ (Ending' = Ending)
      BY <2>1, <2>2
         DEF PauseHas, Queued, QueuedOnce, ManagerHas, Killing, Ending, Children
    <2>4. ASSUME NEW m \in Node, Woken(m)' \/ Printing(m)'
          PROVE  /\ Woken(m)' => Woken(m)
                 /\ Printing(m)' => Printing(m)
                 /\ m \in Children /\ ring # <<>>
      <3>1. (Woken(m)' => Woken(m)) /\ (Printing(m)' => Printing(m))
            /\ (Printing(m) => m # tmNode \/ ~Printing(m)')
        BY <1>3, <2>1, <2>2 DEF Woken, Printing
      <3>2. m \in Children
        BY <1>2, <2>4, <3>1 DEF HolderInv
      <3>3. ring # <<>>
        BY <3>2 DEF Children, Range
      <3>4. QED
        BY <3>1, <3>2, <3>3
    <2>5. HolderInv'
      BY <1>2, <2>1, <2>3, <2>4 DEF HolderInv
    <2>6. TokenInv' /\ RingInv'
      BY <1>2, <2>1, <2>3 DEF TokenInv, RingInv, Children, Range
    <2>7. QED
      BY <2>5, <2>6
  <1>16. QED
    BY <1>4, <1>5, <1>6, <1>7, <1>8, <1>9, <1>10, <1>11, <1>12, <1>13, <1>14,
       <1>15 DEF TMStep

(* The invariant says that the turn is in one place.                       *)
LEMMA TurnInvOneTurn == TypeOK /\ TurnInv => OneTurn /\ InfoNamesRunner
  <1> SUFFICES ASSUME TypeOK, TurnInv, "removed" \notin hist
               PROVE  /\ \A s, t \in Turns : s = t
                      /\ \A n \in Node : Woken(n) \/ Printing(n)
                                         => n = current_child
    BY DEF OneTurn, InfoNamesRunner, Woken, Printing
  <1>1. HolderInv /\ TokenInv
    BY DEF TurnInv
  <1>2. \A n \in Node : Woken(n) \/ Printing(n) => n = current_child
    BY <1>1 DEF HolderInv
  <1>3. ASSUME NEW s \in Turns
        PROVE  \/ \E n \in Node : s = <<"woken", n>> /\ Woken(n)
               \/ \E n \in Node : s = <<"printing", n>> /\ Printing(n)
               \/ \E i \in DOMAIN tm_data : s = <<"queued", i>>
                                            /\ tm_data[i] = "x" /\ Queued
               \/ s = <<"manager", 1>> /\ ManagerHas
               \/ s = <<"paused", 1>> /\ PauseHas
    BY <1>3 DEF Turns, Woken, Printing, Queued, ManagerHas, PauseHas
  <1>4. ASSUME NEW s \in Turns, NEW t \in Turns
        PROVE  s = t
    <2>1. CASE \E n \in Node : s = <<"woken", n>> /\ Woken(n)
      BY <1>1, <1>2, <1>3, <2>1 DEF HolderInv
    <2>2. CASE \E n \in Node : s = <<"printing", n>> /\ Printing(n)
      BY <1>1, <1>2, <1>3, <2>2 DEF HolderInv
    <2>3. CASE \E i \in DOMAIN tm_data : s = <<"queued", i>>
                                         /\ tm_data[i] = "x" /\ Queued
      BY <1>1, <1>3, <2>3 DEF HolderInv, TokenInv, QueuedOnce
    <2>4. CASE s = <<"manager", 1>> /\ ManagerHas
      BY <1>1, <1>3, <2>4 DEF HolderInv, TokenInv
    <2>5. CASE s = <<"paused", 1>> /\ PauseHas
      BY <1>1, <1>3, <2>5 DEF HolderInv, TokenInv
    <2>6. QED
      BY <1>3, <2>1, <2>2, <2>3, <2>4, <2>5
  <1>5. QED
    BY <1>2, <1>4

(* The invariant holds whatever is typed and whenever SIGINT comes.        *)
LEMMA TurnAlways == Spec => []TurnInv
  <1>1. TypeOK /\ TurnInv /\ [Next]_vars => TurnInv'
    <2>1. CASE UNCHANGED vars
      BY <2>1, TurnIdle
         DEF vars, listVars, pauseVars, tmVars, childVars, endVars
    <2>2. QED
      BY <2>1, TurnMain, TurnManager, TurnChild
         DEF Next, Main, User, TM, Child
  <1>2. QED
    BY <1>1, InitialTurn, TypeCorrect, PTL DEF Spec

(* As long as case '-' has not taken current_child, the turn is in one     *)
(* place, with the child that 'i' names, for any number of children and    *)
(* any order of commands, interrupts and failed creations (tm.c, child.c). *)
THEOREM OneTurnOnly == Spec => [](OneTurn /\ InfoNamesRunner)
  BY TypeCorrect, TurnAlways, TurnInvOneTurn, PTL

(* What 'i' prints of the child that runs is true.  (tm.c:53-61)           *)
THEOREM InfoIsTrue == Spec => []InfoNamesRunner
  BY OneTurnOnly, PTL

-----------------------------------------------------------------------------
(* Whoever puts a command into the queue signals afterwards, and nobody    *)
(* but the manager itself, which does not wait then, moves on without.     *)
LEMMA WakeupNext ==
  ASSUME TypeOK, NoLostWakeup, [Next]_vars
  PROVE  NoLostWakeup'
  <1> USE DEF listVars, pauseVars, tmVars, mainVars, childVars, endVars
  <1>1. CASE UNCHANGED vars
    BY <1>1 DEF vars, NoLostWakeup
  <1>2. CASE MainStep \/ M_Input \/ M_Info \/ Interrupt
    <2>1. childPC' = childPC
      BY <1>2 DEF MainStep, M_Lock, M_Offer, M_Signal, M_InfoLock, Crash,
         M_InfoUnlock, M_Join, M_Input, M_Info, Interrupt
    <2>2. QED
      BY <1>2, <2>1
         DEF NoLostWakeup, MainStep, M_Lock, M_Offer, OfferTM, M_Signal, SignalTM,
             M_InfoLock, Crash, M_InfoUnlock, M_Join, M_Input, M_Info, Interrupt
  <1>3. CASE TMStep
    <2>1. CASE T_Get
      <3>1. tmPC' = "wait" => tm_data' = <<>>
        <4>1. tm_data # <<>> => Head(tm_data) \in Commands
          BY DEF TypeOK, ManagerTypeOK
        <4>2. QED
          BY <2>1, <4>1 DEF T_Get, Commands
      <3>2. QED
        BY <3>1 DEF NoLostWakeup
    <2>2. CASE tmPC # "wait" /\ (tmPC' = tmPC \/ tmPC' # "wait")
      BY <2>2 DEF NoLostWakeup
    <2>3. QED
      BY <1>3, <2>1, <2>2
         DEF TMStep, T_Add, T_CreateFails, T_AddNoMemory, T_Wake, T_WakeSignal,
             T_ChildSignal, T_Pause, T_Send, T_NoChild, T_Remove, T_KillSignal,
             T_Join, Crash, TypeOK, ManagerTypeOK
  <1>4. ASSUME NEW n \in Node, ChildStep(n)
        PROVE  NoLostWakeup'
    <2>1. UNCHANGED <<mainPC, handler>>
      BY <1>4 DEF ChildStep, C_Receive, C_CancelWait, C_Letter, C_Send, C_Signal
    <2>2. childPC \in [Node -> {"none", "ready", "wait", "print", "send",
                                "signal", "dead"}]
      BY DEF TypeOK, ChildTypeOK
    <2>3. CASE C_Send(n)
      BY <2>2, <2>3 DEF NoLostWakeup, C_Send
    <2>4. CASE C_Signal(n)
      BY <2>4 DEF NoLostWakeup, C_Signal, SignalTM
    <2>5. CASE C_Receive(n) \/ C_CancelWait(n) \/ C_Letter(n)
      <3>1. /\ tmPC' = tmPC /\ tm_data' = tm_data
            /\ \A m \in Node : childPC[m] = "signal" => childPC'[m] = "signal"
        BY <2>2, <2>5 DEF C_Receive, C_CancelWait, C_Letter
      <3>2. QED
        BY <2>1, <3>1 DEF NoLostWakeup
    <2>6. QED
      BY <1>4, <2>3, <2>4, <2>5 DEF ChildStep
  <1>5. QED
    BY <1>1, <1>2, <1>3, <1>4 DEF Next, Main, User, TM, Child

(* The manager never sleeps on a command (tm.c:37-40, 74-77).              *)
THEOREM NoWakeupLost == Spec => []NoLostWakeup
  <1>1. Init => NoLostWakeup
    BY DEF Init, NoLostWakeup
  <1>2. QED
    BY <1>1, WakeupNext, TypeCorrect, PTL DEF Spec
-----------------------------------------------------------------------------
(* A child that is being killed is off the ring, and its name is not given *)
(* back until it is joined.                                                *)
NamesFollow ==
    /\ \A i \in 1 .. Len(ring) : name[ring[i]] = FirstLetter + i - 1
    /\ last_child_name = FirstLetter + Len(ring) + (IF Killing THEN 1 ELSE 0)
    /\ last_child_name <= LastLetter
    /\ Killing => tmNode \notin Children

(* The next name is that of the youngest child, plus one; the invariant    *)
(* that NamesInOrder needs.                                                *)
NameInv == hist \cap {"failed", "wrapped"} = {} => NamesFollow

(* Steps that touch neither the ring nor a name keep the order of the      *)
(* names.                                                                  *)
LEMMA NameFrame ==
  ASSUME NameInv, UNCHANGED <<ring, last_child_name, name>>, hist \subseteq hist',
         (Killing' <=> Killing), tmNode' = tmNode
  PROVE  NameInv'
  <1>1. NamesFollow => NamesFollow'
    BY DEF NamesFollow, Children
  <1>2. QED
    BY <1>1 DEF NameInv

(* A child that is added is named after the one added before it.           *)
LEMMA NameAdd ==
  ASSUME TypeOK, NameInv, NEW n \in Node, T_Add(n)
  PROVE  NameInv'
  <1> DEFINE k == Len(ring)
  <1> SUFFICES ASSUME hist' \cap {"failed", "wrapped"} = {} PROVE NamesFollow'
    BY DEF NameInv
  <1>1. /\ ring \in Seq(Node) /\ k \in Nat /\ name \in [Node -> -128 .. 127]
        /\ \A i \in 1 .. k : ring[i] \in Node
    BY DEF TypeOK, ManagerTypeOK, ChildTypeOK
  <1>2. /\ last_child_name # LastLetter /\ hist' = hist
        /\ last_child_name' = Increment(last_child_name)
    BY DEF T_Add, UseName, NextName
  <1>3. NamesFollow
    BY <1>2 DEF NameInv
  <1>4. ~Killing /\ ~Killing'
    BY DEF T_Add, Killing
  <1>5. /\ ring' = Append(ring, n) /\ name' = [name EXCEPT ![n] = last_child_name]
        /\ \A i \in 1 .. k : ring[i] # n
    BY <1>1 DEF T_Add, R!Added, Children, Range
  <1>6. /\ Len(ring') = k + 1 /\ ring'[k + 1] = n
        /\ \A i \in 1 .. k : ring'[i] = ring[i]
    BY <1>1, <1>5
  <1>7. last_child_name = FirstLetter + k
    BY <1>1, <1>3, <1>4 DEF NamesFollow, FirstLetter
  <1> HIDE DEF k
  <1>8. \A i \in 1 .. k : name[ring[i]] = FirstLetter + i - 1
    BY <1>3 DEF NamesFollow, k
  <1>9. ASSUME NEW i \in 1 .. k + 1 PROVE name'[ring'[i]] = FirstLetter + i - 1
    <2>1. CASE i = k + 1
      BY <1>1, <1>5, <1>6, <1>7, <2>1 DEF FirstLetter
    <2>2. CASE i # k + 1
      <3>1. i \in 1 .. k
        BY <1>1, <2>2
      <3>2. QED
        BY <1>1, <1>5, <1>6, <1>8, <3>1
    <2>3. QED
      BY <2>1, <2>2
  <1>10. last_child_name' = FirstLetter + (k + 1) /\ last_child_name' <= LastLetter
    BY <1>1, <1>2, <1>3, <1>7, LastLetterAssumption DEF Increment, NamesFollow, FirstLetter
  <1>11. QED
    BY <1>4, <1>6, <1>9, <1>10 DEF NamesFollow, FirstLetter

(* The last child leaves; its name, the largest, is no other child's.      *)
LEMMA NameRemove ==
  ASSUME TypeOK, NameInv, T_Remove
  PROVE  NameInv'
  <1> DEFINE k == Len(ring)
  <1>1. CASE Crash
    BY <1>1, NameFrame DEF Crash, listVars, tmVars, childVars, Killing
  <1>2. CASE ~Crash
    <2> SUFFICES ASSUME hist' \cap {"failed", "wrapped"} = {} PROVE NamesFollow'
      BY DEF NameInv
    <2>1. /\ ring \in Seq(Node) /\ ring # <<>> /\ k \in Nat \ {0}
      BY DEF TypeOK, ManagerTypeOK, T_Remove
    <2>2. /\ ~Killing /\ Killing' /\ hist \subseteq hist'
          /\ ring' = R!Removed(ring) /\ tmNode' = Last(ring)
          /\ UNCHANGED <<last_child_name, name>>
      BY <1>2 DEF T_Remove, Killing
    <2>3. NamesFollow
      BY <2>2 DEF NameInv
    <2>4. tmNode' = ring[k]
      BY <2>2 DEF Last
    <2>5. ring' \in Seq(Node) /\ Len(ring') = k - 1
      BY <2>1, <2>2, RemovedType
    <2>6. \A i \in 1 .. k - 1 : ring'[i] = ring[i]
      BY <2>1, <2>2, RemovedType
    <2>7. /\ last_child_name = FirstLetter + k /\ last_child_name <= LastLetter
          /\ \A i \in 1 .. k : name[ring[i]] = FirstLetter + i - 1
      BY <2>1, <2>2, <2>3 DEF NamesFollow, FirstLetter
    <2> HIDE DEF k
    <2>8. ASSUME NEW i \in 1 .. k - 1
          PROVE  name'[ring'[i]] = FirstLetter + i - 1 /\ ring'[i] # tmNode'
      <3>1. i \in 1 .. k /\ k \in 1 .. k /\ i # k
        BY <2>1
      <3>2. name[ring[i]] = FirstLetter + i - 1 /\ name[ring[k]] = FirstLetter + k - 1
        BY <2>7, <3>1
      <3>3. ring[i] # ring[k]
        BY <2>1, <3>1, <3>2 DEF FirstLetter
      <3>4. QED
        BY <2>2, <2>4, <2>6, <3>2, <3>3
    <2>9. tmNode' \notin Children'
      BY <2>5, <2>8 DEF Children, Range
    <2>10. last_child_name' = FirstLetter + (k - 1) + 1
      BY <2>1, <2>2, <2>7 DEF FirstLetter
    <2>11. QED
      BY <2>2, <2>5, <2>7, <2>8, <2>9, <2>10 DEF NamesFollow
  <1>3. QED
    BY <1>1, <1>2

(* Taking the killed child out keeps the order of the names.               *)
LEMMA NameJoin ==
  ASSUME TypeOK, NameInv, T_Join
  PROVE  NameInv'
  <1> SUFFICES ASSUME hist' \cap {"failed", "wrapped"} = {} PROVE NamesFollow'
    BY DEF NameInv
  <1>1. NamesFollow /\ Killing
    BY DEF T_Join, NameInv, Killing, endVars
  <1>2. /\ ring \in Seq(Node) /\ Len(ring) \in Nat /\ name \in [Node -> -128 .. 127]
        /\ tmAfter \in {"get", "send", "q"}
    BY DEF TypeOK, ManagerTypeOK, ChildTypeOK
  <1>3. ring' = ring /\ name' = [name EXCEPT ![tmNode] = FirstLetter] /\ ~Killing'
        /\ last_child_name' = Decrement(last_child_name)
    BY <1>2 DEF T_Join, Blank, Killing
  <1>4. \A i \in 1 .. Len(ring) : ring[i] # tmNode /\ ring[i] \in Node
    BY <1>1, <1>2 DEF NamesFollow, Children, Range
  <1>5. \A i \in 1 .. Len(ring) : name'[ring[i]] = FirstLetter + i - 1
    BY <1>1, <1>2, <1>3, <1>4 DEF NamesFollow
  <1>6. last_child_name = FirstLetter + Len(ring) + 1 /\ last_child_name <= LastLetter
    BY <1>1 DEF NamesFollow
  <1>7. last_child_name' = FirstLetter + Len(ring) /\ last_child_name' <= LastLetter
    BY <1>2, <1>3, <1>6, LastLetterAssumption DEF Decrement, FirstLetter
  <1>8. last_child_name' = FirstLetter + Len(ring) + 0
    BY <1>2, <1>7 DEF FirstLetter
  <1>9. QED
    BY <1>3, <1>5, <1>7, <1>8 DEF NamesFollow

(* Every step keeps the order of the names.                                *)
LEMMA NameNext == TypeOK /\ NameInv /\ [Next]_vars => NameInv'
  <1> SUFFICES ASSUME TypeOK, NameInv, [Next]_vars PROVE NameInv'
    OBVIOUS
  <1> USE DEF listVars, pauseVars, tmVars, mainVars, childVars, endVars
  <1>1. CASE UNCHANGED vars
    BY <1>1, NameFrame DEF vars, Killing
  <1>2. CASE MainStep \/ M_Input \/ M_Info \/ Interrupt
    <2>1. /\ UNCHANGED <<ring, last_child_name, name, tmNode>> /\ hist \subseteq hist'
      BY <1>2 DEF MainStep, M_Lock, M_Offer, OfferTM, M_Signal, M_InfoLock, Crash,
         M_InfoUnlock, M_Join, M_Input, M_Info, Interrupt
    <2>2. (Killing' <=> Killing)
      BY <1>2 DEF MainStep, M_Lock, M_Offer, OfferTM, M_Signal, SignalTM, M_InfoLock, Crash,
         M_InfoUnlock, M_Join, M_Input, M_Info, Interrupt, Killing
    <2>3. QED
      BY <2>1, <2>2, NameFrame
  <1>3. CASE T_Get
    <2>1. tm_data # <<>> => Head(tm_data) \in Commands
      BY DEF TypeOK, ManagerTypeOK
    <2>2. (Killing' <=> Killing)
      BY <1>3, <2>1 DEF T_Get, Killing, Commands
    <2>3. QED
      BY <1>3, <2>2, NameFrame DEF T_Get
  <1>4. ASSUME NEW n \in Node, T_Add(n) PROVE NameInv'
    BY <1>4, NameAdd
  <1>5. ASSUME T_AddNoMemory \/ \E n \in Node : T_CreateFails(n) PROVE NameInv'
    BY <1>5 DEF T_CreateFails, T_AddNoMemory, NameInv
  <1>6. CASE T_Wake \/ T_WakeSignal \/ T_ChildSignal \/ T_Pause \/ T_Send \/ T_NoChild
    <2>1. /\ UNCHANGED <<ring, last_child_name, name, tmNode>> /\ hist \subseteq hist'
      BY <1>6 DEF T_Wake, T_WakeSignal, T_ChildSignal, T_Pause, T_Send, OfferTM, T_NoChild, Crash
    <2>2. ~Killing /\ ~Killing'
      BY <1>6 DEF T_Wake, T_WakeSignal, T_ChildSignal, T_Pause, T_Send, T_NoChild, Crash, Killing
    <2>3. QED
      BY <2>1, <2>2, NameFrame
  <1>7. CASE T_Remove \/ T_Join
    BY <1>7, NameRemove, NameJoin
  <1>8. CASE T_KillSignal
    BY <1>8, NameFrame DEF T_KillSignal, Killing
  <1>9. ASSUME NEW n \in Node, ChildStep(n) PROVE NameInv'
    <2>1. /\ UNCHANGED <<ring, last_child_name, name, tmNode>> /\ hist \subseteq hist'
      BY <1>9 DEF ChildStep, C_Receive, C_CancelWait, C_Letter, C_Send, OfferTM, C_Signal
    <2>2. (Killing' <=> Killing)
      BY <1>9 DEF ChildStep, C_Receive, C_CancelWait, C_Letter, C_Send, OfferTM, C_Signal,
         SignalTM, Killing
    <2>3. QED
      BY <2>1, <2>2, NameFrame
  <1>10. CASE TMStep
    BY <1>3, <1>4, <1>5, <1>6, <1>7, <1>8, <1>10 DEF TMStep
  <1>11. QED
    BY <1>1, <1>2, <1>9, <1>10 DEF Next, Main, User, TM, Child

(* As long as no creation failed and the alphabet did not begin again, the *)
(* children are called 'a', 'b', ... in their order, so no two share a     *)
(* name, although the counter is moved at the creation and at the join of  *)
(* a child (tm.c:91-103, child.c).                                         *)
THEOREM NamesStayInOrder == Spec => []NamesInOrder
  <1>1. Init => NameInv
    BY LastLetterAssumption DEF Init, NameInv, NamesFollow, Killing, FirstLetter
  <1>2. TypeOK /\ NameInv => NamesInOrder
    <2> SUFFICES ASSUME TypeOK, NameInv PROVE NamesInOrder
      OBVIOUS
    <2>1. DOMAIN ring = 1 .. Len(ring)
      BY DEF TypeOK, ManagerTypeOK
    <2>2. QED
      BY <2>1 DEF NameInv, NamesFollow, NamesInOrder
  <1>3. QED
    BY <1>1, <1>2, NameNext, TypeCorrect, PTL DEF Spec
-----------------------------------------------------------------------------
(* Pointers.  As long as case '-' has not taken current_child and every    *)
(* creation succeeded: the children of the ring are different and exist;   *)
(* the one that is being killed is off the ring; once 'q' is on its way    *)
(* main reads no more keys, so that 'i' does not follow current_child      *)
(* while 'q' takes it off the ring; and 'i' never finds it NULL.           *)
Quitting == Ending \/ \E i \in DOMAIN tm_data : tm_data[i] = "q"
Quits == mainPC \in {"join", "exited"} \/ (mainPC \in {"lock", "offer", "signal"} /\ mainCmd = "q")

PointersSound ==
    /\ process = "running"
    /\ \A n \in Children : childPC[n] # "none"
    /\ \A i, j \in 1 .. Len(ring) : ring[i] = ring[j] => i = j
    /\ Killing => tmNode \notin Children
    /\ Quitting => Quits
    /\ mainPC = "infoLock" => current_child # NULL

PointerInv == hist \cap {"removed", "failed"} = {} => PointersSound

(* The members of the ring, by their places in it.                         *)
LEMMA RingMembers ==
  ASSUME TypeOK
  PROVE  /\ ring \in Seq(Node) /\ Len(ring) \in Nat /\ DOMAIN ring = 1 .. Len(ring)
         /\ Children = {ring[i] : i \in 1 .. Len(ring)} /\ Children \subseteq Node
         /\ ring # <<>> => Last(ring) = ring[Len(ring)] /\ Last(ring) \in Children
         /\ NULL \notin Children
  BY NodeAssumption DEF TypeOK, ManagerTypeOK, Children, Range, Last

(* A command that is offered is the only new one.                          *)
LEMMA OfferedCommand ==
  ASSUME TypeOK, NEW cmd \in Commands, OfferTM(cmd)
  PROVE  \A i \in DOMAIN tm_data' : \/ tm_data'[i] = cmd
                                    \/ \E j \in DOMAIN tm_data : tm_data'[i] = tm_data[j]
  <1>1. tm_data \in Seq(Commands)
    BY DEF TypeOK, ManagerTypeOK
  <1>2. CASE tm_data = <<>>
    <2>1. tm_data' = <<cmd>>
      BY <1>2 DEF OfferTM, Q!Offered
    <2>2. QED
      BY <2>1
  <1>3. CASE tm_data # <<>>
    <2>1. tm_data' = <<tm_data[Len(tm_data)], cmd>>
      BY <1>3 DEF OfferTM, Q!Offered, Q!Last
    <2>2. Len(tm_data) \in DOMAIN tm_data
      BY <1>1, <1>3
    <2>3. DOMAIN tm_data' = 1 .. 2 /\ tm_data'[1] = tm_data[Len(tm_data)] /\ tm_data'[2] = cmd
      BY <2>1
    <2>4. QED
      BY <2>2, <2>3
  <1>4. QED
    BY <1>2, <1>3

(* Steps that leave the ring, its children and the queue alone.            *)
LEMMA PointerFrame ==
  ASSUME PointerInv, UNCHANGED <<ring, current_child, tmNode, process>>, hist \subseteq hist',
         \A n \in Children : childPC[n] # "none" => childPC'[n] # "none",
         Killing' <=> Killing, Quitting' => Quitting, Quits => Quits',
         mainPC' = "infoLock" => mainPC = "infoLock"
  PROVE  PointerInv'
  <1>1. PointersSound => PointersSound'
    BY DEF PointersSound, Children
  <1>2. QED
    BY <1>1 DEF PointerInv

(* Main, and the interrupt.                                                *)
LEMMA PointerMain ==
  ASSUME TypeOK, TurnInv, PointerInv, MainStep \/ M_Input \/ M_Info \/ Interrupt
  PROVE  PointerInv'
  <1> USE DEF listVars, pauseVars, tmVars, mainVars, childVars, endVars
  <1> SUFFICES ASSUME hist' \cap {"removed", "failed"} = {} PROVE PointersSound'
    BY DEF PointerInv
  <1>1. hist \subseteq hist' /\ UNCHANGED <<ring, current_child, tmNode, tmAfter, childPC>>
    BY DEF MainStep, M_Lock, M_Offer, OfferTM, M_Signal, M_InfoLock, Crash, M_InfoUnlock, M_Join,
           M_Input, M_Info, Interrupt
  <1>2. PointersSound /\ RingInv
    BY <1>1 DEF PointerInv, TurnInv
  <1>3. tmPC' = tmPC \/ (tmPC = "wait" /\ tmPC' = "get")
    BY DEF MainStep, M_Lock, M_Offer, M_Signal, SignalTM, M_InfoLock, Crash, M_InfoUnlock, M_Join,
           M_Input, M_Info, Interrupt
  <1>4. (Killing' <=> Killing) /\ (Ending' <=> Ending)
    BY <1>1, <1>3 DEF Killing, Ending
  <1>5. process' = "running"
    <2>1. CASE M_InfoLock
      <3>1. current_child # NULL /\ ~Quitting
        BY <1>2, <2>1 DEF M_InfoLock, PointersSound, Quits
      <3>2. current_child \in Children
        BY <1>2, <3>1 DEF RingInv, Quitting
      <3>3. childPC[current_child] # "none"
        BY <1>2, <3>2 DEF PointersSound
      <3>4. QED
        BY <1>2, <2>1, <3>1, <3>2, <3>3 DEF M_InfoLock, Dangling, PointersSound
    <2>2. QED
      BY <1>2, <2>1 DEF MainStep, M_Lock, M_Offer, M_Signal, M_InfoUnlock, M_Join,
         M_Input, M_Info, Interrupt, PointersSound
  <1>6. Quitting' => Quits'
    <2>1. CASE M_Offer
      <3>1. mainCmd \in Commands
        BY <2>1 DEF TypeOK, MainTypeOK, M_Offer
      <3>2. Quitting' => Quitting \/ mainCmd = "q"
        BY <1>4, <2>1, <3>1, OfferedCommand DEF M_Offer, Quitting
      <3>3. mainPC = "offer" /\ mainPC' = "signal" /\ mainCmd' = mainCmd
        BY <2>1 DEF M_Offer
      <3>4. QED
        BY <1>2, <3>2, <3>3 DEF PointersSound, Quits
    <2>2. CASE ~M_Offer
      <3>1. tm_data' = tm_data
        BY <2>2 DEF MainStep, M_Lock, M_Signal, M_InfoLock, Crash, M_InfoUnlock, M_Join,
           M_Input, M_Info, Interrupt
      <3>2. Quitting' => Quitting
        BY <1>4, <3>1 DEF Quitting
      <3>3. Quits => Quits'
        BY <2>2 DEF MainStep, M_Lock, M_Signal, M_InfoLock, Crash, M_InfoUnlock, M_Join,
           M_Input, M_Info, Interrupt, Quits
      <3>4. QED
        BY <1>2, <3>2, <3>3 DEF PointersSound
    <2>3. QED
      BY <2>1, <2>2
  <1>7. mainPC' = "infoLock" => current_child' # NULL
    BY <1>1, <1>2 DEF MainStep, M_Lock, M_Offer, M_Signal, M_InfoLock, Crash, M_InfoUnlock, M_Join,
       M_Input, M_Info, Interrupt, PointersSound
  <1>8. QED
    BY <1>1, <1>2, <1>4, <1>5, <1>6, <1>7 DEF PointersSound, Children

(* A child changes only itself and the queue, and never becomes "none".    *)
LEMMA PointerChild ==
  ASSUME NEW n \in Node, TypeOK, PointerInv, ChildStep(n)
  PROVE  PointerInv'
  <1> USE DEF listVars, pauseVars, tmVars, mainVars, childVars, endVars
  <1>1. /\ hist \subseteq hist'
        /\ UNCHANGED <<ring, current_child, tmNode, tmAfter, process, mainPC, mainCmd>>
        /\ tmPC' = tmPC \/ (tmPC = "wait" /\ tmPC' = "get")
    BY DEF ChildStep, C_Receive, C_CancelWait, C_Letter, C_Send, OfferTM, C_Signal, SignalTM
  <1>2. (Killing' <=> Killing) /\ (Ending' <=> Ending)
    BY <1>1 DEF Killing, Ending
  <1>3. childPC \in [Node -> {"none", "ready", "wait", "print", "send", "signal", "dead"}]
    BY DEF TypeOK, ChildTypeOK
  <1>4. \A m \in Node : childPC[m] # "none" => childPC'[m] # "none"
    BY <1>3 DEF ChildStep, C_Receive, C_CancelWait, C_Letter, C_Send, C_Signal
  <1>5. Quitting' => Quitting
    <2>1. CASE C_Send(n)
      <3>1. "x" \in Commands
        BY DEF Commands
      <3>2. QED
        BY <1>2, <2>1, <3>1, OfferedCommand DEF C_Send, Quitting
    <2>2. CASE ~C_Send(n)
      <3>1. tm_data' = tm_data
        BY <2>2 DEF ChildStep, C_Receive, C_CancelWait, C_Letter, C_Signal
      <3>2. QED
        BY <1>2, <3>1 DEF Quitting
    <2>3. QED
      BY <2>1, <2>2
  <1>6. Quits => Quits'
    BY <1>1 DEF Quits
  <1>7. \A m \in Children : childPC[m] # "none" => childPC'[m] # "none"
    BY <1>4, RingMembers
  <1>8. QED
    BY <1>1, <1>2, <1>5, <1>6, <1>7, PointerFrame
(* The manager, on and off the ring.                                       *)
LEMMA PointerAdd ==
  ASSUME TypeOK, PointerInv, NEW n \in Node, T_Add(n)
  PROVE  PointerInv'
  <1> USE DEF listVars, pauseVars, tmVars, mainVars, childVars, endVars
  <1> SUFFICES ASSUME hist' \cap {"removed", "failed"} = {} PROVE PointersSound'
    BY DEF PointerInv
  <1>1. PointersSound
    BY DEF PointerInv, T_Add, UseName
  <1>2. /\ ring' = Append(ring, n) /\ n \notin Children
        /\ childPC' = [childPC EXCEPT ![n] = "ready"]
        /\ tmPC = "+" /\ tmPC' \in {"wake", "get"}
        /\ UNCHANGED <<tm_data, mainVars, process>>
    BY DEF T_Add, R!Added
  <1>3. /\ ring' \in Seq(Node) /\ Len(ring') = Len(ring) + 1 /\ ring'[Len(ring) + 1] = n
        /\ \A i \in 1 .. Len(ring) : ring'[i] = ring[i]
    BY <1>2, RingMembers
  <1>4. Children' = Children \cup {n}
    BY <1>3, RingMembers DEF Children, Range
  <1>5. childPC \in [Node -> {"none", "ready", "wait", "print", "send", "signal", "dead"}]
    BY DEF TypeOK, ChildTypeOK
  <1>6. \A m \in Children' : childPC'[m] # "none"
    BY <1>1, <1>2, <1>4, <1>5, RingMembers DEF PointersSound
  <1>7. ASSUME NEW i \in 1 .. Len(ring'), NEW j \in 1 .. Len(ring'), ring'[i] = ring'[j]
        PROVE  i = j
    <2>1. \A k \in 1 .. Len(ring) : ring[k] # n
      BY <1>2, RingMembers
    <2>2. i = Len(ring) + 1 \/ i \in 1 .. Len(ring)
      BY <1>3, RingMembers
    <2>3. j = Len(ring) + 1 \/ j \in 1 .. Len(ring)
      BY <1>3, RingMembers
    <2>4. QED
      BY <1>1, <1>3, <1>7, <2>1, <2>2, <2>3 DEF PointersSound
  <1>8. ~Killing' /\ ~Ending' /\ (Quitting' => Quitting) /\ (Quits => Quits')
    BY <1>2 DEF Killing, Ending, Quitting, Quits
  <1>9. mainPC' = "infoLock" => current_child' # NULL
    BY <1>1, NodeAssumption DEF T_Add, UpdateCurrentChild, PointersSound
  <1>10. QED
    BY <1>1, <1>2, <1>6, <1>7, <1>8, <1>9 DEF PointersSound

(* Starting a removal keeps the pointers at children of the ring.          *)
LEMMA PointerRemove ==
  ASSUME TypeOK, PointerInv, T_Remove
  PROVE  PointerInv'
  <1> USE DEF listVars, pauseVars, tmVars, mainVars, childVars, endVars
  <1> SUFFICES ASSUME hist' \cap {"removed", "failed"} = {} PROVE PointersSound'
    BY DEF PointerInv
  <1>1. hist \subseteq hist'
    BY DEF T_Remove, Crash
  <1>2. PointersSound /\ ring # <<>>
    BY <1>1 DEF PointerInv, T_Remove
  <1>3. childPC[Last(ring)] # "none"
    BY <1>2, RingMembers DEF PointersSound
  <1>4. /\ ring' = R!Removed(ring) /\ tmNode' = Last(ring)
        /\ tmPC \in {"-", "q"} /\ tmPC' = "killSignal"
        /\ tmAfter' = "q" => tmPC = "q"
        /\ UNCHANGED <<current_child, childPC, tm_data, mainVars, process>>
    BY <1>3 DEF T_Remove
  <1>5. /\ Len(ring') = Len(ring) - 1 /\ ring' \in Seq(Node)
        /\ \A i \in 1 .. Len(ring) - 1 : ring'[i] = ring[i]
    BY <1>2, <1>4, RingMembers, RemovedType
  <1>6. /\ Children' = {ring[i] : i \in 1 .. Len(ring) - 1} /\ Len(ring) \in Nat \ {0}
        /\ Last(ring) = ring[Len(ring)]
    BY <1>2, <1>5, RingMembers DEF Children, Range
  <1>7. Children' \subseteq Children /\ tmNode' \notin Children'
    <2>1. \A i \in 1 .. Len(ring) - 1 : i \in 1 .. Len(ring) /\ i # Len(ring)
      BY <1>6
    <2>2. Len(ring) \in 1 .. Len(ring)
      BY <1>6
    <2>3. \A i \in 1 .. Len(ring) - 1 : ring[i] # ring[Len(ring)]
      BY <1>2, <2>1, <2>2 DEF PointersSound
    <2>4. QED
      BY <1>4, <1>6, <2>1, <2>3, RingMembers
  <1>8. \A i, j \in 1 .. Len(ring') : ring'[i] = ring'[j] => i = j
    <2>1. \A i \in 1 .. Len(ring') : i \in 1 .. Len(ring) /\ ring'[i] = ring[i]
      BY <1>5, <1>6
    <2>2. QED
      BY <1>2, <2>1 DEF PointersSound
  <1>9. Quitting' => Quitting
    BY <1>4 DEF Quitting, Ending, Killing
  <1>10. QED
    BY <1>2, <1>4, <1>7, <1>8, <1>9 DEF PointersSound, Quits

(* Finishing a removal keeps the pointers at children of the ring.         *)
LEMMA PointerJoin ==
  ASSUME TypeOK, TurnInv, PointerInv, T_Join
  PROVE  PointerInv'
  <1> USE DEF listVars, pauseVars, tmVars, mainVars, childVars, endVars
  <1> SUFFICES ASSUME hist \cap {"removed", "failed"} = {} PROVE PointersSound'
    BY DEF PointerInv, T_Join
  <1>1. PointersSound /\ RingInv
    BY DEF PointerInv, TurnInv
  <1>2. /\ tmPC = "join" /\ tmPC' = tmAfter /\ tmAfter' = "get"
        /\ childPC' = [childPC EXCEPT ![tmNode] = "none"]
        /\ UNCHANGED <<ring, tm_data, mainVars, process>>
    BY DEF T_Join, Blank
  <1>3. childPC \in [Node -> {"none", "ready", "wait", "print", "send", "signal", "dead"}]
        /\ tmAfter \in {"get", "send", "q"}
    BY DEF TypeOK, ChildTypeOK, ManagerTypeOK
  <1>4. Children' = Children /\ tmNode \notin Children /\ ~Killing'
    BY <1>1, <1>2, <1>3 DEF PointersSound, Killing, Children
  <1>5. \A m \in Children' : childPC'[m] # "none"
    BY <1>1, <1>2, <1>3, <1>4, RingMembers DEF PointersSound
  <1>6. Quitting' => Quitting
    BY <1>2, <1>3 DEF Quitting, Ending, Killing
  <1>7. mainPC' = "infoLock" => current_child' # NULL
    <2> SUFFICES ASSUME mainPC' = "infoLock" PROVE current_child' # NULL
      OBVIOUS
    <2>1. mainPC = "infoLock" /\ ~Quitting /\ current_child # NULL
      BY <1>1, <1>2 DEF PointersSound, Quits
    <2>2. ring # <<>>
      BY <1>1, <2>1, RingMembers DEF RingInv, Quitting
    <2>3. QED
      BY <2>1, <2>2 DEF T_Join
  <1>8. QED
    BY <1>1, <1>2, <1>4, <1>5, <1>6, <1>7 DEF PointersSound, Quits

(* Where the manager follows current_child it is on the ring.              *)
LEMMA PointerTurn ==
  ASSUME TypeOK, TurnInv, PointerInv, T_Wake \/ T_ChildSignal
  PROVE  PointerInv'
  <1> USE DEF listVars, pauseVars, tmVars, mainVars, childVars, endVars
  <1> SUFFICES ASSUME hist \cap {"removed", "failed"} = {} PROVE PointersSound'
    BY DEF PointerInv, T_Wake, T_ChildSignal, Crash
  <1>1. PointersSound /\ RingInv
    BY DEF PointerInv, TurnInv
  <1>2. ~Ending /\ ~Killing /\ ManagerHas
    BY DEF T_Wake, T_ChildSignal, Ending, Killing, ManagerHas
  <1>3. current_child \in Children /\ ring # <<>> /\ current_child # NULL
    BY <1>1, <1>2, RingMembers DEF RingInv
  <1>4. childPC[current_child] # "none" /\ ~Dangling
    BY <1>1, <1>3 DEF PointersSound, Dangling
  <1>5. /\ UNCHANGED <<ring, tm_data, mainVars, childPC, process>>
        /\ tmPC' \in {"wakeSignal", "wake", "get"}
    BY <1>3, <1>4 DEF T_Wake, T_ChildSignal
  <1>6. ~Killing' /\ ~Ending'
    BY <1>5 DEF Ending, Killing
  <1>7. current_child' # NULL
    <2>1. R!Following(ring, current_child) \in Range(ring)
      BY <1>3, RingMembers, FollowingOnRing DEF Children
    <2>2. QED
      BY <1>3, <1>4, <2>1, RingMembers
         DEF T_Wake, T_ChildSignal, UpdateCurrentChild, Crash, Children
  <1>8. QED
    BY <1>1, <1>5, <1>6, <1>7 DEF PointersSound, Children, Quitting, Quits

(* Every step of the manager keeps the pointers at children of the ring.   *)
LEMMA PointerManager ==
  ASSUME TypeOK, TurnInv, PointerInv, TMStep
  PROVE  PointerInv'
  <1> USE DEF listVars, pauseVars, tmVars, mainVars, childVars, endVars
  <1>1. CASE T_Get
    <2>1. tm_data # <<>> => /\ Head(tm_data) \in Commands /\ Head(tm_data) = tm_data[1]
                            /\ 1 \in DOMAIN tm_data
                            /\ \A i \in DOMAIN Tail(tm_data) : /\ i + 1 \in DOMAIN tm_data
                                                               /\ Tail(tm_data)[i] = tm_data[i + 1]
      BY DEF TypeOK, ManagerTypeOK
    <2>2. (Killing' <=> Killing) /\ ~Ending
      BY <1>1, <2>1 DEF T_Get, Killing, Ending, Commands
    <2>3. Quitting' => Quitting
      BY <1>1, <2>1 DEF T_Get, Quitting, Ending, Killing, Q!Polled, Commands
    <2>4. QED
      BY <1>1, <2>2, <2>3, PointerFrame DEF T_Get, Quits
  <1>2. CASE \E n \in Node : T_Add(n)
    BY <1>2, PointerAdd
  <1>3. CASE T_AddNoMemory \/ \E n \in Node : T_CreateFails(n)
    BY <1>3 DEF T_AddNoMemory, T_CreateFails, PointerInv
  <1>4. CASE T_Wake \/ T_ChildSignal
    BY <1>4, PointerTurn
  <1>5. CASE T_WakeSignal \/ T_Pause \/ T_NoChild
    <2>1. /\ UNCHANGED <<ring, current_child, tmNode, process, tm_data, mainVars>>
          /\ hist \subseteq hist' /\ ~Killing /\ ~Killing' /\ (Ending' => Ending)
      BY <1>5 DEF T_WakeSignal, T_Pause, T_NoChild, Killing, Ending
    <2>2. childPC \in [Node -> {"none", "ready", "wait", "print", "send", "signal", "dead"}]
      BY DEF TypeOK, ChildTypeOK
    <2>3. \A m \in Node : childPC[m] # "none" => childPC'[m] # "none"
      BY <1>5, <2>2 DEF T_WakeSignal, SignalChild, T_Pause, T_NoChild
    <2>4. QED
      BY <2>1, <2>3, RingMembers, PointerFrame DEF Quitting, Quits
  <1>6. CASE T_Send
    <2>1. /\ UNCHANGED <<ring, current_child, tmNode, process, childPC, mainVars>>
          /\ hist \subseteq hist' /\ ~Killing /\ ~Killing' /\ ~Ending' /\ OfferTM("x")
      BY <1>6 DEF T_Send, OfferTM, Killing, Ending
    <2>2. Quitting' => Quitting
      <3>1. "x" \in Commands
        BY DEF Commands
      <3>2. QED
        BY <2>1, <3>1, OfferedCommand DEF Quitting
    <2>3. QED
      BY <2>1, <2>2, PointerFrame DEF Quits
  <1>7. CASE T_Remove \/ T_Join
    BY <1>7, PointerRemove, PointerJoin
  <1>8. CASE T_KillSignal
    <2>1. /\ UNCHANGED <<ring, current_child, tmNode, tmAfter, process, tm_data, mainVars, hist>>
          /\ Killing /\ Killing'
      BY <1>8 DEF T_KillSignal, Killing
    <2>2. childPC \in [Node -> {"none", "ready", "wait", "print", "send", "signal", "dead"}]
      BY DEF TypeOK, ChildTypeOK
    <2>3. \A m \in Node : childPC[m] # "none" => childPC'[m] # "none"
      BY <1>8, <2>2 DEF T_KillSignal, SignalChild
    <2>4. Quitting' => Quitting
      BY <1>8, <2>1 DEF T_KillSignal, Quitting, Ending, Killing
    <2>5. QED
      BY <2>1, <2>3, <2>4, RingMembers, PointerFrame DEF Quits
  <1>9. QED
    BY <1>1, <1>2, <1>3, <1>4, <1>5, <1>6, <1>7, <1>8 DEF TMStep

(* A NULL or freed pointer is followed only after case '-' took            *)
(* current_child, or after a creation failed, whatever is typed and        *)
(* whenever the interrupt comes (tm.c:53-61, 99-102, 119-153).             *)
THEOREM CrashesExplained == Spec => []CrashCause
  <1>1. Init => PointerInv
    BY DEF Init, PointerInv, PointersSound, Children, Range, Quitting, Ending, Killing
  <1>2. TypeOK /\ TurnInv /\ PointerInv /\ [Next]_vars => PointerInv'
    <2> SUFFICES ASSUME TypeOK, TurnInv, PointerInv, [Next]_vars PROVE PointerInv'
      OBVIOUS
    <2>1. CASE UNCHANGED vars
      BY <2>1, PointerFrame DEF vars, listVars, pauseVars, tmVars, mainVars, childVars, endVars,
         Killing, Quitting, Ending, Quits
    <2>2. QED
      BY <2>1, PointerMain, PointerManager, PointerChild DEF Next, Main, User, TM, Child
  <1>3. PointerInv => CrashCause
    BY DEF PointerInv, PointersSound, CrashCause
  <1>4. QED
    BY <1>1, <1>2, <1>3, TypeCorrect, TurnAlways, PTL DEF Spec
=============================================================================
