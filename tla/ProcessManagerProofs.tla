------------------------ MODULE ProcessManagerProofs ------------------------
(***************************************************************************)
(* Proofs about the process manager of lab2: on Linux for any number of    *)
(* children, letters and kills, on Windows for any number of children and  *)
(* keys; and that the program is one of its builds at a time.              *)
(***************************************************************************)
EXTENDS ProcessManager, FiniteSetTheorems, SequenceTheorems, TLAPS

(* When main runs no more nobody is left: every child is in the stack or   *)
(* is being waited for.                                                    *)
Offspring ==
  /\ \A p \in Pid : lChild[p] # "none" => p \in LInStack \/ p = lReap
  /\ lMain = "off" => \A p \in Pid : lChild[p] = "none"

(* The semaphore is not removed before the end.                            *)
SemLives == lMain # "off" => lSem \in Nat

TurnInv == LTypeOK /\ Offspring /\ SemLives /\ TurnsAccounted

-----------------------------------------------------------------------------
(* The children that print, after child p has changed its state.           *)
LEMMA PrintingCount ==
  ASSUME LTypeOK, NEW p \in Pid, NEW s \in {"none", "boot", "wait", "print", "gone"},
         lChild' = [lChild EXCEPT ![p] = s]
  PROVE  /\ Cardinality(LPrinting) \in Nat /\ Cardinality(LPrinting') \in Nat
         /\ lChild[p] = "print" /\ s = "print" => Cardinality(LPrinting') = Cardinality(LPrinting)
         /\ lChild[p] # "print" /\ s # "print" => Cardinality(LPrinting') = Cardinality(LPrinting)
         /\ lChild[p] # "print" /\ s = "print"
              => Cardinality(LPrinting') = Cardinality(LPrinting) + 1
         /\ lChild[p] = "print" /\ s # "print"
              => Cardinality(LPrinting') = Cardinality(LPrinting) - 1
  <1>1. IsFiniteSet(Pid) /\ LPrinting \in SUBSET Pid /\ LPrinting' \in SUBSET Pid
    BY PidsAreNobodys DEF LPrinting
  <1>2. IsFiniteSet(LPrinting) /\ IsFiniteSet(LPrinting')
    BY <1>1, FS_Subset
  <1>3. Cardinality(LPrinting) \in Nat /\ Cardinality(LPrinting') \in Nat
    BY <1>2, FS_CardinalityType
  <1>4. lChild \in [Pid -> {"none", "boot", "wait", "print", "gone"}]
    BY DEF LTypeOK
  <1>5. p \in LPrinting <=> lChild[p] = "print"
    BY DEF LPrinting
  <1>6. CASE s = "print"
    <2>1. LPrinting' = LPrinting \cup {p}
      BY <1>4, <1>6 DEF LPrinting
    <2>2. QED
      BY <1>2, <1>3, <1>5, <1>6, <2>1, FS_AddElement
  <1>7. CASE s # "print"
    <2>1. LPrinting' = LPrinting \ {p}
      BY <1>4, <1>7 DEF LPrinting
    <2>2. QED
      BY <1>2, <1>3, <1>5, <1>7, <2>1, FS_RemoveElement
  <1>8. QED
    BY <1>6, <1>7

(* Where no child changes its state the same children print.               *)
LEMMA PrintingStays ==
  ASSUME LTypeOK, UNCHANGED lChild
  PROVE  Cardinality(LPrinting) \in Nat /\ Cardinality(LPrinting') = Cardinality(LPrinting)
  <1>1. IsFiniteSet(LPrinting)
    BY PidsAreNobodys, FS_Subset DEF LPrinting
  <1>2. LPrinting' = LPrinting
    BY DEF LPrinting
  <1>3. QED
    BY <1>1, <1>2, FS_CardinalityType

-----------------------------------------------------------------------------
(* What zox_pop leaves, and what it returns.                               *)
LEMMA Popped ==
  ASSUME NEW S, NEW q \in Seq(S), q # <<>>
  PROVE  /\ q[Len(q)] \in S
         /\ SubSeq(q, 1, Len(q) - 1) \in Seq(S)
         /\ Len(SubSeq(q, 1, Len(q) - 1)) = Len(q) - 1
         /\ \A i \in 1 .. Len(q) - 1 : SubSeq(q, 1, Len(q) - 1)[i] = q[i]
  <1> DEFINE n == Len(q) - 1
             r == SubSeq(q, 1, n)
  <1>1. n \in Nat /\ q[Len(q)] \in S /\ \A i \in 1 .. n : q[i] \in S
    OBVIOUS
  <1> HIDE DEF n
  <1>2. 1 \in Int /\ n \in Int
    BY <1>1
  <1>3. /\ r \in Seq(S)
        /\ Len(r) = IF 1 <= n THEN n - 1 + 1 ELSE 0
        /\ \A i \in 1 .. n - 1 + 1 : r[i] = q[1 + i - 1]
    BY <1>1, <1>2, SubSeqProperties
  <1> HIDE DEF r
  <1>4. (IF 1 <= n THEN n - 1 + 1 ELSE 0) = n /\ n - 1 + 1 = n
    BY <1>1
  <1>5. ASSUME NEW i \in 1 .. n PROVE r[i] = q[i]
    <2>1. 1 + i - 1 = i
      BY <1>1
    <2>2. QED
      BY <1>3, <1>4, <2>1
  <1>6. QED
    BY <1>1, <1>3, <1>4, <1>5 DEF r, n

(* Types are kept by every step of the parent and of a child.              *)
LEMMA LTypeStep == LTypeOK /\ [LNext]_lVars => LTypeOK'
  <1> SUFFICES ASSUME LTypeOK, [LNext]_lVars PROVE LTypeOK'
    OBVIOUS
  <1> USE DEF LTypeOK
  <1>1. CASE LStart
    BY <1>1 DEF LStart
  <1>2. CASE LInitNewChild
    <2>1. LNewPid \in Pid /\ NextSymbol \in Int
      BY <1>2 DEF LInitNewChild, LNewPid, LUnused, NextSymbol
    <2>2. QED
      BY <1>2, <2>1 DEF LInitNewChild
  <1>3. CASE LForkFails
    BY <1>3 DEF LForkFails, NextSymbol
  <1>4. CASE LKillLastChild \/ LKillChildren
    BY <1>4 DEF LKillLastChild, LKillChildren
  <1>5. CASE LSignal
    <2> DEFINE S == [pid : Pid, name : Int]
    <2>1. lStack[Len(lStack)] \in S /\ lStack' \in Seq(S)
      <3> HIDE DEF S
      <3>1. lStack \in Seq(S) /\ lStack # <<>> /\ lStack' = SubSeq(lStack, 1, Len(lStack) - 1)
        BY <1>5 DEF LSignal, S
      <3>2. QED
        BY <3>1, Popped
    <2>2. QED
      BY <1>5, <2>1 DEF LSignal
  <1>6. CASE LReaped
    BY <1>6 DEF LReaped
  <1>7. CASE LRemove
    BY <1>7 DEF LRemove
  <1>8. CASE LInterrupt
    BY <1>8 DEF LInterrupt
  <1>9. ASSUME NEW p \in Pid, LChildStep(p) PROVE LTypeOK'
    <2>1. CASE LBoot(p) \/ LTerminated(p)
      BY <2>1 DEF LBoot, LTerminated
    <2>2. CASE LTake(p) \/ LRelease(p)
      <3>1. lSem' \in Nat /\ lChild' \in [Pid -> {"none", "boot", "wait", "print", "gone"}]
        BY <2>2 DEF LTake, LRelease, REMOVED
      <3>2. QED
        BY <2>2, <3>1 DEF LTake, LRelease
    <2>3. CASE LKillHandler(p)
      BY <2>3 DEF LKillHandler, REMOVED
    <2>4. QED
      BY <1>9, <2>1, <2>2, <2>3 DEF LChildStep
  <1>10. CASE UNCHANGED lVars
    BY <1>10 DEF lVars
  <1>11. QED
    BY <1>1, <1>2, <1>3, <1>4, <1>5, <1>6, <1>7, <1>8, <1>9, <1>10
       DEF LNext, LKey, LParent

(* The children stay those of the stack and the one waited for.            *)
LEMMA OffspringStep == LTypeOK /\ Offspring /\ [LNext]_lVars => Offspring'
  <1> SUFFICES ASSUME LTypeOK, Offspring, [LNext]_lVars PROVE Offspring'
    OBVIOUS
  <1> USE DEF LTypeOK, Offspring
  <1>1. CASE LStart
    BY <1>1 DEF LStart
  <1>2. CASE LInitNewChild
    <2>1. LNewPid \in Pid
      BY <1>2 DEF LInitNewChild, LNewPid, LUnused
    <2>2. LInStack \cup {LNewPid} \subseteq LInStack'
      <3>1. \A i \in DOMAIN lStack : i \in DOMAIN lStack' /\ lStack'[i] = lStack[i]
        BY <1>2 DEF LInitNewChild
      <3>2. /\ Len(lStack) + 1 \in DOMAIN lStack'
            /\ lStack'[Len(lStack) + 1].pid = LNewPid
        BY <1>2 DEF LInitNewChild
      <3>3. QED
        BY <3>1, <3>2 DEF LInStack
    <2>3. QED
      BY <1>2, <2>1, <2>2 DEF LInitNewChild
  <1>3. CASE LForkFails \/ LKillLastChild \/ LKillChildren
    BY <1>3 DEF LForkFails, LKillLastChild, LKillChildren, LInStack
  <1>5. CASE LSignal
    <2>1. LInStack \subseteq LInStack' \cup {lReap'}
      <3>1. SUFFICES ASSUME NEW i \in DOMAIN lStack
                     PROVE  lStack[i].pid \in LInStack' \cup {lReap'}
        BY DEF LInStack
      <3>2. CASE i = Len(lStack)
        BY <1>5, <3>2 DEF LSignal
      <3>3. CASE i # Len(lStack)
        <4>1. i \in DOMAIN lStack' /\ lStack'[i] = lStack[i]
          BY <1>5, <3>3 DEF LSignal
        <4>2. QED
          BY <4>1 DEF LInStack
      <3>4. QED
        BY <3>2, <3>3
    <2>2. QED
      BY <1>5, <2>1, PidsAreNobodys DEF LSignal
  <1>6. CASE LReaped
    BY <1>6 DEF LReaped, LInStack
  <1>7. CASE LRemove
    <2>1. LInStack = {}
      BY <1>7 DEF LRemove, LInStack
    <2>2. QED
      BY <1>7, <2>1, PidsAreNobodys DEF LRemove, LInStack
  <1>8. CASE LInterrupt
    BY <1>8 DEF LInterrupt
  <1>9. ASSUME NEW p \in Pid, LChildStep(p) PROVE Offspring'
    BY <1>9 DEF LChildStep, LBoot, LTake, LRelease, LTerminated, LKillHandler, LInStack
  <1>10. CASE UNCHANGED lVars
    BY <1>10 DEF lVars, LInStack
  <1>11. QED
    BY <1>1, <1>2, <1>3, <1>5, <1>6, <1>7, <1>8, <1>9, <1>10
       DEF LNext, LKey, LParent

(* A step leaves as many turns as it finds: taking, giving back and being  *)
(* killed while printing move one, being killed while waiting makes one.   *)
LEMMA TurnStep == TurnInv /\ [LNext]_lVars => TurnsAccounted'
  <1> SUFFICES ASSUME LTypeOK, Offspring, TurnsAccounted, [LNext]_lVars
               PROVE  TurnsAccounted'
    BY DEF TurnInv
  <1>1. /\ lSem \in Nat \cup {REMOVED} /\ lSpurious \in Nat
        /\ lReap \in Pid \cup {NOBODY}
        /\ lMain # "off" => lSem + Cardinality(LPrinting) = 1 + lSpurious
        /\ lMain = "off" => \A p \in Pid : lChild[p] = "none"
    BY DEF LTypeOK, TurnsAccounted, Offspring
  <1>2. CASE LStart
    <2>1. LPrinting' = {}
      BY <1>1, <1>2 DEF LStart, LPrinting
    <2>2. QED
      BY <1>2, <2>1, FS_EmptySet DEF LStart, TurnsAccounted
  <1>3. CASE LInitNewChild
    <2>1. LNewPid \in Pid /\ lChild[LNewPid] = "none"
      BY <1>3 DEF LInitNewChild, LNewPid, LUnused
    <2>2. Cardinality(LPrinting') = Cardinality(LPrinting)
      BY <1>3, <2>1, PrintingCount DEF LInitNewChild
    <2>3. QED
      BY <1>1, <1>3, <2>2 DEF LInitNewChild, TurnsAccounted
  <1>4. CASE LForkFails \/ LKillLastChild \/ LKillChildren \/ LSignal
    <2>1. UNCHANGED <<lChild, lSem, lSpurious>> /\ lMain # "off"
      BY <1>4 DEF LForkFails, LKillLastChild, LKillChildren, LSignal
    <2>2. QED
      BY <1>1, <2>1, PrintingStays DEF TurnsAccounted
  <1>5. CASE LReaped
    <2>1. lReap \in Pid /\ lChild[lReap] = "gone" /\ lMain # "off"
      BY <1>1, <1>5 DEF LReaped
    <2>2. Cardinality(LPrinting') = Cardinality(LPrinting)
      BY <1>5, <2>1, PrintingCount DEF LReaped
    <2>3. QED
      BY <1>1, <1>5, <2>1, <2>2 DEF LReaped, TurnsAccounted
  <1>6. CASE LRemove \/ LInterrupt
    BY <1>6 DEF LRemove, LInterrupt, TurnsAccounted
  <1>7. ASSUME NEW p \in Pid, LChildStep(p) PROVE TurnsAccounted'
    <2>0. lMain # "off" /\ lMain' = lMain
      BY <1>1, <1>7
         DEF LChildStep, LBoot, LTake, LRelease, LTerminated, LKillHandler
    <2>1. CASE LBoot(p) \/ LTerminated(p)
      <3>1. Cardinality(LPrinting') = Cardinality(LPrinting)
        BY <2>1, PrintingCount DEF LBoot, LTerminated
      <3>2. QED
        BY <1>1, <2>0, <2>1, <3>1 DEF LBoot, LTerminated, TurnsAccounted
    <2>2. CASE LTake(p)
      <3>1. /\ Cardinality(LPrinting) \in Nat
            /\ Cardinality(LPrinting') = Cardinality(LPrinting) + 1
        BY <2>2, PrintingCount DEF LTake
      <3>2. QED
        BY <1>1, <2>0, <2>2, <3>1 DEF LTake, TurnsAccounted, REMOVED
    <2>3. CASE LRelease(p)
      <3>1. /\ Cardinality(LPrinting) \in Nat
            /\ Cardinality(LPrinting') = Cardinality(LPrinting) - 1
        BY <2>3, PrintingCount DEF LRelease
      <3>2. QED
        BY <1>1, <2>0, <2>3, <3>1 DEF LRelease, TurnsAccounted, REMOVED
    <2>4. CASE LKillHandler(p) /\ lChild[p] = "wait"
      <3>1. /\ Cardinality(LPrinting) \in Nat
            /\ Cardinality(LPrinting') = Cardinality(LPrinting)
        BY <2>4, PrintingCount DEF LKillHandler
      <3>2. QED
        BY <1>1, <2>0, <2>4, <3>1 DEF LKillHandler, TurnsAccounted, REMOVED
    <2>5. CASE LKillHandler(p) /\ lChild[p] = "print"
      <3>1. /\ Cardinality(LPrinting) \in Nat
            /\ Cardinality(LPrinting') = Cardinality(LPrinting) - 1
        BY <2>5, PrintingCount DEF LKillHandler
      <3>2. QED
        BY <1>1, <2>0, <2>5, <3>1 DEF LKillHandler, TurnsAccounted, REMOVED
    <2>6. QED
      BY <1>7, <2>1, <2>2, <2>3, <2>4, <2>5 DEF LChildStep, LKillHandler
  <1>8. CASE UNCHANGED lVars
    BY <1>1, <1>8, PrintingStays DEF lVars, TurnsAccounted
  <1>9. QED
    BY <1>2, <1>3, <1>4, <1>5, <1>6, <1>7, <1>8 DEF LNext, LKey, LParent

(* The semaphore exists as long as there are children to use it.           *)
LEMMA SemStep == TurnInv /\ [LNext]_lVars => SemLives'
  <1> SUFFICES ASSUME LTypeOK, Offspring, SemLives, [LNext]_lVars PROVE SemLives'
    BY DEF TurnInv
  <1>1. ASSUME NEW p \in Pid, LChildStep(p) PROVE SemLives'
    BY <1>1 DEF LChildStep, LBoot, LTake, LRelease, LTerminated, LKillHandler,
                SemLives, Offspring
  <1>2. CASE LStart \/ LRemove \/ LInterrupt
    BY <1>2 DEF LStart, LRemove, LInterrupt, SemLives
  <1>3. CASE LKey \/ LSignal \/ LReaped
    <2>1. lSem' = lSem
      BY <1>3 DEF LKey, LInitNewChild, LForkFails, LKillLastChild, LKillChildren, LSignal,
                  LReaped
    <2>2. lMain # "off"
      BY <1>3, PidsAreNobodys
         DEF LKey, LInitNewChild, LForkFails, LKillLastChild, LKillChildren, LSignal,
             LReaped, Offspring, LTypeOK
    <2>3. QED
      BY <2>1, <2>2 DEF SemLives
  <1>4. CASE UNCHANGED lVars
    BY <1>4 DEF lVars, SemLives
  <1>5. QED
    BY <1>1, <1>2, <1>3, <1>4 DEF LNext, LParent

(* The invariant holds before main has started.                            *)
LEMMA TurnInit == LInit => TurnInv
  BY DEF LInit, TurnInv, LTypeOK, Offspring, SemLives, TurnsAccounted

(* The invariant from which the next theorems follow.                      *)
THEOREM TurnInvariant == LSpec => []TurnInv
  <1>1. TurnInv /\ [LNext]_lVars => TurnInv'
    BY LTypeStep, OffspringStep, SemStep, TurnStep DEF TurnInv
  <1>2. QED
    BY <1>1, TurnInit, PTL DEF LSpec

(* child_lin.c:18-64: whenever the signals come, the turns in the          *)
(* semaphore and with the children that print are one, and one more for    *)
(* each child that was killed while it waited.                             *)
THEOREM TurnsNeverLost == LSpec => []TurnsAccounted
  BY TurnInvariant, PTL DEF TurnInv

(* Without such a child at most one child prints at a time.                *)
OnePrints == lSpurious = 0 => \A p, q \in LPrinting : p = q

(* While no child was killed as it waited, two children never print at the *)
(* same time (child_lin.c:18-64).                                          *)
THEOREM OneAtATime == LSpec => []OnePrints
  <1>1. TurnInv => OnePrints
    <2> SUFFICES ASSUME TurnInv, lSpurious = 0, NEW p \in LPrinting, NEW q \in LPrinting, p # q
                 PROVE  FALSE
      BY DEF OnePrints
    <2>1. IsFiniteSet(LPrinting) /\ LPrinting \subseteq Pid
      BY PidsAreNobodys, FS_Subset DEF LPrinting
    <2>2. lMain # "off" /\ lSem \in Nat
      BY <2>1 DEF TurnInv, Offspring, SemLives, LPrinting
    <2>3. Cardinality(LPrinting \ {p}) = Cardinality(LPrinting) - 1
      BY <2>1, FS_RemoveElement
    <2>4. IsFiniteSet(LPrinting \ {p}) /\ q \in LPrinting \ {p}
      BY <2>1, FS_RemoveElement
    <2>5. Cardinality(LPrinting \ {p}) \in Nat /\ Cardinality(LPrinting \ {p}) # 0
      BY <2>4, FS_CardinalityType, FS_EmptySet
    <2>6. Cardinality(LPrinting) \in Nat
      BY <2>1, FS_CardinalityType
    <2>7. Cardinality(LPrinting) + lSem = 1
      BY <2>2, <2>6 DEF TurnInv, TurnsAccounted
    <2>8. QED
      BY <2>2, <2>3, <2>5, <2>6, <2>7
  <1>2. QED
    BY <1>1, TurnInvariant, PTL

-----------------------------------------------------------------------------
(* The names in the stack follow one another, up to the wrap, and the      *)
(* symbol is the name of the top, or of the child just taken off it.       *)
TopName == IF lStack = <<>> THEN 0 ELSE lStack[Len(lStack)].name

Alphabet ==
  /\ lStack # <<>> => lStack[1].name = 1
  /\ \A i \in 2 .. Len(lStack) :
       lStack[i].name = 1 \/ lStack[i].name = lStack[i - 1].name + 1

SymbolFollows ==
  IF lReap = NOBODY THEN lSymbol = TopName
  ELSE lSymbol = 1 \/ (lStack # <<>> /\ lSymbol = TopName + 1)

SymbolInv ==
  /\ lMain \in {"off", "keys"} => lReap = NOBODY
  /\ lHist = {} /\ lMain \in {"keys", "kill"} => Alphabet /\ SymbolFollows

(* A new child takes the letter after the youngest one, which is then the  *)
(* symbol (implementation_lin.c:37-57).                                    *)
LEMMA AlphabetGrows ==
  ASSUME LTypeOK, Alphabet, lReap = NOBODY, SymbolFollows, LInitNewChild
  PROVE  Alphabet' /\ TopName' = lSymbol'
  <1> DEFINE n == Len(lStack)
  <1>1. /\ n \in Nat /\ Len(lStack') = n + 1
        /\ lStack'[n + 1].name = lSymbol'
        /\ \A i \in 1 .. n : lStack'[i] = lStack[i]
        /\ lStack' # <<>>
    BY DEF LInitNewChild, LTypeOK
  <1>2. lSymbol' = 1 \/ lSymbol' = lSymbol + 1
    BY DEF LInitNewChild, NextSymbol
  <1>3. lStack = <<>> <=> n = 0
    BY DEF LTypeOK
  <1> HIDE DEF n
  <1>4. CASE n = 0
    <2>1. lSymbol' = 1
      BY <1>2, <1>3, <1>4 DEF SymbolFollows, TopName, LTypeOK
    <2>2. QED
      BY <1>1, <1>4, <2>1 DEF Alphabet, TopName
  <1>5. CASE n # 0
    <2>1. lSymbol = lStack[n].name
      BY <1>3, <1>5 DEF SymbolFollows, TopName, n
    <2>2. lStack'[1].name = 1
      BY <1>1, <1>3, <1>5 DEF Alphabet
    <2>3. ASSUME NEW i \in 2 .. n + 1
          PROVE  lStack'[i].name = 1 \/ lStack'[i].name = lStack'[i - 1].name + 1
      <3>1. CASE i = n + 1
        <4>1. i - 1 = n /\ n \in 1 .. n
          BY <1>1, <1>5, <3>1
        <4>2. lStack'[i].name = lSymbol' /\ lStack'[i - 1] = lStack[n]
          BY <1>1, <3>1, <4>1
        <4>3. QED
          BY <1>2, <2>1, <4>2
      <3>2. CASE i # n + 1
        <4>1. i \in 2 .. Len(lStack) /\ i \in 1 .. n /\ i - 1 \in 1 .. n
          BY <1>1, <3>2 DEF n
        <4>2. QED
          BY <1>1, <4>1 DEF Alphabet
      <3>3. QED
        BY <3>1, <3>2
    <2>4. QED
      BY <1>1, <2>2, <2>3 DEF Alphabet, TopName
  <1>6. QED
    BY <1>4, <1>5

(* Killing the youngest child leaves the letters of the others in order.   *)
LEMMA AlphabetShrinks ==
  ASSUME LTypeOK, Alphabet, SymbolFollows, LSignal
  PROVE  Alphabet' /\ SymbolFollows'
  <1> DEFINE n == Len(lStack)
             S == [pid : Pid, name : Int]
  <1>1. /\ n \in Nat \ {0} /\ lReap = NOBODY /\ lReap' \in Pid /\ lSymbol' = lSymbol
        /\ lStack \in Seq(S) /\ lStack # <<>>
        /\ lStack' = SubSeq(lStack, 1, n - 1)
    <2>1. lStack \in Seq(S) /\ lStack # <<>> /\ n \in Nat \ {0}
      BY DEF LSignal, LTypeOK
    <2> HIDE DEF S
    <2>2. lStack[n] \in S
      BY <2>1, Popped
    <2>3. QED
      BY <2>1, <2>2 DEF LSignal, S
  <1> HIDE DEF S
  <1>2. lStack' \in Seq(S) /\ Len(lStack') = n - 1 /\ \A i \in 1 .. n - 1 : lStack'[i] = lStack[i]
    BY <1>1, Popped
  <1>3. lSymbol = lStack[n].name
    BY <1>1 DEF SymbolFollows, TopName
  <1>4. lStack' = <<>> <=> n = 1
    <2>1. lStack' = <<>> <=> Len(lStack') = 0
      BY <1>2, EmptySeq
    <2> HIDE DEF n
    <2>2. QED
      BY <1>1, <1>2, <2>1
  <1>5. Alphabet'
    <2>1. lStack' # <<>> => lStack'[1].name = 1
      BY <1>1, <1>2, <1>4 DEF Alphabet
    <2>2. ASSUME NEW i \in 2 .. n - 1
          PROVE  lStack'[i].name = 1 \/ lStack'[i].name = lStack'[i - 1].name + 1
      <3>1. i \in 1 .. n - 1 /\ i - 1 \in 1 .. n - 1 /\ i \in 2 .. Len(lStack)
        BY <1>1
      <3>2. QED
        BY <1>2, <3>1 DEF Alphabet
    <2>3. QED
      BY <1>2, <2>1, <2>2 DEF Alphabet
  <1>6. CASE n = 1
    BY <1>1, <1>3, <1>6, PidsAreNobodys DEF Alphabet, SymbolFollows
  <1>7. CASE n # 1
    <2>1. n \in 2 .. Len(lStack) /\ n - 1 \in 1 .. n - 1
      <3>1. n = Len(lStack)
        OBVIOUS
      <3> HIDE DEF n
      <3>2. QED
        BY <1>1, <1>7, <3>1
    <2>2. TopName' = lStack[n - 1].name
      BY <1>2, <1>4, <1>7, <2>1 DEF TopName
    <2>3. lSymbol' = 1 \/ lSymbol' = TopName' + 1
      BY <1>1, <1>3, <2>1, <2>2 DEF Alphabet
    <2>4. QED
      BY <1>1, <1>4, <1>5, <1>7, <2>3, PidsAreNobodys DEF SymbolFollows
  <1>8. QED
    BY <1>5, <1>6, <1>7

(* Every step on Linux keeps the letters in order and the symbol at the    *)
(* youngest child.                                                         *)
LEMMA SymbolStep == LTypeOK /\ SymbolInv /\ [LNext]_lVars => SymbolInv'
  <1> SUFFICES ASSUME LTypeOK, SymbolInv, [LNext]_lVars PROVE SymbolInv'
    OBVIOUS
  <1>1. CASE LStart
    BY <1>1 DEF LStart, SymbolInv, Alphabet, SymbolFollows, TopName
  <1>2. CASE LInitNewChild
    <2>1. lReap = NOBODY /\ lReap' = NOBODY /\ lHist' = lHist /\ lMain = "keys" /\ lMain' = "keys"
      BY <1>2 DEF LInitNewChild, SymbolInv
    <2>2. CASE lHist = {}
      BY <1>2, <2>1, <2>2, AlphabetGrows DEF SymbolInv, SymbolFollows
    <2>3. QED
      BY <2>1, <2>2 DEF SymbolInv
  <1>3. CASE LForkFails \/ LKillLastChild \/ LKillChildren
    BY <1>3 DEF LForkFails, LKillLastChild, LKillChildren, SymbolInv, Alphabet, SymbolFollows,
                TopName
  <1>4. CASE LSignal
    <2>1. lMain \in {"kill", "quit"} /\ lMain' = lMain /\ lHist' = lHist
      BY <1>4 DEF LSignal
    <2>2. CASE lHist = {} /\ lMain = "kill"
      BY <1>4, <2>1, <2>2, AlphabetShrinks DEF SymbolInv
    <2>3. QED
      BY <2>1, <2>2 DEF SymbolInv
  <1>5. CASE LReaped
    <2>1. /\ lReap # NOBODY /\ lReap' = NOBODY /\ lStack' = lStack /\ lSymbol' = lSymbol - 1
          /\ lMain \notin {"off", "keys"}
      BY <1>5 DEF LReaped, SymbolInv
    <2>2. CASE lHist' = {} /\ lMain = "kill"
      <3>1. lHist = {} /\ (lSymbol # 1 \/ lStack = <<>>)
        BY <1>5, <2>2 DEF LReaped
      <3>2. Alphabet' /\ TopName' = TopName
        BY <2>1, <2>2, <3>1 DEF SymbolInv, Alphabet, TopName
      <3>3. CASE lStack = <<>>
        BY <2>1, <2>2, <3>1, <3>2, <3>3 DEF SymbolInv, SymbolFollows, TopName
      <3>4. CASE lStack # <<>>
        <4>1. lSymbol = TopName + 1 /\ TopName \in Int
          <5>1. lStack[Len(lStack)].name \in Int
            <6> DEFINE S == [pid : Pid, name : Int]
            <6>1. lStack \in Seq(S)
              BY DEF LTypeOK
            <6> HIDE DEF S
            <6>2. lStack[Len(lStack)] \in S
              BY <3>4, <6>1, Popped
            <6>3. QED
              BY <6>2 DEF S
          <5>2. QED
            BY <2>1, <2>2, <3>1, <3>4, <5>1 DEF SymbolInv, SymbolFollows, TopName
        <4>2. QED
          BY <2>1, <3>2, <4>1 DEF SymbolInv, SymbolFollows
      <3>5. QED
        BY <3>3, <3>4
    <2>3. CASE lMain # "kill"
      BY <1>5, <2>1, <2>3 DEF LReaped, SymbolInv
    <2>4. QED
      BY <2>1, <2>2, <2>3 DEF SymbolInv
  <1>6. CASE LRemove \/ LInterrupt
    BY <1>6 DEF LRemove, LInterrupt, SymbolInv
  <1>7. ASSUME NEW p \in Pid, LChildStep(p) PROVE SymbolInv'
    <2>1. UNCHANGED <<lMain, lStack, lSymbol, lReap, lHist>>
      BY <1>7 DEF LChildStep, LBoot, LTake, LRelease, LTerminated, LKillHandler
    <2>2. QED
      BY <2>1 DEF SymbolInv, Alphabet, SymbolFollows, TopName
  <1>8. CASE UNCHANGED lVars
    BY <1>8 DEF lVars, SymbolInv, Alphabet, SymbolFollows, TopName
  <1>9. QED
    BY <1>1, <1>2, <1>3, <1>4, <1>5, <1>6, <1>7, <1>8 DEF LNext, LKey, LParent

(* implementation_lin.c:37-70: the symbol is the name of the youngest      *)
(* child, as long as no child called 'a' but the first was killed.         *)
THEOREM SymbolIsTheYoungest == LSpec => []SymbolNamesTop
  <1>1. LInit => SymbolInv
    BY DEF LInit, SymbolInv
  <1>2. LTypeOK /\ SymbolInv => SymbolNamesTop
    BY DEF SymbolInv, SymbolFollows, TopName, SymbolNamesTop, LTypeOK
  <1>3. TurnInv => LTypeOK
    BY DEF TurnInv
  <1>4. QED
    BY <1>1, <1>2, <1>3, SymbolStep, TurnInvariant, PTL DEF LSpec

-----------------------------------------------------------------------------
(* Windows.  The elements of a stack, and that none is there twice.        *)
Elements(q) == {q[i] : i \in DOMAIN q}
Distinct(q) == \A i, j \in DOMAIN q : q[i] = q[j] => i = j

(* Where the turn is, if p has it, and that it is nowhere, if not.         *)
Holds(p) ==
  \/ p \in wWork /\ p \notin wDone /\ wChild[p] # "pass"
  \/ p \notin wWork /\ p \in wDone /\ wChild[p] # "pass"
  \/ p \notin wWork /\ p \notin wDone /\ wChild[p] = "pass"
Idle(p) == p \notin wWork /\ p \notin wDone /\ wChild[p] # "pass"

(* The turn belongs to currentWorkingChild, or to the first child if that  *)
(* points to none.                                                         *)
Holder == IF wCurrent \in Process THEN wCurrent ELSE wStack[1]

OneHolds ==
  IF wRunning THEN \A p \in Stacked : Idle(p)
  ELSE wStack # <<>> => Holds(Holder) /\ \A p \in Stacked : p # Holder => Idle(p)

(* No event of a process that is not running is set; the life of a child   *)
(* in the stack is not over; who prints has its turn set.                  *)
EventsFit ==
  /\ \A p \in Process : wChild[p] = "none" =>
       p \notin Stacked /\ p \notin wWork /\ p \notin wDone /\ p \notin wLife
  /\ \A p \in Stacked : p \notin wLife /\ (wChild[p] = "print" => p \in wWork)
  /\ wMute = {}

(* The child being created has not begun, the one being killed is off the  *)
(* stack, and currentWorkingChild is on it or is no child.                 *)
ManagerFits ==
  /\ wManager = "create" => /\ wNew \in Process /\ wNew \notin Stacked /\ wChild[wNew] \in {"boot", "wait"}
                            /\ wNew \notin wWork /\ wNew \notin wDone /\ wNew \notin wLife
  /\ wManager = "kill" => wNew \in Process /\ wNew \notin Stacked
  /\ wCurrent \in Process => wCurrent \in Stacked

WTypes ==
  /\ WTypeOK
  /\ wMain = "off" => WInit
  /\ wManager = "create" => wNew \in Process
  /\ wRunning => wManager = "kill" /\ wStack # <<>>

WTurnInv ==
  /\ WTypes
  /\ wManager \in {"loop", "create", "kill"} /\ wHist = {} =>
       Distinct(wStack) /\ EventsFit /\ ManagerFits /\ OneHolds

(* A stack after a push, and after zox_pop.                                *)
LEMMA Pushed ==
  ASSUME NEW S, NEW q \in Seq(S), NEW e \in S
  PROVE  /\ Elements(Append(q, e)) = Elements(q) \cup {e}
         /\ Append(q, e) # <<>>
         /\ q # <<>> => Append(q, e)[1] = q[1]
         /\ q = <<>> => Append(q, e)[1] = e
         /\ Distinct(q) /\ e \notin Elements(q) => Distinct(Append(q, e))
  <1> DEFINE n == Len(q)
             r == Append(q, e)
  <1>1. /\ n \in Nat /\ DOMAIN q = 1 .. n /\ DOMAIN r = 1 .. n + 1
        /\ r[n + 1] = e /\ \A i \in 1 .. n : r[i] = q[i]
    OBVIOUS
  <1>2. r # <<>>
    <2>1. n + 1 \in DOMAIN r
      BY <1>1
    <2>2. QED
      BY <2>1
  <1>3. q # <<>> => 1 \in 1 .. n
    OBVIOUS
  <1>4. q = <<>> => n = 0
    OBVIOUS
  <1> HIDE DEF n, r
  <1>5. 1 .. n + 1 = (1 .. n) \cup {n + 1}
    BY <1>1
  <1>6. Elements(r) = Elements(q) \cup {e}
    BY <1>1, <1>5 DEF Elements
  <1>7. q # <<>> => r[1] = q[1]
    BY <1>1, <1>3
  <1>8. q = <<>> => r[1] = e
    BY <1>1, <1>4
  <1>9. Distinct(q) /\ e \notin Elements(q) => Distinct(r)
    BY <1>1, <1>5 DEF Distinct, Elements
  <1>10. QED
    BY <1>2, <1>6, <1>7, <1>8, <1>9 DEF r

(* Popping an entry of a stack without duplicates takes out that entry and *)
(* no other.                                                               *)
LEMMA PoppedDistinct ==
  ASSUME NEW S, NEW q \in Seq(S), q # <<>>, Distinct(q)
  PROVE  LET r == SubSeq(q, 1, Len(q) - 1)
         IN  /\ Elements(r) = Elements(q) \ {q[Len(q)]} /\ q[Len(q)] \in Elements(q)
             /\ Distinct(r) /\ (r = <<>> <=> Len(q) = 1)
             /\ r # <<>> => r[1] = q[1]
  <1> DEFINE r == SubSeq(q, 1, Len(q) - 1)
  <1> PICK n \in Nat : Len(q) = n + 1
    OBVIOUS
  <1>1. /\ DOMAIN q = 1 .. n + 1 /\ r \in Seq(S) /\ Len(r) = n
        /\ \A i \in 1 .. n : r[i] = q[i]
    BY Popped
  <1>2. DOMAIN r = 1 .. n /\ (r = <<>> <=> n = 0)
    BY <1>1
  <1> HIDE DEF r
  <1>3. 1 .. n + 1 = (1 .. n) \cup {n + 1} /\ n + 1 \notin 1 .. n
    OBVIOUS
  <1>4. Elements(r) = Elements(q) \ {q[n + 1]} /\ q[n + 1] \in Elements(q)
    BY <1>1, <1>2, <1>3 DEF Elements, Distinct
  <1>5. Distinct(r)
    BY <1>1, <1>2, <1>3 DEF Distinct
  <1>6. r # <<>> => r[1] = q[1]
    BY <1>1, <1>2
  <1>7. QED
    BY <1>2, <1>4, <1>5, <1>6 DEF r

(* A stack of several entries is not empty after a pop.                    *)
LEMMA PoppedMore ==
  ASSUME NEW S, NEW q \in Seq(S), Len(q) > 1
  PROVE  SubSeq(q, 1, Len(q) - 1) # <<>>
  <1> PICK n \in Nat \ {0} : Len(q) = n + 1
    <2>1. Len(q) \in Nat
      OBVIOUS
    <2>2. QED
      BY <2>1
  <1>1. q # <<>>
    BY EmptySeq
  <1>2. Len(SubSeq(q, 1, Len(q) - 1)) = n
    BY <1>1, Popped
  <1>3. QED
    BY <1>2

-----------------------------------------------------------------------------
(* Types, and what is known of the manager's variables.                    *)
LEMMA WTypeStep == WTypes /\ [WNext]_wVars => WTypes'
  <1> SUFFICES ASSUME WTypes, [WNext]_wVars PROVE WTypes'
    OBVIOUS
  <1> USE DEF WTypes, WTypeOK, wMainVars, wEventVars
  <1>0. wStack # <<>> => Top \in Process /\ SubSeq(wStack, 1, Len(wStack) - 1) \in Seq(Process)
    BY Popped DEF Top
  <1>00. Len(wStack) > 1 => SubSeq(wStack, 1, Len(wStack) - 1) # <<>>
    BY PoppedMore
  <1>1. CASE WStart
    BY <1>1 DEF WStart, WInit
  <1>2. ASSUME NEW event \in Commands, WKey(event) PROVE WTypes'
    BY <1>2, WinBounds DEF WKey
  <1>3. CASE WQuit
    BY <1>3 DEF WQuit
  <1>4. CASE WOverflow
    BY <1>4 DEF WOverflow, WInit, Signalled
  <1>5. CASE WCreate
    <2>1. wNew' \in WUnused
      BY <1>5 DEF WCreate
    <2>2. wNew' \in Process
      BY <2>1 DEF WUnused
    <2>3. wChild' \in [Process -> {"none", "boot", "wait", "print", "pass", "gone"}]
      BY <1>5, <2>2 DEF WCreate
    <2>4. wMain # "off"
      BY <1>5 DEF WCreate, Signalled, WInit
    <2>5. QED
      BY <1>5, <2>2, <2>3, <2>4 DEF WCreate, Signalled
  <1>6. CASE WCreateFails
    BY <1>6 DEF WCreateFails, WInit, Signalled
  <1>7. CASE WCreated
    <2>1. wNew \in Process /\ wStack' \in Seq(Process) /\ wMain # "off" /\ ~wRunning
      BY <1>7 DEF WCreated, WInit
    <2>2. wHist' \subseteq {"raced", "reused"} /\ wWork' \subseteq Process
            /\ wCurrent' \in Process \cup {NONE, DANGLING}
      BY <1>7, <2>1 DEF WCreated
    <2>3. QED
      BY <1>7, <2>1, <2>2 DEF WCreated
  <1>8. CASE WKill
    BY <1>0, <1>00, <1>8 DEF WKill, KillTop, WInit, Signalled
  <1>9. CASE WKilled
    <2>1. wMain # "off" /\ wNew \in Process /\ (wRunning => Top \in Process)
      BY <1>0, <1>9 DEF WKilled, WInit
    <2>2. wWork' \subseteq Process /\ wDone' \subseteq Process
            /\ wCurrent' \in Process \cup {NONE, DANGLING}
      BY <1>9, <2>1 DEF WKilled
    <2>3. QED
      BY <1>9, <2>1, <2>2 DEF WKilled
  <1>10. CASE WTest
    BY <1>10 DEF WTest, WInit, Signalled
  <1>11. CASE WKillManager
    BY <1>11 DEF WKillManager, WInit, Signalled
  <1>12. CASE WKillNext
    BY <1>0, <1>12 DEF WKillNext, KillTop, WInit, Signalled
  <1>13. CASE WTurn
    <2>1. PICK i \in DOMAIN wStack : /\ wDone' = wDone \ {wStack[i]}
                                     /\ wCurrent' = IF i = 1 THEN Top ELSE wStack[i - 1]
                                     /\ wWork' = wWork \cup {wCurrent'}
      BY <1>13 DEF WTurn
    <2>2. wStack # <<>> /\ (i # 1 => wStack[i - 1] \in Process)
      OBVIOUS
    <2>3. wCurrent' \in Process
      BY <1>0, <2>1, <2>2
    <2>4. wMain # "off"
      BY <1>13 DEF WTurn, WInit
    <2>5. QED
      BY <1>13, <2>1, <2>3, <2>4 DEF WTurn
  <1>14. ASSUME NEW p \in Process, WChildStep(p) PROVE WTypes'
    <2>1. CASE WOpen(p)
      BY <2>1 DEF WOpen, WInit
    <2>2. CASE WWake(p)
      BY <2>2 DEF WWake, WInit
    <2>3. CASE WEndPrinting(p)
      BY <2>3 DEF WEndPrinting, WInit
    <2>4. CASE WPrinted(p)
      BY <2>4 DEF WPrinted, WInit
    <2>5. CASE WPass(p)
      BY <2>5 DEF WPass, WInit
    <2>6. CASE WEndWaiting(p)
      BY <2>6 DEF WEndWaiting, WInit
    <2>7. QED
      BY <1>14, <2>1, <2>2, <2>3, <2>4, <2>5, <2>6 DEF WChildStep
  <1>15. CASE UNCHANGED wVars
    BY <1>15 DEF wVars, WInit
  <1>16. QED
    BY <1>1, <1>2, <1>3, <1>4, <1>5, <1>6, <1>7, <1>8, <1>9, <1>10, <1>11, <1>12, <1>13, <1>14, <1>15 DEF WNext, WManager

(* The turn after one step.                                                *)
LEMMA WTurnStep ==
  ASSUME WTurnInv, WTypes', WNext, wManager' \in {"loop", "create", "kill"}, wHist' = {}
  PROVE  Distinct(wStack') /\ EventsFit' /\ ManagerFits' /\ OneHolds'
  <1>1. CASE WStart
    <2>1. WInit
      BY <1>1 DEF WStart, WTurnInv, WTypes
    <2>2. Stacked' = {}
      BY <1>1, <2>1 DEF WStart, WInit, Stacked
    <2>3. wStack' = <<>> /\ ~wRunning' /\ wCurrent' \notin Process /\ wManager' = "loop"
      BY <1>1, <2>1, ProcessesAreNot DEF WStart, WInit
    <2>4. EventsFit'
      BY <1>1, <2>1, <2>2 DEF WStart, WInit, EventsFit, wEventVars
    <2>5. QED
      BY <2>2, <2>3, <2>4 DEF Distinct, ManagerFits, OneHolds
  <1>2. ASSUME ~WStart PROVE wManager \in {"loop", "create", "kill"} /\ wHist = {}
    <2>1. wHist \subseteq wHist'
      BY <1>2 DEF WNext, WKey, WQuit, WManager, WChildStep, WOverflow, WCreate, WCreateFails, WCreated,
                  WKill, WKilled, WTest, WKillManager, WKillNext, WTurn, WOpen, WWake, WEndPrinting,
                  WPrinted, WPass, WEndWaiting
    <2>2. wManager \in {"loop", "create", "kill"}
      BY <1>2 DEF WNext, WKey, WQuit, WManager, WChildStep, WOverflow, WCreate, WCreateFails, WCreated,
                  WKill, WKilled, WTest, WKillManager, WKillNext, WTurn, WOpen, WWake, WEndPrinting,
                  WPrinted, WPass, WEndWaiting, Signalled
    <2>3. QED
      BY <2>1, <2>2
  <1>3. SUFFICES ASSUME ~WStart, Distinct(wStack), EventsFit, ManagerFits, OneHolds
                 PROVE  Distinct(wStack') /\ EventsFit' /\ ManagerFits' /\ OneHolds'
    BY <1>1, <1>2 DEF WTurnInv
  <1>4. /\ WTypes /\ wStack \in Seq(Process) /\ wStack' \in Seq(Process)
        /\ wChild \in [Process -> {"none", "boot", "wait", "print", "pass", "gone"}]
        /\ Stacked \subseteq Process /\ wHist = {}
        /\ wManager \in {"loop", "create", "kill"}
        /\ wStack # <<>> => Holder \in Stacked
    <2>1. wStack # <<>> => wStack[1] \in Stacked
      BY DEF WTurnInv, WTypes, WTypeOK, Stacked
    <2>2. QED
      BY <1>2, <1>3, <2>1 DEF WTurnInv, WTypes, WTypeOK, Stacked, Holder, ManagerFits
  <1>5. wStack' = wStack => Stacked' = Stacked
    BY DEF Stacked
  <1>6. wStack' = wStack /\ wCurrent' = wCurrent => Holder' = Holder
    BY DEF Holder
  <1>7. CASE WQuit \/ WTest \/ \E event \in Commands : WKey(event)
    <2>1. UNCHANGED <<wStack, wCurrent, wManager, wNew, wRunning, wChild, wMute, wEventVars>>
      BY <1>7 DEF WQuit, WTest, WKey
    <2>2. QED
      BY <1>3, <1>5, <1>6, <2>1 DEF EventsFit, ManagerFits, OneHolds, Holds, Idle, wEventVars
  <1>8. CASE WCreate
    <2>1. /\ wNew' \in Process /\ wChild[wNew'] = "none" /\ wManager' = "create" /\ wManager = "loop"
          /\ wChild' = [wChild EXCEPT ![wNew'] = "boot"]
          /\ UNCHANGED <<wStack, wCurrent, wRunning, wMute, wEventVars>>
      <3>1. wNew' \in WUnused
        BY <1>8 DEF WCreate
      <3>2. QED
        BY <1>8, <3>1 DEF WCreate, WUnused, Signalled
    <2>2. /\ wNew' \notin Stacked /\ wNew' \notin wWork /\ wNew' \notin wDone /\ wNew' \notin wLife
      BY <1>3, <2>1 DEF EventsFit
    <2>3. wChild'[wNew'] = "boot" /\ \A p \in Process : p # wNew' => wChild'[p] = wChild[p]
      BY <1>4, <2>1
    <2>4. EventsFit' /\ ManagerFits'
      BY <1>3, <1>4, <1>5, <2>1, <2>2, <2>3 DEF EventsFit, ManagerFits, wEventVars
    <2>5. \A p \in Stacked : wChild'[p] = wChild[p]
      BY <1>4, <2>2, <2>3
    <2>6. OneHolds'
      BY <1>3, <1>4, <1>5, <1>6, <2>1, <2>5 DEF OneHolds, Holds, Idle, wEventVars
    <2>7. QED
      BY <1>3, <2>1, <2>4, <2>6
  <1>9. CASE WCreated
    <2>1. /\ wManager = "create" /\ wManager' = "loop" /\ wStack' = Append(wStack, wNew) /\ ~wRunning
          /\ wWork' = (IF wStack = <<>> THEN wWork \cup {wNew} ELSE wWork)
          /\ UNCHANGED <<wRunning, wChild, wMute, wDone, wLife>>
          /\ wNew \in Process
      BY <1>4, <1>9 DEF WCreated, WTypes
    <2>2. /\ wNew \notin Stacked /\ wChild[wNew] \in {"boot", "wait"}
          /\ wNew \notin wWork /\ wNew \notin wDone /\ wNew \notin wLife
      BY <1>3, <2>1 DEF ManagerFits
    <2>3. /\ Stacked' = Stacked \cup {wNew} /\ wStack' # <<>> /\ Distinct(wStack')
          /\ wStack # <<>> => wStack'[1] = wStack[1]
          /\ wStack = <<>> => wStack'[1] = wNew /\ Stacked = {}
      <3>1. Stacked = Elements(wStack) /\ Stacked' = Elements(wStack')
        BY DEF Stacked, Elements
      <3>2. wStack = <<>> => Stacked = {}
        BY DEF Stacked
      <3>3. QED
        BY <1>3, <1>4, <2>1, <2>2, <3>1, <3>2, Pushed
    <2>4. \/ wCurrent' = wCurrent
          \/ wCurrent = DANGLING /\ wCurrent' = wNew /\ wStack = <<>>
      BY <1>4, <1>9 DEF WCreated
    <2>5. EventsFit'
      BY <1>3, <1>4, <2>1, <2>2, <2>3 DEF EventsFit
    <2>6. ManagerFits'
      BY <1>3, <2>1, <2>3, <2>4, ProcessesAreNot DEF ManagerFits
    <2>7. OneHolds'
      <3>1. CASE wStack = <<>>
        <4>1. Holder' = wNew
          BY <1>3, <2>3, <2>4, <3>1 DEF Holder, ManagerFits
        <4>2. QED
          BY <2>1, <2>2, <2>3, <3>1, <4>1 DEF OneHolds, Holds
      <3>2. CASE wStack # <<>>
        <4>1. Holder' = Holder
          BY <2>3, <2>4, <3>2 DEF Holder
        <4>2. QED
          BY <1>3, <2>1, <2>2, <2>3, <3>2, <4>1 DEF OneHolds, Holds, Idle
      <3>3. QED
        BY <3>1, <3>2
    <2>8. QED
      BY <2>3, <2>5, <2>6, <2>7
  <1>10. CASE WKill
    <2>1. CASE wStack = <<>>
      <3>1. UNCHANGED <<wStack, wCurrent, wManager, wNew, wRunning, wChild, wMute, wEventVars>>
        BY <1>10, <2>1 DEF WKill, wEventVars
      <3>2. QED
        BY <1>3, <1>5, <1>6, <3>1 DEF EventsFit, ManagerFits, OneHolds, Holds, Idle, wEventVars
    <2>2. CASE wStack # <<>>
      <3>1. /\ wNew' = Top /\ wLife' = wLife \cup {Top} /\ wManager' = "kill" /\ wManager = "loop"
            /\ wStack' = SubSeq(wStack, 1, Len(wStack) - 1)
            /\ wRunning' = (Top = wCurrent /\ Len(wStack) > 1)
            /\ wCurrent' = IF Top = wCurrent THEN DANGLING ELSE wCurrent
            /\ UNCHANGED <<wChild, wMute, wWork, wDone>>
        BY <1>10, <2>2 DEF WKill, KillTop, Signalled
      <3>2. /\ Stacked' = Stacked \ {Top} /\ Top \in Stacked /\ Distinct(wStack')
            /\ (wStack' = <<>> <=> Len(wStack) = 1)
            /\ wStack' # <<>> => wStack'[1] = wStack[1]
        <4>1. Stacked = Elements(wStack) /\ Stacked' = Elements(wStack')
          BY DEF Stacked, Elements
        <4>2. QED
          BY <1>3, <1>4, <2>2, <3>1, <4>1, PoppedDistinct DEF Top
      <3>3. EventsFit'
        BY <1>3, <1>4, <3>1, <3>2 DEF EventsFit
      <3>4. ManagerFits'
        BY <1>3, <1>4, <3>1, <3>2, ProcessesAreNot DEF ManagerFits
      <3>5. Holds(Holder) /\ \A p \in Stacked : p # Holder => Idle(p)
        BY <1>3, <1>4, <2>2, <3>1 DEF OneHolds, WTypes
      <3>6. \A p \in Stacked : Idle(p) => Idle(p)'
        BY <3>1 DEF Idle
      <3>7. OneHolds'
        <4>1. CASE wRunning'
          <5>1. Holder = Top
            BY <1>4, <3>1, <3>2, <4>1 DEF Holder
          <5>2. \A p \in Stacked' : Idle(p)'
            BY <3>2, <3>5, <3>6, <5>1
          <5>3. QED
            BY <4>1, <5>2 DEF OneHolds
        <4>2. CASE ~wRunning' /\ wStack' # <<>>
          <5>1. Len(wStack) > 1
            BY <1>4, <2>2, <3>2, <4>2
          <5>2. Top # wCurrent /\ wCurrent' = wCurrent
            BY <3>1, <4>2, <5>1
          <5>3. Holder' = Holder
            BY <3>2, <4>2, <5>2 DEF Holder
          <5>5. Holds(Holder)'
            BY <3>1, <3>5, <5>3 DEF Holds
          <5>6. QED
            BY <3>2, <3>5, <3>6, <4>2, <5>3, <5>5 DEF OneHolds
        <4>3. CASE ~wRunning' /\ wStack' = <<>>
          BY <4>3 DEF OneHolds
        <4>4. QED
          BY <4>1, <4>2, <4>3
      <3>8. QED
        BY <3>2, <3>3, <3>4, <3>7
    <2>3. QED
      BY <2>1, <2>2
  <1>11. CASE WKilled
    <2>1. /\ wManager = "kill" /\ wManager' = "loop" /\ wChild[wNew] = "gone" /\ ~wRunning'
          /\ wChild' = [wChild EXCEPT ![wNew] = "none"]
          /\ wMute' = wMute \ {wNew} /\ wLife' = wLife \ {wNew} /\ wStack' = wStack
          /\ IF wRunning
             THEN wCurrent' = Top /\ wWork' = (wWork \ {wNew}) \cup {Top} /\ wDone' = wDone \ {wNew, Top}
             ELSE wWork' = wWork \ {wNew} /\ wDone' = wDone \ {wNew} /\ wCurrent' = wCurrent
      BY <1>4, <1>11 DEF WKilled
    <2>2. wNew \in Process /\ wNew \notin Stacked
      BY <1>3, <2>1 DEF ManagerFits
    <2>3. /\ wChild'[wNew] = "none" /\ \A p \in Process : p # wNew => wChild'[p] = wChild[p]
          /\ wStack # <<>> => Top \in Stacked
      BY <1>4, <2>1, <2>2 DEF Stacked, Top
    <2>4. wRunning => wStack # <<>>
      BY <1>4 DEF WTypes
    <2>5. EventsFit'
      BY <1>3, <1>4, <1>5, <2>1, <2>2, <2>3, <2>4 DEF EventsFit
    <2>6. ManagerFits'
      BY <1>3, <1>5, <2>1, <2>3, <2>4 DEF ManagerFits
    <2>7. OneHolds'
      <3>1. CASE wRunning
        <4>1. Holder' = Top /\ Top \in Stacked /\ Top # wNew
          BY <1>4, <2>1, <2>2, <2>3, <2>4, <3>1 DEF Holder
        <4>2. \A p \in Stacked : Idle(p) /\ p # wNew
          BY <1>3, <2>2, <3>1 DEF OneHolds
        <4>3. Holds(Holder)'
          BY <1>4, <2>1, <2>3, <3>1, <4>1, <4>2 DEF Holds, Idle
        <4>4. \A p \in Stacked : p # Top => Idle(p)'
          BY <1>4, <2>1, <2>3, <3>1, <4>2 DEF Idle
        <4>5. QED
          BY <1>5, <2>1, <4>1, <4>3, <4>4 DEF OneHolds
      <3>2. CASE ~wRunning
        <4>1. Holder' = Holder
          BY <1>6, <2>1, <3>2
        <4>2. \A p \in Stacked : (Idle(p) => Idle(p)') /\ wChild'[p] = wChild[p] /\ p # wNew
          BY <1>4, <2>1, <2>2, <2>3, <3>2 DEF Idle
        <4>3. wStack # <<>> => Holds(Holder)'
          BY <1>3, <1>4, <2>1, <3>2, <4>1, <4>2 DEF OneHolds, Holds
        <4>4. QED
          BY <1>3, <1>5, <2>1, <3>2, <4>1, <4>2, <4>3 DEF OneHolds
      <3>3. QED
        BY <3>1, <3>2
    <2>8. QED
      BY <1>3, <2>1, <2>5, <2>6, <2>7
  <1>12. CASE WTurn
    <2>1. PICK i \in DOMAIN wStack : /\ wStack[i] \in wDone /\ wDone' = wDone \ {wStack[i]}
                                     /\ wCurrent' = IF i = 1 THEN Top ELSE wStack[i - 1]
                                     /\ wWork' = wWork \cup {wCurrent'}
      BY <1>12 DEF WTurn
    <2>2. UNCHANGED <<wManager, wStack, wNew, wRunning, wChild, wMute, wLife>> /\ wManager = "loop" /\ ~wRunning
      BY <1>4, <1>12 DEF WTurn, WTypes
    <2>3. wStack # <<>> /\ wStack[i] \in Stacked /\ wCurrent' \in Stacked
      <3>1. wStack # <<>> /\ Top \in Stacked
        BY <1>4 DEF Top, Stacked
      <3>2. i # 1 => wStack[i - 1] \in Stacked
        BY <1>4 DEF Stacked
      <3>3. QED
        BY <2>1, <3>1, <3>2 DEF Stacked
    <2>4. Holder = wStack[i] /\ Holds(Holder) /\ \A p \in Stacked : p # Holder => Idle(p)
      BY <1>3, <1>4, <2>1, <2>2, <2>3 DEF OneHolds, Idle
    <2>5. Holder' = wCurrent'
      BY <1>4, <2>3 DEF Holder
    <2>6. Holds(Holder)'
      BY <1>4, <2>1, <2>2, <2>3, <2>4, <2>5 DEF Holds, Idle
    <2>7. \A p \in Stacked : p # wCurrent' => Idle(p)'
      BY <2>1, <2>2, <2>4 DEF Holds, Idle
    <2>8. OneHolds'
      BY <1>5, <2>2, <2>5, <2>6, <2>7 DEF OneHolds
    <2>9. EventsFit' /\ ManagerFits'
      <3>1. \A p \in Stacked : wChild[p] # "none"
        BY <1>3, <1>4 DEF EventsFit
      <3>2. EventsFit'
        BY <1>3, <1>4, <1>5, <2>1, <2>2, <2>3, <3>1 DEF EventsFit
      <3>3. ManagerFits'
        BY <1>5, <2>2, <2>3 DEF ManagerFits
      <3>4. QED
        BY <3>2, <3>3
    <2>10. QED
      BY <1>3, <2>2, <2>8, <2>9
  <1>13. CASE WOverflow \/ WCreateFails \/ WKillManager \/ WKillNext
    <2>1. wManager' \in {"crashed", "failed", "killAll", "ended"}
      BY <1>4, <1>13 DEF WOverflow, WCreateFails, WKillManager, WKillNext
    <2>2. QED
      BY <2>1
  <1>14. ASSUME NEW p \in Process, WChildStep(p)
         PROVE  Distinct(wStack') /\ EventsFit' /\ ManagerFits' /\ OneHolds'
    <2>1. UNCHANGED <<wStack, wCurrent, wManager, wNew, wRunning, wLife>>
      BY <1>14 DEF WChildStep, WOpen, WWake, WEndPrinting, WPrinted, WPass, WEndWaiting, wEventVars
    <2>2. Stacked' = Stacked /\ Holder' = Holder
      BY <1>5, <1>6, <2>1
    <2>3. SUFFICES EventsFit' /\ ManagerFits' /\ OneHolds'
      BY <1>3, <2>1
    <2>4. /\ p \in Stacked /\ p # Holder => Idle(p)
          /\ p \in Stacked /\ p = Holder /\ ~wRunning => Holds(p)
          /\ wRunning /\ p \in Stacked => Idle(p)
      BY <1>3, <1>4 DEF OneHolds, Stacked
    <2>5. ASSUME \A r \in Stacked : r # p => (Idle(r) => Idle(r)') /\ (Holds(r) => Holds(r)'),
                 p \in Stacked => (Idle(p) => Idle(p)') /\ (Holds(p) => Holds(p)')
          PROVE  OneHolds'
      <3>1. \A r \in Stacked : (Idle(r) => Idle(r)') /\ (Holds(r) => Holds(r)')
        BY <2>5
      <3>2. wStack # <<>> /\ Holds(Holder) => Holds(Holder)'
        BY <1>4, <2>2, <3>1
      <3>3. QED
        BY <1>3, <1>4, <2>1, <2>2, <3>1, <3>2 DEF OneHolds
    <2>6. CASE WOpen(p)
      <3>1. /\ wChild[p] = "boot" /\ wChild' = [wChild EXCEPT ![p] = "wait"] /\ UNCHANGED <<wMute, wDone, wWork>>
        BY <1>4, <2>6 DEF WOpen
      <3>2. OneHolds'
        BY <1>4, <2>5, <3>1 DEF Holds, Idle
      <3>3. QED
        BY <1>3, <1>4, <2>1, <2>2, <3>1, <3>2 DEF EventsFit, ManagerFits
    <2>7. CASE WWake(p)
      <3>1. /\ wChild[p] = "wait" /\ wChild' = [wChild EXCEPT ![p] = "print"] /\ p \in wWork
            /\ UNCHANGED <<wMute, wDone, wWork>>
        BY <2>7 DEF WWake, wEventVars
      <3>2. OneHolds'
        BY <1>4, <2>5, <3>1 DEF Holds, Idle
      <3>3. QED
        BY <1>3, <1>4, <2>1, <2>2, <3>1, <3>2 DEF EventsFit, ManagerFits
    <2>8. CASE WEndPrinting(p)
      <3>1. /\ wChild[p] = "print" /\ wChild' = [wChild EXCEPT ![p] = "gone"]
            /\ UNCHANGED <<wMute, wDone, wWork>>
        BY <2>8 DEF WEndPrinting, wEventVars
      <3>2. OneHolds'
        BY <1>4, <2>5, <3>1 DEF Holds, Idle
      <3>3. QED
        BY <1>3, <1>4, <2>1, <2>2, <3>1, <3>2 DEF EventsFit, ManagerFits
    <2>9. CASE WPrinted(p)
      <3>1. /\ wChild[p] = "print" /\ wChild' = [wChild EXCEPT ![p] = "pass"]
            /\ wWork' = wWork \ {p} /\ UNCHANGED <<wMute, wDone>>
        BY <2>9 DEF WPrinted
      <3>2. p \in Stacked => p \in wWork
        BY <1>3, <3>1 DEF EventsFit
      <3>3. OneHolds'
        BY <1>4, <2>5, <3>1, <3>2 DEF Holds, Idle
      <3>4. QED
        BY <1>3, <1>4, <2>1, <2>2, <3>1, <3>3 DEF EventsFit, ManagerFits
    <2>10. CASE WPass(p)
      <3>1. /\ wChild[p] = "pass" /\ wChild' = [wChild EXCEPT ![p] = "wait"]
            /\ wDone' = wDone \cup {p} /\ UNCHANGED <<wMute, wWork>>
        BY <1>3, <2>10 DEF WPass, EventsFit
      <3>2. OneHolds'
        BY <1>4, <2>5, <3>1 DEF Holds, Idle
      <3>3. QED
        BY <1>3, <1>4, <2>1, <2>2, <3>1, <3>2 DEF EventsFit, ManagerFits
    <2>11. CASE WEndWaiting(p)
      <3>1. /\ wChild[p] = "wait" /\ wChild' = [wChild EXCEPT ![p] = "gone"] /\ p \in wLife
            /\ wDone' = wDone \cup {p} /\ UNCHANGED <<wMute, wWork>>
        BY <1>3, <2>11 DEF WEndWaiting, EventsFit
      <3>2. p \notin Stacked
        BY <1>3, <3>1 DEF EventsFit
      <3>3. OneHolds'
        BY <1>4, <2>5, <3>1, <3>2 DEF Holds, Idle
      <3>4. QED
        BY <1>3, <1>4, <2>1, <2>2, <3>1, <3>2, <3>3 DEF EventsFit, ManagerFits
    <2>12. QED
      BY <1>14, <2>6, <2>7, <2>8, <2>9, <2>10, <2>11 DEF WChildStep
  <1>15. QED
    BY <1>3, <1>7, <1>8, <1>9, <1>10, <1>11, <1>12, <1>13, <1>14 DEF WNext, WManager

(* Every step on Windows keeps the invariant of that half.                 *)
LEMMA WTurnInvStep == WTurnInv /\ [WNext]_wVars => WTurnInv'
  <1> SUFFICES ASSUME WTurnInv, [WNext]_wVars PROVE WTurnInv'
    OBVIOUS
  <1>1. WTypes'
    BY WTypeStep DEF WTurnInv
  <1>2. CASE WNext
    BY <1>1, <1>2, WTurnStep DEF WTurnInv
  <1>3. CASE UNCHANGED wVars
    BY <1>1, <1>3 DEF WTurnInv, wVars, wEventVars, Distinct, EventsFit, ManagerFits, OneHolds,
                      Holds, Idle, Holder, Stacked
  <1>4. QED
    BY <1>2, <1>3

(* The invariant of the Windows half holds at the start.                   *)
LEMMA WTurnInvInit == WInit => WTurnInv
  <1> SUFFICES ASSUME WInit PROVE WTurnInv
    OBVIOUS
  <1>1. WTypeOK
    <2>1. wStack \in Seq(Process)
      BY DEF WInit
    <2>2. wTyped \in 0 .. MaxTyped
      BY WinBounds DEF WInit
    <2>3. wChild \in [Process -> {"none", "boot", "wait", "print", "pass", "gone"}]
      BY DEF WInit
    <2>4. QED
      BY <2>1, <2>2, <2>3 DEF WInit, WTypeOK
  <1>5. WTypes
    BY <1>1 DEF WInit, WTypes
  <1>2. wManager \notin {"loop", "create", "kill"}
    BY DEF WInit
  <1>3. QED
    BY <1>2, <1>5 DEF WTurnInv

(* The one that has the turn has it in one place.                          *)
LEMMA OneTurnOnWin == WTurnInv => OneTurnWin
  <1> SUFFICES ASSUME WTurnInv, wManager \in {"loop", "create"}, wHist = {}
               PROVE  Cardinality(Turns) = (IF wStack = <<>> THEN 0 ELSE 1)
    BY DEF OneTurnWin
  <1>1. ~wRunning /\ OneHolds /\ ManagerFits /\ wStack \in Seq(Process)
    BY DEF WTurnInv, WTypes, WTypeOK
  <1>2. CASE wStack = <<>>
    <2>1. Stacked = {}
      BY <1>2 DEF Stacked
    <2>2. Turns = {}
      BY <2>1 DEF Turns
    <2>3. QED
      BY <1>2, <2>2, FS_EmptySet
  <1>3. CASE wStack # <<>>
    <2>1. Holder \in Stacked
      <3>1. wStack[1] \in Stacked
        BY <1>1, <1>3 DEF Stacked
      <3>2. QED
        BY <1>1, <3>1 DEF Holder, ManagerFits
    <2>2. Holds(Holder) /\ \A p \in Stacked : p # Holder => Idle(p)
      BY <1>1, <1>3 DEF OneHolds
    <2>3. \E place \in {"work", "done", "pass"} : Turns = {<<Holder, place>>}
      <3>1. CASE Holder \in wWork
        <4>1. Turns = {<<Holder, "work">>}
          BY <2>1, <2>2, <3>1 DEF Turns, Holds, Idle
        <4>2. QED
          BY <4>1
      <3>2. CASE Holder \in wDone
        <4>1. Turns = {<<Holder, "done">>}
          BY <2>1, <2>2, <3>2 DEF Turns, Holds, Idle
        <4>2. QED
          BY <4>1
      <3>3. CASE wChild[Holder] = "pass"
        <4>1. Turns = {<<Holder, "pass">>}
          BY <2>1, <2>2, <3>3 DEF Turns, Holds, Idle
        <4>2. QED
          BY <4>1
      <3>4. QED
        BY <2>2, <3>1, <3>2, <3>3 DEF Holds
    <2>4. QED
      BY <1>3, <2>3, FS_Singleton
  <1>4. QED
    BY <1>2, <1>3

(* childManager.c: there is one turn while there are children.             *)
THEOREM TurnStaysOne == WSpec => []OneTurnWin
  BY WTurnInvInit, WTurnInvStep, OneTurnOnWin, PTL DEF WSpec

-----------------------------------------------------------------------------
(* The program is, seen from the children of one system, that system, and  *)
(* leaves the other alone: what is proved of LSpec and of WSpec holds of   *)
(* Spec.                                                                   *)
THEOREM BuildIsLin == Spec => LSpec
  <1>1. Init => LInit
    BY DEF Init
  <1>2. [Next]_vars => [LNext]_lVars
    <2>1. ASSUME NEW p \in Pid, Lin(LChildStep(p)) PROVE LNext
      BY <2>1 DEF Lin, LNext
    <2>2. ASSUME NEW p \in Process, Win(WChildStep(p)) PROVE UNCHANGED lVars
      BY <2>2 DEF Win
    <2>3. Main => LNext \/ UNCHANGED lVars
      BY DEF Main, initChildrenHandler, initNewChild, killLastChild, test, killChildren, Lin, Win,
             LNext, LKey
    <2>4. Parent \/ Lin(LInterrupt) => LNext \/ UNCHANGED lVars
      BY DEF Parent, Lin, Win, LNext
    <2>5. UNCHANGED vars => UNCHANGED lVars
      BY DEF vars
    <2>6. QED
      BY <2>1, <2>2, <2>3, <2>4, <2>5 DEF Next, ChildOnLin, ChildOnWin
  <1>3. QED
    BY <1>1, <1>2, PTL DEF Spec, LSpec

(* The same for the children on Windows.                                   *)
THEOREM BuildIsWin == Spec => WSpec
  <1>1. Init => WInit
    BY DEF Init
  <1>2. [Next]_vars => [WNext]_wVars
    <2>1. ASSUME NEW p \in Process, Win(WChildStep(p)) PROVE WNext
      BY <2>1 DEF Win, WNext
    <2>2. ASSUME NEW p \in Pid, Lin(LChildStep(p)) PROVE UNCHANGED wVars
      BY <2>2 DEF Lin
    <2>3. Main => WNext \/ UNCHANGED wVars
      BY DEF Main, initChildrenHandler, initNewChild, killLastChild, test, killChildren, Lin, Win,
             WNext, Commands
    <2>4. Parent \/ Lin(LInterrupt) => WNext \/ UNCHANGED wVars
      BY DEF Parent, Lin, Win, WNext
    <2>5. UNCHANGED vars => UNCHANGED wVars
      BY DEF vars
    <2>6. QED
      BY <2>1, <2>2, <2>3, <2>4, <2>5 DEF Next, ChildOnLin, ChildOnWin
  <1>3. QED
    BY <1>1, <1>2, PTL DEF Spec, WSpec

(* What follows for the program.                                           *)
THEOREM ProgramKeepsTurns == Spec => []TurnsAccounted
  BY BuildIsLin, TurnsNeverLost, PTL

(* In the program that is built for Linux the symbol is the name of the    *)
(* youngest child (implementation_lin.c:37-70).                            *)
THEOREM ProgramNamesTop == Spec => []SymbolNamesTop
  BY BuildIsLin, SymbolIsTheYoungest, PTL

(* In the program that is built for Windows there is one turn while there  *)
(* are children (childManager.c).                                          *)
THEOREM ProgramTurnStaysOne == Spec => []OneTurnWin
  BY BuildIsWin, TurnStaysOne, PTL

(* Types of both halves, and that the one that is not built is idle.       *)
THEOREM ProgramTypes == Spec => []TypeOK
  <1> DEFINE Built == (os = "win" => lMain = "off") /\ (os = "lin" => wMain = "off")
  <1>1. Init => Built
    BY DEF Init, LInit, WInit
  <1>2. Built /\ [Next]_vars => Built'
    <2> SUFFICES ASSUME Built, [Next]_vars PROVE Built'
      OBVIOUS
    <2>1. \/ os = "lin" /\ UNCHANGED <<os, wVars>>
          \/ os = "win" /\ UNCHANGED <<os, lVars>>
          \/ UNCHANGED vars
      BY DEF Next, Main, initChildrenHandler, initNewChild, killLastChild, test, killChildren,
             Parent, ChildOnLin, ChildOnWin, Lin, Win
    <2>2. QED
      BY <2>1 DEF vars, lVars, wVars, wMainVars
  <1>3. LSpec => []LTypeOK
    <2>1. TurnInv => LTypeOK
      BY DEF TurnInv
    <2>2. QED
      BY <2>1, TurnInvariant, PTL
  <1>4. WSpec => []WTypeOK
    <2>1. WTurnInv => WTypeOK
      BY DEF WTurnInv, WTypes
    <2>2. QED
      BY <2>1, WTurnInvInit, WTurnInvStep, PTL DEF WSpec
  <1>5. Spec => []Built
    BY <1>1, <1>2, PTL DEF Spec
  <1>6. LTypeOK /\ WTypeOK /\ Built => TypeOK
    BY DEF TypeOK
  <1>7. QED
    BY <1>3, <1>4, <1>5, <1>6, BuildIsLin, BuildIsWin, PTL
=============================================================================
