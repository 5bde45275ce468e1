----------------------------- MODULE ChildrenLin ----------------------------
(***************************************************************************)
(* lab2 on Linux: the parent keeps a stack of child processes; a child     *)
(* prints its line while it has the semaphore.  '-' sends SIGTERM to the   *)
(* youngest child and waits for it.  The child's handler gives the         *)
(* semaphore back if it believes that it was killed while printing, which  *)
(* it reads off errno - and errno is still 0 when a signal interrupts      *)
(* semop, because the library sets it after the handler has returned.      *)
(*                                                                         *)
(* Assumed: standard output is a terminal (printf leaves errno alone) and  *)
(* nobody stops and continues the processes.  Names are numbers, 1 is 'a'. *)
(***************************************************************************)
EXTENDS Integers, Sequences, FiniteSets

CONSTANTS
  Pid,          \* process identifiers
  LastLetter,   \* 'z'
  MaxKills      \* bound on the kills of a session

NOBODY == "nobody"
REMOVED == -1   \* the semaphore after IPC_RMID

ASSUME PidsAreNobodys == NOBODY \notin Pid /\ IsFiniteSet(Pid)
ASSUME LinBounds == LastLetter \in Nat \ {0} /\ MaxKills \in Nat

VARIABLES
  lMain,      \* "off", "keys" (reads them), "kill" or "quit" (in killChildren)
  lStack,     \* childStackTop, the top last
  lSymbol,    \* newProcessSymbol
  lReap,      \* the child waitpid waits for
  lSem,       \* the semaphore
  lChild,     \* "none", "boot", "wait" (for its turn), "print", "gone"
  lTerm,      \* children with SIGTERM pending
  lKills,     \* the children killed in this session (bound)
  lSpurious,  \* those that gave back what they did not have (history)
  lHist       \* "slipped": the symbol was counted down below 'a' (history)

lVars == <<lMain, lStack, lSymbol, lReap, lSem, lChild, lTerm, lKills, lSpurious, lHist>>

-----------------------------------------------------------------------------
LInit ==
  /\ lMain = "off" /\ lStack = <<>> /\ lSymbol = 0 /\ lReap = NOBODY
  /\ lSem = REMOVED
  /\ lChild = [p \in Pid |-> "none"] /\ lTerm = {}
  /\ lKills = 0 /\ lSpurious = 0 /\ lHist = {}

(* initChildrenHandler, in a new process.                                  *)
LStart ==
  /\ lMain = "off"
  /\ lMain' = "keys"
  /\ lSem' = 1
  /\ lStack' = <<>> /\ lSymbol' = 0
  /\ lKills' = 0 /\ lSpurious' = 0 /\ lHist' = {}
  /\ UNCHANGED <<lReap, lChild, lTerm>>

NextSymbol == IF lSymbol + 1 > LastLetter THEN 1 ELSE lSymbol + 1

(* What fork returns: which identifier it is makes no difference.          *)
LUnused == {p \in Pid : lChild[p] = "none"}
LNewPid == CHOOSE p \in LUnused : TRUE

(* createProcess and zox_push.                                             *)
LInitNewChild ==
  /\ lMain = "keys" /\ LUnused # {}
  /\ lSymbol' = NextSymbol
  /\ lChild' = [lChild EXCEPT ![LNewPid] = "boot"]
  /\ lStack' = Append(lStack, [pid |-> LNewPid, name |-> NextSymbol])
  /\ UNCHANGED <<lMain, lReap, lSem, lTerm, lKills, lSpurious, lHist>>

LForkFails ==
  /\ lMain = "keys"
  /\ lSymbol' = NextSymbol
  /\ lMain' = "quit"
  /\ UNCHANGED <<lStack, lReap, lSem, lChild, lTerm, lKills, lSpurious, lHist>>

LKillLastChild ==
  /\ lMain = "keys" /\ lStack # <<>> /\ lKills < MaxKills
  /\ lMain' = "kill"
  /\ UNCHANGED <<lStack, lSymbol, lReap, lSem, lChild, lTerm, lKills, lSpurious, lHist>>

LKillChildren ==
  /\ lMain = "keys"
  /\ lMain' = "quit"
  /\ UNCHANGED <<lStack, lSymbol, lReap, lSem, lChild, lTerm, lKills, lSpurious, lHist>>

(* zox_pop and the first line of killProcess, for '-' and 'q'.             *)
LSignal ==
  /\ lMain \in {"kill", "quit"} /\ lReap = NOBODY /\ lStack # <<>>
  /\ lReap' = lStack[Len(lStack)].pid
  /\ lTerm' = lTerm \cup {lReap'}
  /\ lStack' = SubSeq(lStack, 1, Len(lStack) - 1)
  /\ UNCHANGED <<lMain, lSymbol, lSem, lChild, lKills, lSpurious, lHist>>

\* Not the code: the symbol is left as it is
ReapedKeepsSymbol ==
  /\ lReap # NOBODY /\ lChild[lReap] = "gone"
  /\ lChild' = [lChild EXCEPT ![lReap] = "none"]
  /\ lTerm' = lTerm \ {lReap}
  /\ lReap' = NOBODY
  /\ lMain' = IF lMain = "kill" THEN "keys" ELSE lMain
  /\ lKills' = IF lMain = "kill" THEN lKills + 1 ELSE lKills
  /\ UNCHANGED <<lSymbol, lStack, lSem, lSpurious, lHist>>

(* waitpid returns.                                                        *)
LReaped ==
  /\ lReap # NOBODY /\ lChild[lReap] = "gone"
  /\ lChild' = [lChild EXCEPT ![lReap] = "none"]
  /\ lTerm' = lTerm \ {lReap}
  /\ lReap' = NOBODY
  /\ lSymbol' = lSymbol - 1
  /\ lHist' = IF lSymbol = 1 /\ lStack # <<>> THEN {"slipped"} ELSE lHist
  /\ lMain' = IF lMain = "kill" THEN "keys" ELSE lMain
  /\ lKills' = IF lMain = "kill" THEN lKills + 1 ELSE lKills
  /\ UNCHANGED <<lStack, lSem, lSpurious>>

(* The end of killChildren, and of main.                                   *)
LRemove ==
  /\ lMain = "quit" /\ lReap = NOBODY /\ lStack = <<>>
  /\ lSem' = REMOVED
  /\ lMain' = "off"
  /\ UNCHANGED <<lStack, lSymbol, lReap, lChild, lTerm, lKills, lSpurious, lHist>>

(* Ctrl-C at the terminal ends all the processes of the group; the         *)
(* semaphore stays behind as it is.                                        *)
LInterrupt ==
  /\ lMain # "off"
  /\ lMain' = "off" /\ lReap' = NOBODY
  /\ lChild' = [p \in Pid |-> "none"] /\ lTerm' = {}
  /\ UNCHANGED <<lStack, lSymbol, lSem, lKills, lSpurious, lHist>>

-----------------------------------------------------------------------------
(* child_lin.c *)

(* exec, semget, sigaction.                                                *)
LBoot(p) ==
  /\ lChild[p] = "boot"
  /\ lChild' = [lChild EXCEPT ![p] = "wait"]
  /\ UNCHANGED <<lMain, lStack, lSymbol, lReap, lSem, lTerm, lKills, lSpurious, lHist>>

\* Not the code: the value of the semaphore is not waited for
TakeAtOnce(p) ==
  /\ lChild[p] = "wait"
  /\ lSem' = lSem - 1
  /\ lChild' = [lChild EXCEPT ![p] = "print"]
  /\ UNCHANGED <<lMain, lStack, lSymbol, lReap, lTerm, lKills, lSpurious, lHist>>

LTake(p) ==
  /\ lChild[p] = "wait" /\ lSem > 0
  /\ lSem' = lSem - 1
  /\ lChild' = [lChild EXCEPT ![p] = "print"]
  /\ UNCHANGED <<lMain, lStack, lSymbol, lReap, lTerm, lKills, lSpurious, lHist>>

LRelease(p) ==
  /\ lChild[p] = "print"
  /\ lSem' = lSem + 1
  /\ lChild' = [lChild EXCEPT ![p] = "wait"]
  /\ UNCHANGED <<lMain, lStack, lSymbol, lReap, lTerm, lKills, lSpurious, lHist>>

(* SIGTERM before there is a handler for it.                               *)
LTerminated(p) ==
  /\ p \in lTerm /\ lChild[p] = "boot"
  /\ lChild' = [lChild EXCEPT ![p] = "gone"]
  /\ UNCHANGED <<lMain, lStack, lSymbol, lReap, lSem, lTerm, lKills, lSpurious, lHist>>

\* Not the code: a killed child keeps the semaphore
HandlerKeeps(p) ==
  /\ p \in lTerm /\ lChild[p] \in {"wait", "print"}
  /\ lSpurious' = IF lChild[p] = "wait" THEN lSpurious + 1 ELSE lSpurious
  /\ lSem' = IF lChild[p] = "wait" THEN lSem + 1 ELSE lSem
  /\ lChild' = [lChild EXCEPT ![p] = "gone"]
  /\ UNCHANGED <<lMain, lStack, lSymbol, lReap, lTerm, lKills, lHist>>

\* Not the code: the handler returns instead of leaving the process
HandlerReturns(p) ==
  /\ p \in lTerm /\ lChild[p] \in {"wait", "print"}
  /\ lSem' = lSem + 1
  /\ lSpurious' = IF lChild[p] = "wait" THEN lSpurious + 1 ELSE lSpurious
  /\ lTerm' = lTerm \ {p}
  /\ UNCHANGED <<lMain, lStack, lSymbol, lReap, lChild, lKills, lHist>>

(* killHandler: errno is 0 wherever the signal arrives.                    *)
LKillHandler(p) ==
  /\ p \in lTerm /\ lChild[p] \in {"wait", "print"}
  /\ lSem' = lSem + 1
  /\ lSpurious' = IF lChild[p] = "wait" THEN lSpurious + 1 ELSE lSpurious
  /\ lChild' = [lChild EXCEPT ![p] = "gone"]
  /\ UNCHANGED <<lMain, lStack, lSymbol, lReap, lTerm, lKills, lHist>>

LParent == LSignal \/ LReaped \/ LRemove

LChildStep(p) == LBoot(p) \/ LTake(p) \/ LRelease(p) \/ LTerminated(p) \/ LKillHandler(p)

LKey == LInitNewChild \/ LForkFails \/ LKillLastChild \/ LKillChildren

LNext == LStart \/ LKey \/ LParent \/ LInterrupt \/ \E p \in Pid : LChildStep(p)

LSpec == LInit /\ [][LNext]_lVars

-----------------------------------------------------------------------------
LPrinting == {p \in Pid : lChild[p] = "print"}
LInStack == {lStack[i].pid : i \in DOMAIN lStack}

LTypeOK ==
  /\ lMain \in {"off", "keys", "kill", "quit"}
  /\ lStack \in Seq([pid : Pid, name : Int])
  /\ lSymbol \in Int
  /\ lReap \in Pid \cup {NOBODY}
  /\ lSem \in Nat \cup {REMOVED}
  /\ lChild \in [Pid -> {"none", "boot", "wait", "print", "gone"}]
  /\ lTerm \subseteq Pid
  /\ lKills \in Nat /\ lSpurious \in Nat /\ lHist \subseteq {"slipped"}

(* The turn is never lost with a killed child, whenever the signal comes,  *)
(* nor with an interrupted session; and only a child killed while it       *)
(* waited makes one turn too many.  With none such, one child prints at a  *)
(* time.  (child_lin.c:18-30, 57-64, implementation_lin.c:25-35)           *)
TurnsAccounted == lMain # "off" => lSem + Cardinality(LPrinting) = 1 + lSpurious

(* The symbol counted up by createProcess and down by killProcess is the   *)
(* name of the youngest child, so that the next one continues the          *)
(* alphabet - until a child called 'a' that is not the first is killed.    *)
SymbolNamesTop ==
  lMain # "off" /\ lReap = NOBODY /\ lHist = {} =>
    \/ lSymbol = IF lStack = <<>> THEN 0 ELSE lStack[Len(lStack)].name
    \/ lMain = "quit"
=============================================================================
