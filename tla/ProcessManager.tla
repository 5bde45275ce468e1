--------------------------- MODULE ProcessManager ---------------------------
(***************************************************************************)
(* The program of lab2: main.c reads keys and calls the functions of       *)
(* interface.h, which the build takes from lin/ or from win/.              *)
(***************************************************************************)
EXTENDS ChildrenLin, ChildrenWin

VARIABLE os     \* of the Makefile: "lin" or "win"

vars == <<os, lVars, wVars>>

Init == os \in {"lin", "win"} /\ LInit /\ WInit

Lin(A) == os = "lin" /\ A /\ UNCHANGED <<os, wVars>>
Win(A) == os = "win" /\ A /\ UNCHANGED <<os, lVars>>

initChildrenHandler == Lin(LStart) \/ Win(WStart)
initNewChild == Lin(LInitNewChild) \/ Lin(LForkFails) \/ Win(WKey("createChild"))
killLastChild == Lin(LKillLastChild) \/ Win(WKey("killChild"))
killChildren == Lin(LKillChildren) \/ Win(WKey("killManager"))
test == Win(WKey("test"))       \* on Linux it prints a line

(* The loop of main.c: '+', '-', 't', 'q'.                                 *)
Main == initChildrenHandler \/ initNewChild \/ killLastChild \/ test \/ killChildren

Parent == Lin(LParent) \/ Win(WManager) \/ Win(WQuit)
ChildOnLin(p) == Lin(LChildStep(p))
ChildOnWin(p) == Win(WChildStep(p))

Next ==
  \/ Main \/ Parent \/ Lin(LInterrupt)
  \/ \E p \in Pid : ChildOnLin(p)
  \/ \E p \in Process : ChildOnWin(p)

(* Every process runs on.  A child whose turn does not come on Linux need  *)
(* not get it: the semaphore may go to others each time.                   *)
Fairness ==
  /\ WF_vars(Parent)
  /\ \A p \in Pid : WF_vars(Lin(LBoot(p) \/ LRelease(p)))
                      /\ WF_vars(Lin(LTerminated(p) \/ LKillHandler(p)))
  /\ WF_vars(\E p \in Pid : Lin(LTake(p)))
  /\ \A p \in Process : WF_vars(ChildOnWin(p))

Spec == Init /\ [][Next]_vars /\ Fairness

-----------------------------------------------------------------------------
(* Types of the two implementations; the one that is not built is idle.    *)
TypeOK ==
  /\ LTypeOK /\ WTypeOK
  /\ os = "win" => lMain = "off"
  /\ os = "lin" => wMain = "off"

(* '-' and 'q' come back: the parent or the manager waits for the process  *)
(* it told to end, and that ends, wherever the signal or the event finds   *)
(* it.  After 'q' no child is left, unless the manager itself failed.      *)
(* (implementation_lin.c:65-91, childManager.c:50-58, 233-243)             *)
KillsReturn ==
  /\ \A p \in Pid : lReap = p ~> lReap # p
  /\ lMain = "quit" ~> lMain = "off" /\ \A p \in Pid : lChild[p] = "none"
  /\ wManager = "kill" ~> wManager # "kill"
  /\ wMain = "waits" ~> /\ wMain = "ended"
                        /\ \/ wManager \in {"failed", "crashed"}
                           \/ \A p \in Process : wChild[p] = "none"

(* Printing goes on: on Linux, where the turn is nobody's, some child that *)
(* waits gets it; on Windows the turn reaches every child in the stack.    *)
(* (child_lin.c:57-64, childManager.c:133-163)                             *)
PrintingGoesOn ==
  /\ (\E p \in Pid : lChild[p] = "wait" /\ p \notin lTerm)
       ~> LPrinting # {} \/ lReap # NOBODY \/ lMain = "off"
  /\ \A p \in Process :
       p \in Stacked /\ wHist = {}
         ~> \/ wChild[p] = "print" \/ p \notin Stacked
            \/ wHist # {} \/ wManager \in {"failed", "crashed"}
=============================================================================
