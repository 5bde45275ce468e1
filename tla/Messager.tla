------------------------------ MODULE Messager ------------------------------
(***************************************************************************)
(* The program of lab3: main of messager.c, run once as the first party    *)
(* and once, with -s, as the second, over the three functions of           *)
(* messager.h that the build takes from lin/ or from win/.                 *)
(***************************************************************************)
EXTENDS MessagerLin, MessagerWin

VARIABLE os     \* of the Makefile: "lin" or "win"

vars == <<os, lVars, wVars, chatVars>>

Init == os \in {"lin", "win"} /\ LInit /\ WInit /\ CInit

Lin(A) == os = "lin" /\ lHist = {} /\ A /\ UNCHANGED <<os, wVars>>
Win(A) == os = "win" /\ wHist = {} /\ A /\ UNCHANGED <<os, lVars>>

initialize(p) == Lin(LInitialize(p)) \/ Win(WInitialize(p))

establishConnection(p) ==
  \/ Lin(LRelease(p) \/ LTake(p) \/ LFork(p) \/ LForkFails(p))
  \/ Win(WRelease(p) \/ WTake(p) \/ WCreateEvent(p) \/ WSpawn(p) \/ WConnect(p))

sendMessage(p) ==
  \/ Lin(LCopy(p) \/ LCopied(p) \/ LPost(p))
  \/ Win(WWrite(p) \/ WPost(p) \/ WAccepted(p) \/ WReset(p))

Main(p) == initialize(p) \/ establishConnection(p) \/ sendMessage(p)
Receiver(p) == Lin(LReceives(p)) \/ Win(WListens(p))
ctrlCHandler(p) == Lin(LInterrupt(p)) \/ Win(WInterrupt(p))

Next == \E p \in Party : Main(p) \/ Receiver(p) \/ ctrlCHandler(p)

(* Every process runs on.  Nobody has to start the program or to type.     *)
Fairness ==
  \A p \in Party : /\ WF_vars(Lin(LRuns(p)) \/ Win(WRuns(p)))
                   /\ WF_vars(Receiver(p))

Spec == Init /\ [][Next]_vars /\ Fairness

Hazard == lHist \cup wHist

-----------------------------------------------------------------------------
(* Types of the two implementations; the one that is not built is idle.    *)
TypeOK ==
  /\ LTypeOK /\ WTypeOK
  /\ \A p \in Party : (os = "win" => lMain[p] = "off") /\ (os = "lin" => wMain[p] = "off")

(* A token is a message, and a message is a token, on the way: the         *)
(* handshake leaves none behind, none is lost or made, and on Windows the  *)
(* sender that awaits an answer has one under way.                         *)
(* (messager_lin.c:56-103, messager_win.c:30-87, messageListener.c:61-73)  *)
TokensAccounted == TokensAreMessages /\ OneAnswerUnderWay

(* What is printed is what the other party typed next, on both systems,    *)
(* until something happens that the code is not made for: neither the      *)
(* handshake nor a conversation before leaves a token or a message behind. *)
(* (messager_lin.c:41-103, messager_win.c:30-87, messageListener.c:61-73)  *)
ImplementsChat == [][Hazard' = {} => CNext]_chatVars

(* Two parties that wait for each other are connected, what was typed is   *)
(* printed, and on Windows the sender gets its answer, unless somebody     *)
(* quits or one of the hazards comes in between.                           *)
(* (messager_lin.c:56-70, messager_win.c:30-87)                            *)
ChatGoesOn ==
  /\ (\A p \in Party : lMain[p] = "wait")
       ~> \/ Hazard # {} \/ \E p \in Party : lMain[p] = "off"
          \/ \A p \in Party : lReceiver[p] # "none"
  /\ (\A p \in Party : wMain[p] = "wait")
       ~> \/ Hazard # {} \/ \E p \in Party : wMain[p] = "off"
          \/ \A p \in Party : wMain[p] \in Talking
  /\ \A p \in Party :
       /\ Unseen(p) ~> Hazard # {} \/ ~Unseen(p)
       /\ wMain[p] = "await" ~> Hazard # {} \/ wMain[p] # "await"
=============================================================================
