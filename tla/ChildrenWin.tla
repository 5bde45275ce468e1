----------------------------- MODULE ChildrenWin ----------------------------
(***************************************************************************)
(* lab2 on Windows: main only sets events; a manager process creates and   *)
(* kills the children and passes the turn to print around the stack, from  *)
(* a child to the one below it and from the lowest to the top.  All events *)
(* are reset by hand.  A child has three of them, named after its process  *)
(* identifier: `work' (print now), `done' (printed) and `life' (end).      *)
(*                                                                         *)
(* Assumed: the names of the events of different children differ.  They    *)
(* are the identifier, its double and its triple, and need not.            *)
(***************************************************************************)
EXTENDS Integers, Sequences, FiniteSets

CONSTANTS
  Process,    \* identifiers of child processes
  MaxWait,    \* MAXIMUM_WAIT_OBJECTS, less BASE_HANDLERS_COUNT
  MaxTyped    \* bound on the keys

NONE == "none"
DANGLING == "dangling"  \* the address of an element that was freed

ASSUME WinBounds == MaxWait \in Nat /\ MaxTyped \in Nat
ASSUME ProcessesAreNot == NONE \notin Process /\ DANGLING \notin Process

VARIABLES
  wMain,      \* "off", "keys", "waits" (in killChildren) or "ended"
  wEvents,    \* the commands that are set
  wTyped,     \* bound
  wManager,   \* "loop", "create", "kill", "killAll"; "ended", "failed", "crashed"
  wStack,     \* childStackTop, the top last
  wNew,       \* the child being created or killed
  wRunning,   \* killRunningFlag
  wCurrent,   \* currentWorkingChild
  wChild,     \* "none", "boot", "wait", "print", "pass", "gone"
  wMute,      \* children that did not find `done'
  wWork, wDone, wLife,  \* the children whose events are set
  wHist       \* "raced": a child missed an event, "reused": currentWorkingChild
              \* came to point to a child that has not the turn

wMainVars == <<wMain, wTyped>>
wEventVars == <<wWork, wDone, wLife>>
wVars == <<wMainVars, wEvents, wManager, wStack, wNew, wRunning, wCurrent,
           wChild, wMute, wEventVars, wHist>>

Commands == {"killManager", "createChild", "killChild", "test"}
Top == wStack[Len(wStack)]
WUnused == {p \in Process : wChild[p] = "none"}
Stacked == {wStack[i] : i \in DOMAIN wStack}

-----------------------------------------------------------------------------
(* implementation_win.c *)
WInit ==
  /\ wMain = "off" /\ wEvents = {} /\ wTyped = 0
  /\ wManager = "ended" /\ wStack = <<>> /\ wNew = NONE
  /\ wRunning = FALSE /\ wCurrent = NONE
  /\ wChild = [p \in Process |-> "none"] /\ wMute = {}
  /\ wWork = {} /\ wDone = {} /\ wLife = {}
  /\ wHist = {}

(* initChildrenHandler *)
WStart ==
  /\ wMain = "off"
  /\ wMain' = "keys" /\ wManager' = "loop"
  /\ UNCHANGED <<wTyped, wEvents, wStack, wNew, wRunning, wCurrent, wChild, wMute,
                 wEventVars, wHist>>

(* initNewChild, killLastChild, test and killChildren: setting an event    *)
(* that is still set does nothing.                                         *)
WKey(event) ==
  /\ wMain = "keys" /\ wTyped < MaxTyped
  /\ wTyped' = wTyped + 1
  /\ wEvents' = wEvents \cup {event}
  /\ wMain' = IF event = "killManager" THEN "waits" ELSE "keys"
  /\ UNCHANGED <<wManager, wStack, wNew, wRunning, wCurrent, wChild, wMute,
                 wEventVars, wHist>>

WQuit ==
  /\ wMain = "waits" /\ wManager \in {"ended", "failed", "crashed"}
  /\ wMain' = "ended"
  /\ UNCHANGED <<wTyped, wEvents, wManager, wStack, wNew, wRunning, wCurrent, wChild,
                 wMute, wEventVars, wHist>>

-----------------------------------------------------------------------------
(* childManager.c.  WaitForMultipleObjects returns the first event of its  *)
(* array that is set: the commands in this order, then the children's      *)
(* `done' from the top of the stack down.                                  *)

Overfull == Len(wStack) > MaxWait

Signalled(event) ==
  /\ wManager = "loop" /\ ~Overfull
  /\ event \in wEvents
  /\ CASE event = "killManager" -> TRUE
       [] event = "createChild" -> "killManager" \notin wEvents
       [] event = "killChild" -> wEvents \cap {"killManager", "createChild"} = {}
       [] event = "test" -> wEvents = {"test"}

(* More handles than can be waited for: WAIT_FAILED is taken for the       *)
(* number of a child and the stack is left at its end.                     *)
WOverflow ==
  /\ wManager = "loop" /\ Overfull
  /\ wManager' = "crashed"
  /\ wDone' = wDone \ {Top}
  /\ UNCHANGED <<wMainVars, wEvents, wStack, wNew, wRunning, wCurrent, wChild, wMute,
                 wWork, wLife, wHist>>

(* CreateProcess: which identifier it is makes no difference.              *)
WCreate ==
  /\ Signalled("createChild") /\ WUnused # {}
  /\ wEvents' = wEvents \ {"createChild"}
  /\ wNew' = CHOOSE p \in WUnused : TRUE
  /\ wChild' = [wChild EXCEPT ![wNew'] = "boot"]
  /\ wManager' = "create"
  /\ UNCHANGED <<wMainVars, wStack, wRunning, wCurrent, wMute, wEventVars, wHist>>

WCreateFails ==
  /\ Signalled("createChild")
  /\ wEvents' = wEvents \ {"createChild"}
  /\ wManager' = "failed"
  /\ UNCHANGED <<wMainVars, wStack, wNew, wRunning, wCurrent, wChild, wMute,
                 wEventVars, wHist>>

(* The rest of createProcess and of the case: the events exist from here   *)
(* on.  The new element of the stack may be where a freed one was.         *)
WCreated ==
  /\ wManager = "create"
  /\ wStack' = Append(wStack, wNew)
  /\ wWork' = IF wStack = <<>> THEN wWork \cup {wNew} ELSE wWork
  /\ \/ UNCHANGED <<wCurrent, wHist>>
     \/ /\ wCurrent = DANGLING /\ wCurrent' = wNew
        /\ wHist' = IF wStack = <<>> THEN wHist ELSE wHist \cup {"reused"}
  /\ wNew' = NONE /\ wManager' = "loop"
  /\ UNCHANGED <<wMainVars, wEvents, wRunning, wChild, wMute, wDone, wLife>>

(* zox_pop and the start of killProcess.  The current child is gone with   *)
(* its element if there is none below it to go on.                         *)
KillTop ==
  /\ wNew' = Top
  /\ wLife' = wLife \cup {Top}
  /\ wStack' = SubSeq(wStack, 1, Len(wStack) - 1)

WKill ==
  /\ Signalled("killChild")
  /\ wEvents' = wEvents \ {"killChild"}
  /\ IF wStack = <<>>
     THEN UNCHANGED <<wManager, wNew, wLife, wStack, wRunning, wCurrent>>
     ELSE /\ KillTop
          /\ wManager' = "kill"
          /\ wRunning' = (Top = wCurrent /\ Len(wStack) > 1)
          /\ wCurrent' = IF Top = wCurrent THEN DANGLING ELSE wCurrent
  /\ UNCHANGED <<wMainVars, wChild, wMute, wWork, wDone, wHist>>

\* Not the code: the turn of a killed child is not passed on
KilledForgetsTurn ==
  /\ wManager \in {"kill", "killAll"} /\ wNew # NONE /\ wChild[wNew] = "gone"
  /\ wChild' = [wChild EXCEPT ![wNew] = "none"]
  /\ wMute' = wMute \ {wNew} /\ wLife' = wLife \ {wNew}
  /\ wNew' = NONE
  /\ wManager' = IF wManager = "kill" THEN "loop" ELSE "killAll"
  /\ wWork' = wWork \ {wNew} /\ wDone' = wDone \ {wNew}
  /\ wCurrent' = IF wRunning THEN Top ELSE wCurrent
  /\ wRunning' = FALSE
  /\ UNCHANGED <<wMainVars, wEvents, wStack, wHist>>

(* The process has ended: its handles are closed, which ends its events,   *)
(* and the child below gets its turn if it had it.                         *)
WKilled ==
  /\ wManager \in {"kill", "killAll"} /\ wNew # NONE /\ wChild[wNew] = "gone"
  /\ wChild' = [wChild EXCEPT ![wNew] = "none"]
  /\ wMute' = wMute \ {wNew} /\ wLife' = wLife \ {wNew}
  /\ wNew' = NONE
  /\ wManager' = IF wManager = "kill" THEN "loop" ELSE "killAll"
  /\ IF wRunning
     THEN /\ wCurrent' = Top
          /\ wWork' = (wWork \ {wNew}) \cup {Top}
          /\ wDone' = wDone \ {wNew, Top}
     ELSE wWork' = wWork \ {wNew} /\ wDone' = wDone \ {wNew} /\ UNCHANGED wCurrent
  /\ wRunning' = FALSE
  /\ UNCHANGED <<wMainVars, wEvents, wStack, wHist>>

WTest ==
  /\ Signalled("test")
  /\ wEvents' = wEvents \ {"test"}
  /\ UNCHANGED <<wMainVars, wManager, wStack, wNew, wRunning, wCurrent, wChild, wMute,
                 wEventVars, wHist>>

(* The manager ends with its children; the event stays set.                *)
WKillManager ==
  /\ Signalled("killManager")
  /\ wManager' = "killAll"
  /\ UNCHANGED <<wMainVars, wEvents, wStack, wNew, wRunning, wCurrent, wChild, wMute,
                 wEventVars, wHist>>

WKillNext ==
  /\ wManager = "killAll" /\ wNew = NONE
  /\ IF wStack = <<>>
     THEN wManager' = "ended" /\ UNCHANGED <<wNew, wLife, wStack>>
     ELSE KillTop /\ UNCHANGED wManager
  /\ UNCHANGED <<wMainVars, wEvents, wRunning, wCurrent, wChild, wMute, wWork, wDone, wHist>>

\* Not the code: the turn goes to the top and to the one below it only
TurnNearTop ==
  /\ wManager = "loop" /\ ~Overfull /\ wEvents = {}
  /\ \E i \in DOMAIN wStack :
       /\ wStack[i] \in wDone
       /\ \A j \in i + 1 .. Len(wStack) : wStack[j] \notin wDone
       /\ wDone' = wDone \ {wStack[i]}
       /\ wCurrent' = IF i = Len(wStack) /\ i > 1 THEN wStack[i - 1] ELSE Top
       /\ wWork' = wWork \cup {wCurrent'}
  /\ UNCHANGED <<wMainVars, wEvents, wManager, wStack, wNew, wRunning, wChild, wMute,
                 wLife, wHist>>

(* A child has printed: the turn goes on to the one below it.              *)
WTurn ==
  /\ wManager = "loop" /\ ~Overfull /\ wEvents = {}
  /\ \E i \in DOMAIN wStack :
       /\ wStack[i] \in wDone
       /\ \A j \in i + 1 .. Len(wStack) : wStack[j] \notin wDone
       /\ wDone' = wDone \ {wStack[i]}
       /\ wCurrent' = IF i = 1 THEN Top ELSE wStack[i - 1]
       /\ wWork' = wWork \cup {wCurrent'}
  /\ UNCHANGED <<wMainVars, wEvents, wManager, wStack, wNew, wRunning, wChild, wMute,
                 wLife, wHist>>

-----------------------------------------------------------------------------
(* child_win.c *)

(* The child opens its events by name.  While the manager is still         *)
(* creating them any of them may be missing; without `work' or `life' the  *)
(* wait fails, which the code takes for the end of its life.               *)
WOpen(p) ==
  /\ wChild[p] = "boot"
  /\ \E found \in SUBSET {"work", "done", "life"} :
       /\ wManager # "create" \/ wNew # p => found = {"work", "done", "life"}
       /\ wHist' = IF found = {"work", "done", "life"} THEN wHist ELSE wHist \cup {"raced"}
       /\ IF {"work", "life"} \subseteq found
          THEN /\ wChild' = [wChild EXCEPT ![p] = "wait"]
               /\ wMute' = IF "done" \in found THEN wMute ELSE wMute \cup {p}
               /\ UNCHANGED wDone
          ELSE /\ wChild' = [wChild EXCEPT ![p] = "gone"]
               /\ wDone' = IF "done" \in found THEN wDone \cup {p} ELSE wDone
               /\ UNCHANGED wMute
  /\ UNCHANGED <<wMainVars, wEvents, wManager, wStack, wNew, wRunning, wCurrent,
                 wWork, wLife>>

WWake(p) ==
  /\ wChild[p] = "wait" /\ p \in wWork
  /\ wChild' = [wChild EXCEPT ![p] = "print"]
  /\ UNCHANGED <<wMainVars, wEvents, wManager, wStack, wNew, wRunning, wCurrent, wMute,
                 wEventVars, wHist>>

(* After each letter the child looks whether its life is over.             *)
WEndPrinting(p) ==
  /\ wChild[p] = "print" /\ p \in wLife
  /\ wChild' = [wChild EXCEPT ![p] = "gone"]
  /\ UNCHANGED <<wMainVars, wEvents, wManager, wStack, wNew, wRunning, wCurrent, wMute,
                 wEventVars, wHist>>

(* The look after the last letter, and the reset.                          *)
WPrinted(p) ==
  /\ wChild[p] = "print" /\ p \notin wLife
  /\ wChild' = [wChild EXCEPT ![p] = "pass"]
  /\ wWork' = wWork \ {p}
  /\ UNCHANGED <<wMainVars, wEvents, wManager, wStack, wNew, wRunning, wCurrent, wMute,
                 wDone, wLife, wHist>>

WPass(p) ==
  /\ wChild[p] = "pass"
  /\ wChild' = [wChild EXCEPT ![p] = "wait"]
  /\ wDone' = IF p \in wMute THEN wDone ELSE wDone \cup {p}
  /\ UNCHANGED <<wMainVars, wEvents, wManager, wStack, wNew, wRunning, wCurrent, wMute,
                 wWork, wLife, wHist>>

WEndWaiting(p) ==
  /\ wChild[p] = "wait" /\ p \notin wWork /\ p \in wLife
  /\ wChild' = [wChild EXCEPT ![p] = "gone"]
  /\ wDone' = IF p \in wMute THEN wDone ELSE wDone \cup {p}
  /\ UNCHANGED <<wMainVars, wEvents, wManager, wStack, wNew, wRunning, wCurrent, wMute,
                 wWork, wLife, wHist>>

WManager == WOverflow \/ WCreate \/ WCreateFails \/ WCreated \/ WKill \/ WKilled
              \/ WTest \/ WKillManager \/ WKillNext \/ WTurn

WChildStep(p) == WOpen(p) \/ WWake(p) \/ WEndPrinting(p) \/ WPrinted(p) \/ WPass(p)
                   \/ WEndWaiting(p)

WNext == WStart \/ (\E event \in Commands : WKey(event)) \/ WQuit \/ WManager
           \/ \E p \in Process : WChildStep(p)

WSpec == WInit /\ [][WNext]_wVars

-----------------------------------------------------------------------------
WTypeOK ==
  /\ wMain \in {"off", "keys", "waits", "ended"}
  /\ wEvents \subseteq Commands /\ wTyped \in 0 .. MaxTyped
  /\ wManager \in {"loop", "create", "kill", "killAll", "ended", "failed", "crashed"}
  /\ wStack \in Seq(Process)
  /\ wNew \in Process \cup {NONE} /\ wRunning \in BOOLEAN
  /\ wCurrent \in Process \cup {NONE, DANGLING}
  /\ wChild \in [Process -> {"none", "boot", "wait", "print", "pass", "gone"}]
  /\ wMute \subseteq Process
  /\ wWork \subseteq Process /\ wDone \subseteq Process /\ wLife \subseteq Process
  /\ wHist \subseteq {"raced", "reused"}

(* The children in the stack that have the turn, and where it is.          *)
Turns == {<<p, "work">> : p \in Stacked \cap wWork}
           \cup {<<p, "done">> : p \in Stacked \cap wDone}
           \cup {<<p, "pass">> : p \in {q \in Stacked : wChild[q] = "pass"}}

(* There is one turn while there are children: it is made with the first   *)
(* child, dies with the last, moves on when its holder is killed, wherever *)
(* the holder and the message about it are at that moment, and is neither  *)
(* lost nor doubled - if the children find their events and the dangling    *)
(* currentWorkingChild does not become a new child's element.              *)
(* (childManager.c:46-164, 233-243, child_win.c:28-48)                     *)
OneTurnWin ==
  wManager \in {"loop", "create"} /\ wHist = {} =>
    Cardinality(Turns) = (IF wStack = <<>> THEN 0 ELSE 1)
=============================================================================
