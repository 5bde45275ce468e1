----------------------------- MODULE MessagerWin ----------------------------
(***************************************************************************)
(* lab3 on Windows: each messenger owns a pipe it writes to and starts a   *)
(* listener, a program of its own, that reads the pipe of the other party. *)
(* Two semaphores of at most one token carry the handshake first and the   *)
(* messages after it; a sender waits until the listener of the other party *)
(* has set the sender's event.                                             *)
(*                                                                         *)
(* The model stops at what the code is not made for: wHist names it.       *)
(***************************************************************************)
EXTENDS Chat, Integers, FiniteSets

VARIABLES
  wMain,      \* "off", "hello", "wait", "event", "spawn", "connect",
              \* "idle" (fgets), "release", "await", "reset"
  wListener,  \* "none", "boot", "open", "wait", "read", "accept"
  wSem,       \* the two semaphores, named after the listener that waits on them
  wPipe,      \* what each party has written and nobody has read
  wEvent,     \* the event each party waits for: "none", "reset", "set"
  wOpened,    \* the listeners whose OpenEvent has found the event
  wStarts,    \* bound
  wHist       \* "deaf", "broken" (history)

wVars == <<wMain, wListener, wSem, wPipe, wEvent, wOpened, wStarts, wHist>>

Talking == {"idle", "release", "await", "reset"}
Peace == \A p \in Party : wSem[p] = 0 /\ wPipe[p] = <<>> /\ ~Unseen(p)
                            /\ wListener[p] # "accept"

-----------------------------------------------------------------------------
WInit ==
  /\ wMain = [p \in Party |-> "off"] /\ wListener = [p \in Party |-> "none"]
  /\ wSem = [p \in Party |-> 0] /\ wPipe = Nothing
  /\ wEvent = [p \in Party |-> "none"] /\ wOpened = {}
  /\ wStarts = [p \in Party |-> 0]
  /\ wHist = {}

(* initialize.  A party that comes back while the other one believes to be *)
(* connected is not expected by the code.                                  *)
WInitialize(p) ==
  /\ wMain[p] = "off" /\ wStarts[p] < MaxStarts
  /\ wStarts' = [wStarts EXCEPT ![p] = @ + 1]
  /\ wMain' = [wMain EXCEPT ![p] = "hello"]
  /\ wHist' = IF wMain[Other(p)] \in {"off", "hello", "wait"} THEN wHist
              ELSE wHist \cup {"broken"}
  /\ IF wMain[Other(p)] = "off" THEN Again ELSE UNCHANGED chatVars
  /\ UNCHANGED <<wListener, wSem, wPipe, wEvent, wOpened>>

(* establishConnection, to the end of initialize.  ReleaseSemaphore fails  *)
(* beyond the one token.                                                   *)
Released(q) == wSem' = [wSem EXCEPT ![q] = 1]

WRelease(p) ==
  /\ wMain[p] = "hello"
  /\ Released(Other(p))
  /\ wMain' = [wMain EXCEPT ![p] = "wait"]
  /\ UNCHANGED <<wListener, wPipe, wEvent, wOpened, wStarts, wHist, chatVars>>

WTake(p) ==
  /\ wMain[p] = "wait" /\ wSem[p] = 1
  /\ wSem' = [wSem EXCEPT ![p] = 0]
  /\ wMain' = [wMain EXCEPT ![p] = "event"]
  /\ UNCHANGED <<wListener, wPipe, wEvent, wOpened, wStarts, wHist, chatVars>>

WCreateEvent(p) ==
  /\ wMain[p] = "event"
  /\ wEvent' = [wEvent EXCEPT ![p] = IF @ = "none" THEN "reset" ELSE @]
  /\ wMain' = [wMain EXCEPT ![p] = "spawn"]
  /\ UNCHANGED <<wListener, wSem, wPipe, wOpened, wStarts, wHist, chatVars>>

(* CreateProcess, which may fail.                                          *)
WSpawn(p) ==
  /\ wMain[p] = "spawn"
  /\ \/ /\ wMain' = [wMain EXCEPT ![p] = "connect"]
        /\ wListener' = [wListener EXCEPT ![p] = "boot"]
        /\ UNCHANGED wHist
     \/ /\ wMain' = [wMain EXCEPT ![p] = "off"]
        /\ wHist' = wHist \cup {"broken"}
        /\ UNCHANGED wListener
  /\ UNCHANGED <<wSem, wPipe, wEvent, wOpened, wStarts, chatVars>>

\* Not the code: no wait for the other listener
ConnectsAtOnce(p) ==
  /\ wMain[p] = "connect"
  /\ wMain' = [wMain EXCEPT ![p] = "idle"]
  /\ UNCHANGED <<wListener, wSem, wPipe, wEvent, wOpened, wStarts, wHist, chatVars>>

(* ConnectNamedPipe: until the other listener has opened the pipe.         *)
WConnect(p) ==
  /\ wMain[p] = "connect" /\ wListener[Other(p)] \notin {"none", "boot", "open"}
  /\ wMain' = [wMain EXCEPT ![p] = "idle"]
  /\ UNCHANGED <<wListener, wSem, wPipe, wEvent, wOpened, wStarts, wHist, chatVars>>

-----------------------------------------------------------------------------
(* sendMessage: write, release, wait for the event and reset it.  Nobody   *)
(* answers a party whose partner is gone.                                  *)
WWrite(p) ==
  /\ wMain[p] = "idle" /\ Len(sent[p]) < MaxSends
  /\ \E m \in Text : /\ wPipe' = [wPipe EXCEPT ![p] = Append(@, m)]
                     /\ sent' = [sent EXCEPT ![p] = Append(@, m)]
  /\ wMain' = [wMain EXCEPT ![p] = "release"]
  /\ wHist' = IF wMain[Other(p)] = "off" THEN wHist \cup {"broken"} ELSE wHist
  /\ UNCHANGED <<wListener, wSem, wEvent, wOpened, wStarts, shown>>

WPost(p) ==
  /\ wMain[p] = "release"
  /\ Released(Other(p))
  /\ wMain' = [wMain EXCEPT ![p] = "await"]
  /\ UNCHANGED <<wListener, wPipe, wEvent, wOpened, wStarts, wHist, chatVars>>

WAccepted(p) ==
  /\ wMain[p] = "await" /\ wEvent[p] = "set"
  /\ wMain' = [wMain EXCEPT ![p] = "reset"]
  /\ UNCHANGED <<wListener, wSem, wPipe, wEvent, wOpened, wStarts, wHist, chatVars>>

\* Not the code: the event is not reset
ResetForgotten(p) ==
  /\ wMain[p] = "reset"
  /\ wMain' = [wMain EXCEPT ![p] = "idle"]
  /\ UNCHANGED <<wListener, wSem, wPipe, wEvent, wOpened, wStarts, wHist, chatVars>>

WReset(p) ==
  /\ wMain[p] = "reset"
  /\ wEvent' = [wEvent EXCEPT ![p] = "reset"]
  /\ wMain' = [wMain EXCEPT ![p] = "idle"]
  /\ UNCHANGED <<wListener, wSem, wPipe, wOpened, wStarts, wHist, chatVars>>

-----------------------------------------------------------------------------
(* messageListener.c.  A listener that comes before the other party has    *)
(* made its event holds NULL and never answers.                            *)
WOpenEvent(p) ==
  /\ wListener[p] = "boot"
  /\ wListener' = [wListener EXCEPT ![p] = "open"]
  /\ IF wEvent[Other(p)] = "none"
       THEN wHist' = wHist \cup {"deaf"} /\ UNCHANGED wOpened
       ELSE wOpened' = wOpened \cup {p} /\ UNCHANGED wHist
  /\ UNCHANGED <<wMain, wSem, wPipe, wEvent, wStarts, chatVars>>

(* CreateFile: it ends, with exit code 2, when the pipe is gone.           *)
WOpenPipe(p) ==
  /\ wListener[p] = "open"
  /\ IF wMain[Other(p)] = "off"
       THEN wListener' = [wListener EXCEPT ![p] = "none"] /\ wHist' = wHist \cup {"broken"}
       ELSE wListener' = [wListener EXCEPT ![p] = "wait"] /\ UNCHANGED wHist
  /\ UNCHANGED <<wMain, wSem, wPipe, wEvent, wOpened, wStarts, chatVars>>

WListen(p) ==
  /\ wListener[p] = "wait" /\ wSem[p] = 1
  /\ wSem' = [wSem EXCEPT ![p] = 0]
  /\ wListener' = [wListener EXCEPT ![p] = "read"]
  /\ UNCHANGED <<wMain, wPipe, wEvent, wOpened, wStarts, wHist, chatVars>>

(* ReadFile waits for a message; from a pipe that is gone it returns with  *)
(* nothing, and the uninitialised buffer is printed.                       *)
WRead(p) ==
  /\ wListener[p] = "read"
  /\ \/ /\ wPipe[Other(p)] # <<>>
        /\ shown' = [shown EXCEPT ![p] = Append(@, Head(wPipe[Other(p)]))]
        /\ wPipe' = [wPipe EXCEPT ![Other(p)] = Tail(@)]
        /\ UNCHANGED wHist
     \/ /\ wPipe[Other(p)] = <<>> /\ wMain[Other(p)] = "off"
        /\ wHist' = wHist \cup {"broken"}
        /\ UNCHANGED <<wPipe, shown>>
  /\ wListener' = [wListener EXCEPT ![p] = "accept"]
  /\ UNCHANGED <<wMain, wSem, wEvent, wOpened, wStarts, sent>>

(* SetEvent                                                                *)
WAccept(p) ==
  /\ wListener[p] = "accept"
  /\ wEvent' = IF p \in wOpened THEN [wEvent EXCEPT ![Other(p)] = "set"] ELSE wEvent
  /\ wListener' = [wListener EXCEPT ![p] = "wait"]
  /\ UNCHANGED <<wMain, wSem, wPipe, wOpened, wStarts, wHist, chatVars>>

-----------------------------------------------------------------------------
(* Ctrl-C: the pipe goes with what is in it, the listener with its party,  *)
(* an event with the last that holds it, the semaphores with the last of   *)
(* the four processes.                                                     *)
WInterrupt(p) ==
  /\ wMain[p] # "off"
  /\ wMain' = [wMain EXCEPT ![p] = "off"]
  /\ wListener' = [wListener EXCEPT ![p] = "none"]
  /\ wPipe' = [wPipe EXCEPT ![p] = <<>>]
  /\ wOpened' = wOpened \ {p}
  /\ wEvent' = [q \in Party |->
                  IF wMain'[q] # "off" \/ Other(q) \in wOpened' THEN wEvent[q] ELSE "none"]
  /\ wSem' = IF wMain[Other(p)] = "off" THEN [q \in Party |-> 0] ELSE wSem
  /\ wHist' = IF Peace /\ wMain[Other(p)] \in {"off", "idle"} THEN wHist
              ELSE wHist \cup {"broken"}
  /\ UNCHANGED <<wStarts, chatVars>>

WRuns(p) ==
  \/ WRelease(p) \/ WTake(p) \/ WCreateEvent(p) \/ WSpawn(p) \/ WConnect(p)
  \/ WPost(p) \/ WAccepted(p) \/ WReset(p)
WListens(p) == WOpenEvent(p) \/ WOpenPipe(p) \/ WListen(p) \/ WRead(p) \/ WAccept(p)
WUser(p) == WInitialize(p) \/ WWrite(p) \/ WInterrupt(p)

WNext == wHist = {} /\ \E p \in Party : WUser(p) \/ WRuns(p) \/ WListens(p)

WSpec == WInit /\ CInit /\ [][WNext]_<<wVars, chatVars>>

-----------------------------------------------------------------------------
WTypeOK ==
  /\ wMain \in [Party -> {"off", "hello", "wait", "event", "spawn", "connect"} \cup Talking]
  /\ wListener \in [Party -> {"none", "boot", "open", "wait", "read", "accept"}]
  /\ wSem \in [Party -> 0 .. 1]
  /\ \A p \in Party : Len(wPipe[p]) < 2 /\ \A i \in DOMAIN wPipe[p] : wPipe[p][i] \in Text
  /\ wEvent \in [Party -> {"none", "reset", "set"}]
  /\ wOpened \subseteq Party
  /\ wStarts \in [Party -> 0 .. MaxStarts]
  /\ wHist \subseteq {"deaf", "broken"}

(* A party that awaits an answer has one under way: its message, or the    *)
(* token for it, or the answer itself; and nobody else has any.            *)
(* (messager_win.c:75-87, messageListener.c:61-73)                         *)
OneAnswerUnderWay ==
  wHist = {} => \A p \in {q \in Party : wMain[q] # "off"} :
    Cardinality({i \in 1 .. 4 :
      \/ i = 1 /\ wMain[p] \in Talking /\ wSem[Other(p)] = 1
      \/ i = 2 /\ wListener[Other(p)] = "read"
      \/ i = 3 /\ wListener[Other(p)] = "accept"
      \/ i = 4 /\ wEvent[p] = "set"})
      = (IF wMain[p] \in {"await", "reset"} THEN 1 ELSE 0)
=============================================================================
