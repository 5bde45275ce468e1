----------------------------- MODULE MessagerLin ----------------------------
(***************************************************************************)
(* lab3 on Linux: two messengers, each with a receiver process, one buffer *)
(* in shared memory for both directions, and two semaphores.  A semaphore  *)
(* means both "the other party is there" and "there is a message": the     *)
(* party that waits for the first and the receiver that waits for the      *)
(* second may wait on the same one.                                        *)
(*                                                                         *)
(* The semaphores outlive the processes: the call that should remove them  *)
(* does nothing (messager_lin.c:32).  The shared memory is removed by the  *)
(* first party, if its handler comes so far before its receiver, which     *)
(* inherits the handler, has ended the whole process group.                *)
(*                                                                         *)
(* The model stops at what the code is not made for: lHist names it.       *)
(***************************************************************************)
EXTENDS Chat, Integers

TORN == "torn"      \* a message that is being copied
VOID == "void"      \* the bytes of new shared memory

ASSUME TextIsText == TORN \notin Text /\ VOID \notin Text

VARIABLES
  lMain,      \* "off", "hello", "wait", "fork", "idle" (fgets), "copy", "post"
  lReceiver,  \* "none", "wait", "print"
  lSem,       \* the two semaphores, named after the receiver that waits on them
  lSegment,   \* the shared memory the key stands for, 0: none
  lAttached,  \* the shared memory of each party
  lBuffer,    \* its contents
  lMessage,   \* what each party has typed last
  lStarts,    \* bound
  lHist       \* "stolen", "rushed", "broken" (history)

lVars == <<lMain, lReceiver, lSem, lSegment, lAttached, lBuffer, lMessage, lStarts, lHist>>

Segment == 1 .. 2
Connected(p) == lMain[p] \in {"fork", "idle", "copy", "post"}
Quiet == \A p \in Party : lSem[p] = 0 /\ ~Unseen(p) /\ lReceiver[p] # "print"

-----------------------------------------------------------------------------
LInit ==
  /\ lMain = [p \in Party |-> "off"] /\ lReceiver = [p \in Party |-> "none"]
  /\ lSem = [p \in Party |-> 0]
  /\ lSegment = 0 /\ lAttached = [p \in Party |-> 0]
  /\ lBuffer = [s \in Segment |-> VOID]
  /\ lMessage = [p \in Party |-> VOID]
  /\ lStarts = [p \in Party |-> 0]
  /\ lHist = {}

Unused == CHOOSE s \in Segment : s # lSegment /\ \A p \in Party : s # lAttached[p]

(* Removed shared memory goes with the last process that is attached.      *)
Kept == [s \in Segment |->
           IF s = lSegment' \/ \E p \in Party : s = lAttached'[p] THEN lBuffer[s] ELSE VOID]

(* initialize.  A party that comes back while the other one believes to be *)
(* connected is not expected by the code.                                  *)
LInitialize(p) ==
  /\ lMain[p] = "off" /\ lStarts[p] < MaxStarts
  /\ lStarts' = [lStarts EXCEPT ![p] = @ + 1]
  /\ lMain' = [lMain EXCEPT ![p] = "hello"]
  /\ lSegment' = IF lSegment = 0 THEN Unused ELSE lSegment
  /\ lBuffer' = IF lSegment = 0 THEN [lBuffer EXCEPT ![Unused] = VOID] ELSE lBuffer
  /\ lAttached' = [lAttached EXCEPT ![p] = lSegment']
  /\ lHist' = IF Connected(Other(p)) THEN lHist \cup {"broken"} ELSE lHist
  /\ IF lMain[Other(p)] = "off" THEN Again ELSE UNCHANGED chatVars
  /\ UNCHANGED <<lReceiver, lSem, lMessage>>

(* establishConnection: release the semaphore of one's own receiver, take  *)
(* the other one, fork the receiver.                                       *)
LRelease(p) ==
  /\ lMain[p] = "hello"
  /\ lMain' = [lMain EXCEPT ![p] = "wait"]
  /\ lSem' = [lSem EXCEPT ![p] = @ + 1]
  /\ UNCHANGED <<lReceiver, lSegment, lAttached, lBuffer, lMessage, lStarts, lHist, chatVars>>

\* Not the code: the token is seen and left
TakeLeavesToken(p) ==
  /\ lMain[p] = "wait" /\ lSem[Other(p)] > 0
  /\ lMain' = [lMain EXCEPT ![p] = "fork"]
  /\ UNCHANGED <<lReceiver, lSem, lSegment, lAttached, lBuffer, lMessage, lStarts, lHist, chatVars>>

LTake(p) ==
  /\ lMain[p] = "wait" /\ lSem[Other(p)] > 0
  /\ lMain' = [lMain EXCEPT ![p] = "fork"]
  /\ lSem' = [lSem EXCEPT ![Other(p)] = @ - 1]
  /\ UNCHANGED <<lReceiver, lSegment, lAttached, lBuffer, lMessage, lStarts, lHist, chatVars>>

LFork(p) ==
  /\ lMain[p] = "fork"
  /\ lMain' = [lMain EXCEPT ![p] = "idle"]
  /\ lReceiver' = [lReceiver EXCEPT ![p] = "wait"]
  /\ UNCHANGED <<lSem, lSegment, lAttached, lBuffer, lMessage, lStarts, lHist, chatVars>>

(* No receiver: the first party removes the shared memory.                 *)
LForkFails(p) ==
  /\ lMain[p] = "fork"
  /\ lMain' = [lMain EXCEPT ![p] = "off"]
  /\ lAttached' = [lAttached EXCEPT ![p] = 0]
  /\ lSegment' = IF p = "first" THEN 0 ELSE lSegment
  /\ lBuffer' = Kept
  /\ lHist' = lHist \cup {"broken"}
  /\ UNCHANGED <<lReceiver, lSem, lMessage, lStarts, chatVars>>

(* sendMessage: strcpy begins and ends, then the other receiver is woken.  *)
LCopy(p) ==
  /\ lMain[p] = "idle" /\ Len(sent[p]) < MaxSends
  /\ \E m \in Text : /\ lMessage' = [lMessage EXCEPT ![p] = m]
                     /\ sent' = [sent EXCEPT ![p] = Append(@, m)]
  /\ lBuffer' = [lBuffer EXCEPT ![lAttached[p]] = TORN]
  /\ lMain' = [lMain EXCEPT ![p] = "copy"]
  /\ lHist' = lHist \cup (IF \E q \in Party : Unseen(q) THEN {"rushed"} ELSE {})
                    \cup (IF lMain[Other(p)] = "off" THEN {"broken"} ELSE {})
  /\ UNCHANGED <<lReceiver, lSem, lSegment, lAttached, lStarts, shown>>

LCopied(p) ==
  /\ lMain[p] = "copy"
  /\ lBuffer' = [lBuffer EXCEPT ![lAttached[p]] = lMessage[p]]
  /\ lMain' = [lMain EXCEPT ![p] = "post"]
  /\ UNCHANGED <<lReceiver, lSem, lSegment, lAttached, lMessage, lStarts, lHist, chatVars>>

\* Not the code: a sender wakes its own receiver
PostsToItself(p) ==
  /\ lMain[p] = "post"
  /\ lSem' = [lSem EXCEPT ![p] = @ + 1]
  /\ lMain' = [lMain EXCEPT ![p] = "idle"]
  /\ lMessage' = [lMessage EXCEPT ![p] = VOID]
  /\ UNCHANGED <<lReceiver, lSegment, lAttached, lBuffer, lStarts, lHist, chatVars>>

LPost(p) ==
  /\ lMain[p] = "post"
  /\ lSem' = [lSem EXCEPT ![Other(p)] = @ + 1]
  /\ lMain' = [lMain EXCEPT ![p] = "idle"]
  /\ lMessage' = [lMessage EXCEPT ![p] = VOID]
  /\ UNCHANGED <<lReceiver, lSegment, lAttached, lBuffer, lStarts, lHist, chatVars>>

-----------------------------------------------------------------------------
(* messageRecieverLife.  A receiver that wakes while the other party still *)
(* waits for its connection has taken the token that was meant for it.     *)
LReceive(p) ==
  /\ lReceiver[p] = "wait" /\ lSem[p] > 0
  /\ lSem' = [lSem EXCEPT ![p] = @ - 1]
  /\ lReceiver' = [lReceiver EXCEPT ![p] = "print"]
  /\ lHist' = IF lMain[Other(p)] = "wait" THEN lHist \cup {"stolen"} ELSE lHist
  /\ UNCHANGED <<lMain, lSegment, lAttached, lBuffer, lMessage, lStarts, chatVars>>

LPrint(p) ==
  /\ lReceiver[p] = "print"
  /\ shown' = [shown EXCEPT ![p] = Append(@, lBuffer[lAttached[p]])]
  /\ lReceiver' = [lReceiver EXCEPT ![p] = "wait"]
  /\ UNCHANGED <<lMain, lSem, lSegment, lAttached, lBuffer, lMessage, lStarts, lHist, sent>>

(* Ctrl-C, ctrlCHandler in both processes.  Before the fork the handler    *)
(* kills its own process group, and so does the receiver's, which may      *)
(* leave the shared memory.                                                *)
LInterrupt(p) ==
  /\ lMain[p] # "off"
  /\ lMain' = [lMain EXCEPT ![p] = "off"]
  /\ lReceiver' = [lReceiver EXCEPT ![p] = "none"]
  /\ lAttached' = [lAttached EXCEPT ![p] = 0]
  /\ \/ UNCHANGED lSegment
     \/ p = "first" /\ lReceiver[p] # "none" /\ lSegment' = 0
  /\ lBuffer' = Kept
  /\ lHist' = IF Quiet /\ lMain[Other(p)] \in {"off", "idle"} THEN lHist
              ELSE lHist \cup {"broken"}
  /\ lMessage' = [lMessage EXCEPT ![p] = VOID]
  /\ UNCHANGED <<lSem, lStarts, chatVars>>

LRuns(p) == LRelease(p) \/ LTake(p) \/ LFork(p) \/ LCopied(p) \/ LPost(p)
LReceives(p) == LReceive(p) \/ LPrint(p)
LUser(p) == LInitialize(p) \/ LForkFails(p) \/ LCopy(p) \/ LInterrupt(p)

LNext == lHist = {} /\ \E p \in Party : LUser(p) \/ LRuns(p) \/ LReceives(p)

LSpec == LInit /\ CInit /\ [][LNext]_<<lVars, chatVars>>

-----------------------------------------------------------------------------
LTypeOK ==
  /\ lMain \in [Party -> {"off", "hello", "wait", "fork", "idle", "copy", "post"}]
  /\ lReceiver \in [Party -> {"none", "wait", "print"}]
  /\ lSem \in [Party -> Nat]
  /\ lSegment \in Segment \cup {0} /\ lAttached \in [Party -> Segment \cup {0}]
  /\ lBuffer \in [Segment -> Text \cup {TORN, VOID}]
  /\ lMessage \in [Party -> Text \cup {VOID}]
  /\ lStarts \in [Party -> 0 .. MaxStarts]
  /\ lHist \subseteq {"stolen", "rushed", "broken"}

(* Two parties that talk look at the same shared memory, and the tokens in *)
(* the semaphores are the messages that were not seen: a connection leaves *)
(* none behind, and neither does a conversation that both ended in peace.  *)
(* (messager_lin.c:26-54, 56-103, 130-137)                                 *)
TokensAreMessages ==
  lHist = {} =>
    /\ \A p \in Party : lMain[p] \notin {"off", "hello"} /\ lMain[Other(p)] \notin {"off", "hello"}
         => lAttached[p] = lAttached[Other(p)]
    /\ \A p \in Party : Connected(p) /\ Connected(Other(p)) =>
         lSem[p] + (IF lReceiver[p] = "print" THEN 1 ELSE 0)
           = Len(sent[Other(p)]) - Len(shown[p])
               - (IF lMain[Other(p)] \in {"copy", "post"} THEN 1 ELSE 0)
=============================================================================
