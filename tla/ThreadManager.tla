---------------------------- MODULE ThreadManager ---------------------------
(***************************************************************************)
(* The thread manager of lab4 (src/lab4/src/tm/tm.c, child/child.c and the *)
(* input loop of main.c).  Three kinds of threads run concurrently:        *)
(*                                                                         *)
(*   - main reads commands from the user and passes them to the manager,   *)
(*     prints which child is current, and shuts the program down; SIGINT   *)
(*     runs the shutdown in the middle of whatever main was doing;         *)
(*   - the manager (TM) takes one command at a time from the queue tm_data *)
(*     and keeps the children on a ring;                                   *)
(*   - each child sleeps until it is woken, prints its name Letters times  *)
(*     and reports back with the command "x", upon which the manager wakes *)
(*     the child that follows current_child.                               *)
(*                                                                         *)
(* A condition variable is a program counter of its own: a thread that     *)
(* waits is moved on by a signal and by nothing else.  A mutex is part of  *)
(* the state only where a thread can be stopped while it holds it, which   *)
(* is main, because of SIGINT; the other critical sections are atomic.     *)
(***************************************************************************)
EXTENDS Integers, Sequences, FiniteSets, SequencesExt

CONSTANTS Node,         \* addresses for the elements of the ring
          NULL,
          Letters,      \* child_letters_count, an option of the program
          LastLetter,   \* the character 'z'
          MaxTyped      \* bound: commands the user types

FirstLetter == 97       \* the character 'a'

Commands == {"+", "-", "p", "q", "x"}   \* what send_tm is called with

(* main refuses to start with fewer than one letter (main.c:65).           *)
ASSUME LettersAssumption == Letters \in Nat \ {0}
ASSUME MaxTypedAssumption == MaxTyped \in Nat
ASSUME NodeAssumption == Node # {} /\ NULL \notin Node \cup Commands
ASSUME LastLetterAssumption == LastLetter \in FirstLetter .. 127

VARIABLES
    ring,               \* the children; top_child is the last one
    current_child,      \* whose turn it is; not always on the ring
    last_child_name,
    tm_paused,
    tm_child_paused,    \* an "x" came in while paused
    tm_data,            \* the command queue, see QueueSpec
    tmPC,               \* where the manager is; a command while it executes
                        \*   that case of its switch
    tmNode, tmAfter,    \* the child it is killing, where it goes from there
    mainPC, mainCmd,    \* where main is, the command it is sending
    typed,              \* how many commands the user has typed
    handler,            \* the handler of SIGINT: idle or running
    held,               \* the locks main holds between two of its steps
    name, message,      \* of each child: the fields of child_thread_t,
    childPC, letter,    \*   where it is, the letters printed this turn,
    cancelled,          \*   the children with a pthread_cancel pending,
    cancelDisabled,     \*   and those that disabled cancellation
    process,            \* "running", or "crashed" once a NULL or freed
                        \*   pointer was followed
    hist                \* what has happened, for the properties: "removed"
                        \*   (case '-' took current_child), "failed" (an
                        \*   allocation or pthread_create), "wrapped"
                        \*   (the names restarted at 'a'), "lost" (an
                        \*   "x" was dropped by the queue)

tmVars == <<tmPC, tmNode, tmAfter>>
mainVars == <<mainPC, mainCmd, typed, handler, held>>
childVars == <<name, message, childPC, letter, cancelled, cancelDisabled>>
listVars == <<ring, current_child, last_child_name>>
pauseVars == <<tm_paused, tm_child_paused>>
endVars == <<process, hist>>
vars == <<listVars, pauseVars, tm_data, tmVars, mainVars, childVars, endVars>>

R == INSTANCE RingSpec WITH Element <- Node, list <- ring, returned <- NULL
Q == INSTANCE QueueSpec WITH Element <- Commands, waiting <- tm_data,
                             returned <- NULL

Children == Range(ring)
Dangling == current_child \notin Children \cup {NULL}

(* char arithmetic: 8 bits, signed.                                        *)
Increment(c) == IF c = 127 THEN -128 ELSE c + 1

(* Not the code: the name is not given back.                               *)
DecrementNot(c) == c

Decrement(c) == IF c = -128 THEN 127 ELSE c - 1

-----------------------------------------------------------------------------
Init ==
    /\ ring = <<>>
    /\ current_child = NULL
    /\ last_child_name = FirstLetter
    /\ tm_paused = 0
    /\ tm_child_paused = 0
    /\ tm_data = <<>>
    /\ tmPC = "get"
    /\ tmNode = NULL
    /\ tmAfter = "get"
    /\ mainPC = "input"
    /\ mainCmd = NULL
    /\ typed = 0
    /\ handler = "idle"
    /\ held = {}
    /\ name = [n \in Node |-> FirstLetter]
    /\ message = [n \in Node |-> 0]
    /\ childPC = [n \in Node |-> "none"]
    /\ letter = [n \in Node |-> 0]
    /\ cancelled = {}
    /\ cancelDisabled = {}
    /\ process = "running"
    /\ hist = {}

(* ZOX_QUEUE.offer, with a note of an "x" it drops.                        *)
OfferTM(cmd) ==
    /\ tm_data' = Q!Offered(tm_data, cmd)
    /\ hist' = IF Len(tm_data) = 2 /\ Head(tm_data) = "x"
               THEN hist \cup {"lost"} ELSE hist

(* pthread_cond_signal on wake_up_tm_cond.                                 *)
SignalTM == tmPC' = IF tmPC = "wait" THEN "get" ELSE tmPC

(* pthread_cond_signal on a child's condition variable.                    *)
SignalChild(n) ==
    childPC' = [childPC EXCEPT ![n] = IF @ = "wait" THEN "ready" ELSE @]

Crash ==
    /\ process' = "crashed"
    /\ UNCHANGED <<listVars, pauseVars, tm_data, tmVars, mainVars, childVars,
                   hist>>

-----------------------------------------------------------------------------
(* main: send_tm(cmd) takes the mutex ...                                  *)
M_Lock ==
    /\ mainPC = "lock"
    /\ "tm_data_mutex" \notin held      \* else: locked by this very thread
    /\ held' = held \cup {"tm_data_mutex"}
    /\ mainPC' = "offer"
    /\ UNCHANGED <<listVars, pauseVars, tm_data, tmVars, mainCmd, typed,
                   handler, childVars, endVars>>

(* Not the code: the manager is not signalled.                             *)
M_OfferOnly ==
    /\ mainPC = "offer"
    /\ OfferTM(mainCmd)
    /\ held' = held \ {"tm_data_mutex"}
    /\ IF mainCmd = "q"
       THEN mainPC' = "join" /\ UNCHANGED mainCmd
       ELSE mainPC' = "input" /\ mainCmd' = NULL
    /\ UNCHANGED <<listVars, pauseVars, tmVars, typed, handler, childVars,
                   process>>

(* ... appends the command and releases the mutex ...                      *)
M_Offer ==
    /\ mainPC = "offer"
    /\ OfferTM(mainCmd)
    /\ held' = held \ {"tm_data_mutex"}
    /\ mainPC' = "signal"
    /\ UNCHANGED <<listVars, pauseVars, tmVars, mainCmd, typed, handler,
                   childVars, process>>

(* ... and signals the manager.                                            *)
M_Signal ==
    /\ mainPC = "signal"
    /\ SignalTM
    /\ IF mainCmd = "q"
       THEN mainPC' = "join" /\ UNCHANGED mainCmd
       ELSE mainPC' = "input" /\ mainCmd' = NULL
    /\ UNCHANGED <<listVars, pauseVars, tm_data, tmNode, tmAfter, typed,
                   handler, held, childVars, endVars>>

(* The user types a command.                                               *)
M_Input ==
    /\ mainPC = "input"
    /\ typed < MaxTyped
    /\ typed' = typed + 1
    /\ mainCmd' \in Commands \ {"x"}
    /\ mainPC' = "lock"
    /\ UNCHANGED <<listVars, pauseVars, tm_data, tmVars, handler, held,
                   childVars, endVars>>

(* Not the code: no test of current_child.                                 *)
M_InfoUntested ==
    /\ mainPC = "input"
    /\ mainPC' = "infoLock"
    /\ UNCHANGED <<listVars, pauseVars, tm_data, tmVars, mainCmd, typed,
                   handler, held, childVars, endVars>>

(* The user types 'i': print_current_child tests current_child without the *)
(* lock, ...                                                               *)
M_Info ==
    /\ mainPC = "input"
    /\ current_child # NULL
    /\ mainPC' = "infoLock"
    /\ UNCHANGED <<listVars, pauseVars, tm_data, tmVars, mainCmd, typed,
                   handler, held, childVars, endVars>>

(* ... then locks it and follows it.                                       *)
M_InfoLock ==
    /\ mainPC = "infoLock"
    /\ \/ /\ current_child # NULL
          /\ current_child \in Children => childPC[current_child] # "none"
          /\ held' = held \cup {"current_child_lock"}
          /\ mainPC' = "infoUnlock"
          /\ UNCHANGED <<listVars, pauseVars, tm_data, tmVars, mainCmd, typed,
                         handler, childVars, endVars>>
       \/ /\ \/ current_child = NULL
             \/ Dangling
             \/ current_child \in Children /\ childPC[current_child] = "none"
          /\ Crash

M_InfoUnlock ==
    /\ mainPC = "infoUnlock"
    /\ held' = held \ {"current_child_lock"}
    /\ mainPC' = "input"
    /\ UNCHANGED <<listVars, pauseVars, tm_data, tmVars, mainCmd, typed,
                   handler, childVars, endVars>>

(* pthread_join(tm) and the end of the process.                            *)
M_Join ==
    /\ mainPC = "join"
    /\ tmPC = "done"
    /\ mainPC' = "exited"
    /\ UNCHANGED <<listVars, pauseVars, tm_data, tmVars, mainCmd, typed,
                   handler, held, childVars, endVars>>

(* SIGINT: preDestroy runs on top of whatever main was doing, with the     *)
(* locks main had, and does not return.                                    *)
Interrupt ==
    /\ handler = "idle"
    /\ handler' = "running"
    /\ mainCmd' = "q"
    /\ mainPC' = "lock"
    /\ UNCHANGED <<listVars, pauseVars, tm_data, tmVars, typed, held,
                   childVars, endVars>>

MainStep ==
    M_Lock \/ M_Offer \/ M_Signal \/ M_InfoLock \/ M_InfoUnlock \/ M_Join

-----------------------------------------------------------------------------
(* The manager: getData takes the next command or sleeps on the condition  *)
(* variable.                                                               *)
T_Get ==
    /\ tmPC = "get"
    /\ "tm_data_mutex" \notin held
    /\ IF tm_data = <<>>
       THEN tmPC' = "wait" /\ UNCHANGED tm_data
       ELSE tmPC' = Head(tm_data) /\ tm_data' = Q!Polled(tm_data)
    /\ UNCHANGED <<listVars, pauseVars, tmNode, tmAfter, mainVars, childVars,
                   endVars>>

(* update_current_child takes the write lock.                              *)
UpdateCurrentChild(n) ==
    /\ "current_child_lock" \notin held
    /\ current_child' = n

NextName == IF last_child_name = LastLetter
            THEN FirstLetter ELSE Increment(last_child_name)

UseName ==
    /\ last_child_name' = NextName
    /\ hist' = IF last_child_name = LastLetter
               THEN hist \cup {"wrapped"} ELSE hist

(* Not the code: every new child becomes current_child.                    *)
T_AddCurrent(n) ==
    /\ tmPC = "+"
    /\ n \notin Children
    /\ ring' = R!Added(ring, n)
    /\ name' = [name EXCEPT ![n] = last_child_name]
    /\ childPC' = [childPC EXCEPT ![n] = "ready"]
    /\ UpdateCurrentChild(n)
    /\ tmPC' = IF ring = <<>> THEN "wake" ELSE "get"
    /\ UseName
    /\ UNCHANGED <<pauseVars, tm_data, tmNode, tmAfter, mainVars, message,
                   letter, cancelled, cancelDisabled, process>>

(* addChild: the new child starts asleep and joins the ring after          *)
(* top_child; the first one becomes current_child and is woken.            *)
T_Add(n) ==
    /\ tmPC = "+"
    /\ n \notin Children
    /\ ring' = R!Added(ring, n)
    /\ name' = [name EXCEPT ![n] = last_child_name]
    /\ childPC' = [childPC EXCEPT ![n] = "ready"]
    /\ IF ring = <<>>
       THEN UpdateCurrentChild(n) /\ tmPC' = "wake"
       ELSE UNCHANGED current_child /\ tmPC' = "get"
    /\ UseName
    /\ UNCHANGED <<pauseVars, tm_data, tmNode, tmAfter, mainVars, message,
                   letter, cancelled, cancelDisabled, process>>

(* pthread_create fails: start_child returns NULL, which the ring accepts  *)
(* as its data, and wake_child does not if the child is the first.         *)
T_CreateFails(n) ==
    /\ tmPC = "+"
    /\ n \notin Children
    /\ hist' = hist \cup {"failed"}
    /\ IF ring = <<>>
       THEN /\ process' = "crashed"
            /\ UNCHANGED <<listVars, tmPC, childPC>>
       ELSE /\ ring' = R!Added(ring, n)
            /\ childPC' = [childPC EXCEPT ![n] = "none"]
            /\ last_child_name' = NextName
            /\ tmPC' = "get"
            /\ UNCHANGED <<current_child, process>>
    /\ UNCHANGED <<pauseVars, tm_data, tmNode, tmAfter, mainVars, name,
                   message, letter, cancelled, cancelDisabled>>

(* No address is left for the element: the child runs outside the ring,    *)
(* asleep for ever.                                                        *)
T_AddNoMemory ==
    /\ tmPC = "+"
    /\ Node \subseteq Children
    /\ last_child_name' = NextName
    /\ hist' = hist \cup {"failed"}
    /\ tmPC' = "get"
    /\ UNCHANGED <<ring, current_child, pauseVars, tm_data, tmNode, tmAfter,
                   mainVars, childVars, process>>

(* wake_child(current_child): the message under the child's mutex, ...     *)
T_Wake ==
    /\ tmPC = "wake"
    /\ IF childPC[current_child] = "none"
       THEN Crash
       ELSE /\ message' = [message EXCEPT ![current_child] = 1]
            /\ tmPC' = "wakeSignal"
            /\ UNCHANGED <<listVars, pauseVars, tm_data, tmNode, tmAfter,
                           mainVars, name, childPC, letter, cancelled,
                           cancelDisabled, endVars>>

(* ... then the signal.                                                    *)
T_WakeSignal ==
    /\ tmPC = "wakeSignal"
    /\ SignalChild(current_child)
    /\ tmPC' = "get"
    /\ UNCHANGED <<listVars, pauseVars, tm_data, tmNode, tmAfter, mainVars,
                   name, message, letter, cancelled, cancelDisabled, endVars>>

(* The child signal "x": the turn passes to the child that follows         *)
(* current_child, whose element may have been freed: what its next pointer *)
(* still says is the first child, unless the memory was overwritten.       *)
T_ChildSignal ==
    /\ tmPC = "x"
    /\ \/ /\ current_child = NULL
          /\ tmPC' = "get"
          /\ UNCHANGED <<current_child, tm_child_paused, process>>
       \/ /\ current_child # NULL
          /\ tm_paused = 1
          /\ tm_child_paused' = 1
          /\ tmPC' = "get"
          /\ UNCHANGED <<current_child, process>>
       \/ /\ current_child # NULL
          /\ tm_paused = 0
          /\ UpdateCurrentChild(IF Dangling THEN ring[1]
                                ELSE R!Following(ring, current_child))
          /\ tmPC' = "wake"
          /\ UNCHANGED <<tm_child_paused, process>>
       \/ /\ Dangling
          /\ tm_paused = 0
          /\ process' = "crashed"
          /\ UNCHANGED <<current_child, tmPC, tm_child_paused>>
    /\ UNCHANGED <<ring, last_child_name, tm_paused, tm_data, tmNode, tmAfter,
                   mainVars, childVars, hist>>

(* Not the code: the pause is taken back at once.                          *)
T_PauseAlways ==
    /\ tmPC = "p"
    /\ tm_paused' = 1 - tm_paused
    /\ tm_child_paused' = 0
    /\ tmPC' = IF tm_paused = 1 THEN "send" ELSE "get"
    /\ UNCHANGED <<listVars, tm_data, tmNode, tmAfter, mainVars, childVars,
                   endVars>>

(* Case 'p': pauses, or continues once the running child reported back.    *)
T_Pause ==
    /\ tmPC = "p"
    /\ IF tm_paused = 1 /\ tm_child_paused = 0
       THEN tmPC' = "get" /\ UNCHANGED pauseVars
       ELSE /\ tm_paused' = 1 - tm_paused
            /\ tm_child_paused' = 0
            /\ tmPC' = IF tm_paused = 1 THEN "send" ELSE "get"
    /\ UNCHANGED <<listVars, tm_data, tmNode, tmAfter, mainVars, childVars,
                   endVars>>

(* send_tm('x') by the manager itself, which is not waiting.               *)
T_Send ==
    /\ tmPC = "send"
    /\ "tm_data_mutex" \notin held
    /\ OfferTM("x")
    /\ tmPC' = "get"
    /\ UNCHANGED <<listVars, pauseVars, tmNode, tmAfter, mainVars, childVars,
                   process>>

(* Case '-' without children, case 'q' when the last one is gone.          *)
T_NoChild ==
    /\ ring = <<>>
    /\ \/ tmPC = "-" /\ tmPC' = "get"
       \/ tmPC = "q" /\ tmPC' = "done"
    /\ UNCHANGED <<listVars, pauseVars, tm_data, tmNode, tmAfter, mainVars,
                   childVars, endVars>>

(* Not the code: 'q' removes one child only.                               *)
T_RemoveOne ==
    /\ tmPC \in {"-", "q"}
    /\ ring # <<>>
    /\ childPC[Last(ring)] # "none"
    /\ ring' = R!Removed(ring)
    /\ tmNode' = Last(ring)
    /\ tmAfter' = "get"
    /\ message' = [message EXCEPT ![Last(ring)] = -1]
    /\ tmPC' = "killSignal"
    /\ UNCHANGED <<current_child, last_child_name, pauseVars, tm_data,
                   mainVars, name, childPC, letter, cancelled, cancelDisabled,
                   endVars>>

(* removeChild, of case '-' and of the loop of case 'q': top_child leaves  *)
(* the ring, is told to die, ...  When it is current_child and not the only*)
(* child, case '-' passes the turn on afterwards.                          *)
T_Remove ==
    /\ tmPC \in {"-", "q"}
    /\ ring # <<>>
    /\ IF childPC[Last(ring)] = "none"
       THEN Crash
       ELSE /\ ring' = R!Removed(ring)
            /\ tmNode' = Last(ring)
            /\ tmAfter' = CASE tmPC = "q" -> "q"
                          [] /\ tmPC = "-"
                             /\ current_child = Last(ring)
                             /\ Len(ring) > 1 -> "send"
                          [] OTHER -> "get"
            /\ message' = [message EXCEPT ![Last(ring)] = -1]
            /\ tmPC' = "killSignal"
            /\ hist' = IF tmPC = "-" /\ current_child = Last(ring)
                       THEN hist \cup {"removed"} ELSE hist
            /\ UNCHANGED <<current_child, last_child_name, pauseVars, tm_data,
                           mainVars, name, childPC, letter, cancelled,
                           cancelDisabled, process>>

(* Not the code: the child is cancelled, but not signalled.                *)
T_KillCancel ==
    /\ tmPC = "killSignal"
    /\ cancelled' = cancelled \cup {tmNode}
    /\ tmPC' = "join"
    /\ UNCHANGED <<listVars, pauseVars, tm_data, tmNode, tmAfter, mainVars,
                   name, message, childPC, letter, cancelDisabled, endVars>>

(* ... signalled and cancelled, ...                                        *)
T_KillSignal ==
    /\ tmPC = "killSignal"
    /\ SignalChild(tmNode)
    /\ cancelled' = cancelled \cup {tmNode}
    /\ tmPC' = "join"
    /\ UNCHANGED <<listVars, pauseVars, tm_data, tmNode, tmAfter, mainVars,
                   name, message, letter, cancelDisabled, endVars>>

(* A child_thread_t that is not in use.                                    *)
Blank(n) ==
    /\ childPC' = [childPC EXCEPT ![n] = "none"]
    /\ name' = [name EXCEPT ![n] = FirstLetter]
    /\ message' = [message EXCEPT ![n] = 0]
    /\ letter' = [letter EXCEPT ![n] = 0]
    /\ cancelled' = cancelled \ {n}
    /\ cancelDisabled' = cancelDisabled \ {n}

(* ... and joined; current_child changes only when nobody is left.         *)
T_Join ==
    /\ tmPC = "join"
    /\ childPC[tmNode] = "dead"
    /\ Blank(tmNode)
    /\ IF ring = <<>>
       THEN UpdateCurrentChild(NULL) ELSE UNCHANGED current_child
    /\ last_child_name' = Decrement(last_child_name)
    /\ tmPC' = tmAfter
    /\ tmNode' = NULL
    /\ tmAfter' = "get"
    /\ UNCHANGED <<ring, pauseVars, tm_data, mainVars, endVars>>

TMStep ==
    \/ T_Get
    \/ \E n \in Node : T_Add(n) \/ T_CreateFails(n)
    \/ T_AddNoMemory
    \/ T_Wake \/ T_WakeSignal \/ T_ChildSignal
    \/ T_Pause \/ T_Send
    \/ T_NoChild \/ T_Remove \/ T_KillSignal \/ T_Join

-----------------------------------------------------------------------------
(* A child looks at its message under its mutex.                           *)
C_Receive(n) ==
    /\ childPC[n] = "ready"
    /\ childPC' = [childPC EXCEPT ![n] = CASE message[n] = 0 -> "wait"
                                           [] message[n] = 1 -> "print"
                                           [] OTHER -> "dead"]
    /\ message' = [message EXCEPT ![n] = 0]
    /\ UNCHANGED <<listVars, pauseVars, tm_data, tmVars, mainVars, name,
                   letter, cancelled, cancelDisabled, endVars>>

(* pthread_cond_wait is a cancellation point, until the child has disabled *)
(* cancellation for good.                                                  *)
C_CancelWait(n) ==
    /\ childPC[n] = "wait"
    /\ n \in cancelled \ cancelDisabled
    /\ childPC' = [childPC EXCEPT ![n] = "dead"]
    /\ UNCHANGED <<listVars, pauseVars, tm_data, tmVars, mainVars, name,
                   message, letter, cancelled, cancelDisabled, endVars>>

(* Not the code: one letter too many.                                      *)
C_LetterMore(n) ==
    /\ childPC[n] = "print"
    /\ n \notin cancelled
    /\ cancelDisabled' = cancelDisabled \cup {n}
    /\ IF letter[n] < Letters
       THEN letter' = [letter EXCEPT ![n] = @ + 1] /\ UNCHANGED childPC
       ELSE /\ letter' = [letter EXCEPT ![n] = 0]
            /\ childPC' = [childPC EXCEPT ![n] = "send"]
    /\ UNCHANGED <<listVars, pauseVars, tm_data, tmVars, mainVars, name,
                   message, cancelled, endVars>>

(* One letter, the delay and the cancellation point; then cancellation is  *)
(* disabled until the next one.                                            *)
C_Letter(n) ==
    /\ childPC[n] = "print"
    /\ IF n \in cancelled
       THEN /\ childPC' = [childPC EXCEPT ![n] = "dead"]
            /\ UNCHANGED <<letter, cancelDisabled>>
       ELSE /\ cancelDisabled' = cancelDisabled \cup {n}
            /\ IF letter[n] + 1 < Letters
               THEN /\ letter' = [letter EXCEPT ![n] = @ + 1]
                    /\ UNCHANGED childPC
               ELSE /\ letter' = [letter EXCEPT ![n] = 0]
                    /\ childPC' = [childPC EXCEPT ![n] = "send"]
    /\ UNCHANGED <<listVars, pauseVars, tm_data, tmVars, mainVars, name,
                   message, cancelled, endVars>>

(* send_tm('x') by a child: the offer, ...                                 *)
C_Send(n) ==
    /\ childPC[n] = "send"
    /\ "tm_data_mutex" \notin held
    /\ OfferTM("x")
    /\ childPC' = [childPC EXCEPT ![n] = "signal"]
    /\ UNCHANGED <<listVars, pauseVars, tmVars, mainVars, name, message,
                   letter, cancelled, cancelDisabled, process>>

(* ... then the signal.                                                    *)
C_Signal(n) ==
    /\ childPC[n] = "signal"
    /\ SignalTM
    /\ childPC' = [childPC EXCEPT ![n] = "ready"]
    /\ UNCHANGED <<listVars, pauseVars, tm_data, tmNode, tmAfter, mainVars,
                   name, message, letter, cancelled, cancelDisabled, endVars>>

ChildStep(n) ==
    C_Receive(n) \/ C_CancelWait(n) \/ C_Letter(n) \/ C_Send(n) \/ C_Signal(n)

-----------------------------------------------------------------------------
(* The process is gone after exit or a crash.                              *)
Alive == process = "running" /\ mainPC # "exited"

Main == Alive /\ MainStep
User == Alive /\ (M_Input \/ M_Info \/ Interrupt)
TM == Alive /\ TMStep
Child(n) == Alive /\ ChildStep(n)

Next == Main \/ User \/ TM \/ \E n \in Node : Child(n)

Spec == Init /\ [][Next]_vars

(* The three kinds of threads are scheduled, and none is kept for ever from*)
(* a lock that keeps being released: main takes one only when a person has *)
(* typed a key.  Nothing is assumed of the user.                           *)
Fairness ==
    /\ WF_vars(Main)
    /\ SF_vars(TM)
    /\ \A n \in Node : SF_vars(Child(n))

FairSpec == Spec /\ Fairness

-----------------------------------------------------------------------------
ManagerTypeOK ==
    /\ ring \in Seq(Node)
    /\ current_child \in Node \cup {NULL}
    /\ last_child_name \in -128 .. 127
    /\ tm_paused \in {0, 1} /\ tm_child_paused \in {0, 1}
    /\ tm_data \in Seq(Commands) /\ Len(tm_data) \in 0 .. 2
    /\ tmPC \in Commands \cup {"get", "wait", "wake", "wakeSignal", "send",
                              "killSignal", "join", "done"}
    /\ ring = <<>> => current_child = NULL \/ tmPC \in {"killSignal", "join"}
    /\ tmNode \in Node \cup {NULL}
    /\ tmPC \in {"killSignal", "join"} => tmNode \in Node
    /\ tmAfter \in {"get", "send", "q"}

MainTypeOK ==
    /\ mainPC \in {"input", "lock", "offer", "signal", "infoLock",
                   "infoUnlock", "join", "exited"}
    /\ mainCmd \in (Commands \ {"x"}) \cup {NULL}
    /\ mainPC \in {"lock", "offer", "signal"} => mainCmd # NULL
    /\ typed \in 0 .. MaxTyped
    /\ handler \in {"idle", "running"}
    /\ held \subseteq {"tm_data_mutex", "current_child_lock"}

ChildTypeOK ==
    /\ name \in [Node -> -128 .. 127]
    /\ message \in [Node -> {-1, 0, 1}]
    /\ childPC \in [Node -> {"none", "ready", "wait", "print", "send",
                             "signal", "dead"}]
    /\ letter \in [Node -> 0 .. Letters - 1]
    /\ cancelled \subseteq Node
    /\ cancelDisabled \subseteq Node

TypeOK ==
    /\ ManagerTypeOK
    /\ MainTypeOK
    /\ ChildTypeOK
    /\ process \in {"running", "crashed"}
    /\ hist \subseteq {"removed", "failed", "wrapped", "lost"}

(* The manager never sleeps on a command: when it waits on the condition   *)
(* variable and the queue is not empty, somebody is about to signal it, or *)
(* was when the SIGINT handler took over and will send a command of its own*)
(* (tm.c:37-40, 74-77: the offer and the test are under the same mutex, the*)
(* signal is not).                                                         *)
NoLostWakeup ==
    tmPC = "wait" /\ tm_data # <<>> =>
        \/ mainPC = "signal"
        \/ handler = "running" /\ mainPC \in {"lock", "offer"}
        \/ \E n \in Node : childPC[n] = "signal"

(* The turn: who has been woken, is printing or has yet to report it, an   *)
(* "x" that waits in the queue, and what the manager makes of one.         *)
Turns ==
    {<<"woken", n>> : n \in {m \in Node : message[m] = 1}} \cup
    {<<"printing", n>> :
        n \in {m \in Node : childPC[m] \in {"print", "send"}}} \cup
    {<<"queued", i>> : i \in {j \in DOMAIN tm_data : tm_data[j] = "x"}} \cup
    (IF tmPC \in {"wake", "send", "x"}
     THEN {<<"manager", 1>>} ELSE {}) \cup
    (IF tm_paused = 1 /\ tm_child_paused = 1 THEN {<<"paused", 1>>} ELSE {})

(* There is one turn: as long as case '-' has never taken current_child    *)
(* off the ring, no two children print at the same time and no "x" is under*)
(* way while a child prints, whatever is added, removed, paused, continued *)
(* and lost meanwhile (tm.c:83-158, child.c:65-84).                        *)
OneTurn == "removed" \notin hist => \A s, t \in Turns : s = t

(* What 'i' prints is the child that has the turn (tm.c:53-68: the info    *)
(* reads current_child, which the manager updates before it wakes).        *)
InfoNamesRunner ==
    "removed" \notin hist =>
        \A n \in Node :
            message[n] = 1 \/ childPC[n] \in {"print", "send"}
            => n = current_child

(* A NULL or freed pointer is followed only after case '-' took            *)
(* current_child off the ring, which leaves the pointer behind, or after a *)
(* thread could not be created (tm.c:53-61, 99-102, 146-153).              *)
CrashCause == process = "crashed" => hist \cap {"removed", "failed"} # {}

(* While every creation succeeded and the names have not restarted at 'a', *)
(* the children on the ring are named 'a', 'b', ... in order, so no two    *)
(* share a name (tm.c:91-95, 103: the counter goes up and down).           *)
NamesInOrder ==
    hist \cap {"failed", "wrapped"} = {} =>
        \A i \in DOMAIN ring : name[ring[i]] = FirstLetter + i - 1

(* The SIGINT handler waits for ever for the manager, which waits, or the  *)
(* handler itself does, for a lock that the interrupted main holds.        *)
SelfDeadlocked ==
    /\ handler = "running"
    /\ \/ "tm_data_mutex" \in held /\ mainPC = "lock"
       \/ "current_child_lock" \in held

(* A child that is killed dies, whatever it was doing (child.c:42-84): the *)
(* message reaches it asleep, the cancellation while it prints.            *)
KillCompletes == tmPC = "join" ~> tmPC # "join" \/ ~Alive \/ SelfDeadlocked

(* 'q' and SIGINT end the program (tm.c:43-51, 116-120) as long as case '-'*)
(* has never taken current_child off the ring.                             *)
ShutdownCompletes ==
    mainPC = "join" /\ "removed" \notin hist
        ~> ~Alive \/ SelfDeadlocked \/ "removed" \in hist

(* Every child on the ring gets its turn (tm.c:145-155), unless it is      *)
(* removed, the manager is paused or shut down, or an "x" was lost.        *)
TurnComesRound ==
    \A n \in Node :
        n \in Children ~>
            \/ message[n] = 1
            \/ n \notin Children
            \/ tm_paused = 1
            \/ hist \cap {"removed", "lost"} # {}
            \/ mainCmd = "q"
            \/ ~Alive

(* What the input loop says of 'q', "exit" (main.c:101): the program ends, *)
(* unless SIGINT interferes.                                               *)
QuitExits ==
    mainPC = "join" /\ handler = "idle" ~> ~Alive \/ handler = "running"
=============================================================================
