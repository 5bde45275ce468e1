---------------------------- MODULE ZoxAioProofs ----------------------------
(***************************************************************************)
(* Proofs about the library of lab5, for any files, clients, sizes and     *)
(* buffers: no task is in two places at once, the types hold, and the      *)
(* texts are copied to their places and freed no earlier.  The first rests *)
(* on where a task is, the last on what is read, written and counted of a  *)
(* task at each of its places.                                             *)
(***************************************************************************)
EXTENDS ZoxAio, SequenceTheorems, TLAPS

(* The four kinds of places a task may be in.                              *)
InQueues(f) ==
  UNION {{<<e, i>> : i \in {j \in DOMAIN queue[e] : queue[e][j] = f}} : e \in Executors}
InHands(f) == {<<"working", e>> : e \in {x \in Executors : working[x] = f}}
InOperations(f) == {op \in io : op[2] = f}
InCallbacks(f) == {<<"callback", g>> : g \in callbacks \cap {f}}

(* Types of what the places are made of.                                   *)
PlaceTypes ==
  /\ toAdd \subseteq File
  /\ clientPC \in [Client -> {"idle", "append", "notify", "return"}]
  /\ clientFile \in [Client -> File \cup {NULL}]
  /\ \A c \in Client : clientPC[c] # "idle" => clientFile[c] \in File
  /\ queue \in [Executors -> Seq(File \cup {NULL})]
  /\ working \in [Executors -> File \cup {NULL}]
  /\ io \subseteq {"read", "write"} \X File
  /\ callbacks \subseteq File

Adding(c) == clientPC[c] \in {"append", "notify"}

(* A file whose task the reader has not been told of is nowhere, and one   *)
(* client at most adds it.                                                 *)
AddedOnce ==
  /\ \A f \in toAdd : Places(f) = {}
  /\ \A c \in Client : Adding(c) => clientFile[c] \notin toAdd /\ Places(clientFile[c]) = {}
  /\ \A c, d \in Client : Adding(c) /\ Adding(d) /\ c # d => clientFile[c] # clientFile[d]

PlaceInv == PlaceTypes /\ AddedOnce /\ OneOperation

AtMostOne(S) == \A p, q \in S : p = q

(* What most steps do to a task: one that is somewhere moves on or leaves, *)
(* and one that is nowhere stays there.                                    *)
MovesOn(f) ==
  /\ AtMostOne(Places(f)) => AtMostOne(Places(f)')
  /\ Places(f) = {} => Places(f)' = {}

-----------------------------------------------------------------------------
(* What taking the first notification leaves of a queue.                   *)
LEMMA TailFacts ==
  ASSUME NEW S, NEW q \in Seq(S), q # <<>>
  PROVE  /\ Len(q) \in Nat \ {0} /\ Head(q) = q[1] /\ Head(q) \in S
         /\ Tail(q) \in Seq(S) /\ Len(Tail(q)) = Len(q) - 1
         /\ \A i \in 1 .. Len(q) - 1 : Tail(q)[i] = q[i + 1]
  OBVIOUS

(* What appending a notification makes of a queue.                         *)
LEMMA AppendFacts ==
  ASSUME NEW S, NEW q \in Seq(S), NEW x \in S
  PROVE  /\ Len(q) \in Nat
         /\ Append(q, x) \in Seq(S) /\ Len(Append(q, x)) = Len(q) + 1
         /\ \A i \in 1 .. Len(q) : Append(q, x)[i] = q[i]
         /\ Append(q, x)[Len(q) + 1] = x
  OBVIOUS

(* The places of a task are those of the four kinds.                       *)
LEMMA PlacesAre ==
  ASSUME NEW f
  PROVE  Places(f) = InQueues(f) \cup InHands(f) \cup InOperations(f) \cup InCallbacks(f)
  BY DEF Places, InQueues, InHands, InOperations, InCallbacks

(* A task's places in the queues are the positions at which it is queued.  *)
LEMMA QueuePlace ==
  ASSUME PlaceTypes, NEW f, NEW p
  PROVE  p \in InQueues(f) <=>
           \E e \in Executors : \E i \in 1 .. Len(queue[e]) : queue[e][i] = f /\ p = <<e, i>>
  <1>1. \A e \in Executors : DOMAIN queue[e] = 1 .. Len(queue[e])
    BY DEF PlaceTypes
  <1>2. QED
    BY <1>1 DEF InQueues

(* A task that is in one place of one kind is in none of another.          *)
LEMMA KindsApart ==
  ASSUME PlaceTypes, NEW f, AtMostOne(Places(f))
  PROVE  /\ InQueues(f) # {} => InHands(f) = {} /\ InOperations(f) = {} /\ InCallbacks(f) = {}
         /\ InHands(f) # {} => InQueues(f) = {} /\ InOperations(f) = {} /\ InCallbacks(f) = {}
         /\ InOperations(f) # {} => InQueues(f) = {} /\ InHands(f) = {} /\ InCallbacks(f) = {}
         /\ InCallbacks(f) # {} => InQueues(f) = {} /\ InHands(f) = {} /\ InOperations(f) = {}
  <1>1. \A p \in InQueues(f) : p[1] \in {"reader", "writer"}
    BY QueuePlace DEF Executors
  <1>2. \A p \in InHands(f) : p[1] = "working"
    BY DEF InHands
  <1>3. \A p \in InOperations(f) : p[1] \in {"read", "write"}
    BY DEF InOperations, PlaceTypes
  <1>4. \A p \in InCallbacks(f) : p[1] = "callback"
    BY DEF InCallbacks
  <1>5. \A p, q \in InQueues(f) \cup InHands(f) \cup InOperations(f) \cup InCallbacks(f) : p = q
    BY PlacesAre DEF AtMostOne
  <1>6. QED
    BY <1>1, <1>2, <1>3, <1>4, <1>5

-----------------------------------------------------------------------------
(* The queues after an executor has taken its first notification.          *)
LEMMA QueueTaken ==
  ASSUME PlaceTypes, NEW e \in Executors, queue[e] # <<>>, NEW n, n = Taken(e),
         queue' = [queue EXCEPT ![e] = Tail(@)]
  PROVE  /\ queue' \in [Executors -> Seq(File \cup {NULL})]
         /\ n \in File \cup {NULL}
         /\ InQueues(n) # {}
         /\ \A f \in File : InQueues(f) = {} => InQueues(f)' = {}
         /\ \A f \in File : AtMostOne(InQueues(f)) => AtMostOne(InQueues(f)')
         /\ AtMostOne(InQueues(n)) => InQueues(n)' = {}
  <1> DEFINE S == File \cup {NULL}
  <1>1. queue \in [Executors -> Seq(S)] /\ queue[e] \in Seq(S)
    BY DEF PlaceTypes
  <1> HIDE DEF S
  <1>2. /\ Len(queue[e]) \in Nat \ {0} /\ n = queue[e][1] /\ n \in S
        /\ Tail(queue[e]) \in Seq(S) /\ Len(Tail(queue[e])) = Len(queue[e]) - 1
        /\ \A i \in 1 .. Len(queue[e]) - 1 : Tail(queue[e])[i] = queue[e][i + 1]
    BY <1>1, TailFacts DEF Taken
  <1>3. /\ queue' \in [Executors -> Seq(S)] /\ queue'[e] = Tail(queue[e])
        /\ \A d \in Executors \ {e} : queue'[d] = queue[d]
    BY <1>1, <1>2
  <1> DEFINE Was(p) == IF p[1] = e THEN <<e, p[2] + 1>> ELSE p
  <1>4. ASSUME NEW f, NEW d \in Executors, NEW i \in 1 .. Len(queue'[d]), queue'[d][i] = f
        PROVE  Was(<<d, i>>) \in InQueues(f) /\ Was(<<d, i>>) # <<e, 1>>
    <2>1. CASE d = e
      <3>1. i \in 1 .. Len(queue[e]) - 1 /\ i + 1 \in 1 .. Len(queue[e]) /\ i + 1 # 1
        BY <1>2, <1>3, <1>4, <2>1
      <3>2. queue[e][i + 1] = f /\ Was(<<d, i>>) = <<e, i + 1>>
        BY <1>2, <1>3, <1>4, <2>1, <3>1
      <3>3. QED
        BY <3>1, <3>2, QueuePlace
    <2>2. CASE d # e
      <3>1. queue[d][i] = f /\ i \in 1 .. Len(queue[d]) /\ Was(<<d, i>>) = <<d, i>>
        BY <1>3, <1>4, <2>2
      <3>2. QED
        BY <2>2, <3>1, QueuePlace
    <2>3. QED
      BY <2>1, <2>2
  <1>5. ASSUME NEW f, NEW p \in InQueues(f)'
        PROVE  \E d \in Executors : \E i \in 1 .. Len(queue'[d]) : queue'[d][i] = f /\ p = <<d, i>>
    <2>1. \A d \in Executors : DOMAIN queue'[d] = 1 .. Len(queue'[d])
      BY <1>3
    <2>2. QED
      BY <2>1, <1>5 DEF InQueues
  <1>6. <<e, 1>> \in InQueues(n)
    BY <1>2, QueuePlace
  <1>7. \A f : \A p \in InQueues(f)' : Was(p) \in InQueues(f) /\ Was(p) # <<e, 1>>
    BY <1>4, <1>5
  <1>8. ASSUME NEW f, AtMostOne(InQueues(f)), NEW p \in InQueues(f)', NEW q \in InQueues(f)'
        PROVE  p = q
    <2>1. Was(p) = Was(q)
      BY <1>7, <1>8 DEF AtMostOne
    <2>2. PICK d \in Executors : \E i \in 1 .. Len(queue'[d]) : p = <<d, i>>
      BY <1>5
    <2>3. PICK i \in 1 .. Len(queue'[d]) : p = <<d, i>>
      BY <2>2
    <2>4. PICK c \in Executors : \E j \in 1 .. Len(queue'[c]) : q = <<c, j>>
      BY <1>5
    <2>5. PICK j \in 1 .. Len(queue'[c]) : q = <<c, j>>
      BY <2>4
    <2>6. i \in Int /\ j \in Int
      OBVIOUS
    <2>7. c = d /\ i = j
      BY <2>1, <2>3, <2>5, <2>6
    <2>8. QED
      BY <2>3, <2>5, <2>7
  <1>9. \A f \in File : AtMostOne(InQueues(f)) => AtMostOne(InQueues(f)')
    BY <1>8 DEF AtMostOne
  <1>10. AtMostOne(InQueues(n)) => InQueues(n)' = {}
    BY <1>6, <1>7 DEF AtMostOne
  <1>11. \A f \in File : InQueues(f) = {} => InQueues(f)' = {}
    BY <1>7
  <1>12. InQueues(n) # {}
    BY <1>6
  <1>13. queue' \in [Executors -> Seq(File \cup {NULL})] /\ n \in File \cup {NULL}
    BY <1>2, <1>3 DEF S
  <1>14. QED
    BY <1>9, <1>10, <1>11, <1>12, <1>13

(* The queues after a notification.                                        *)
LEMMA QueueNotified ==
  ASSUME PlaceTypes, NEW e, NEW n \in File \cup {NULL}, Notify(e, n)
  PROVE  /\ queue' \in [Executors -> Seq(File \cup {NULL})]
         /\ \A f : f # n => InQueues(f)' = InQueues(f)
         /\ InQueues(n) = {} => AtMostOne(InQueues(n)')
  <1> DEFINE S == File \cup {NULL}
  <1>1. queue \in [Executors -> Seq(S)] /\ n \in S
    BY DEF PlaceTypes
  <1> HIDE DEF S
  <1>2. CASE e \notin Executors
    <2>1. queue' = queue
      BY <1>1, <1>2 DEF Notify
    <2>2. QED
      BY <1>1, <2>1 DEF AtMostOne, InQueues, S
  <1>3. CASE e \in Executors
    <2>1. /\ Len(queue[e]) \in Nat
          /\ Append(queue[e], n) \in Seq(S) /\ Len(Append(queue[e], n)) = Len(queue[e]) + 1
          /\ \A i \in 1 .. Len(queue[e]) : Append(queue[e], n)[i] = queue[e][i]
          /\ Append(queue[e], n)[Len(queue[e]) + 1] = n
      BY <1>1, <1>3, AppendFacts
    <2>2. /\ queue' \in [Executors -> Seq(S)] /\ queue'[e] = Append(queue[e], n)
          /\ \A d \in Executors \ {e} : queue'[d] = queue[d]
      BY <1>1, <1>3, <2>1 DEF Notify
    <2>3. \A d \in Executors : DOMAIN queue'[d] = 1 .. Len(queue'[d])
      BY <2>2
    <2>4. \A f, p : p \in InQueues(f)' <=>
            \E d \in Executors : \E i \in 1 .. Len(queue'[d]) : queue'[d][i] = f /\ p = <<d, i>>
      BY <2>3 DEF InQueues
    <2>5. ASSUME NEW f, NEW d \in Executors, NEW i \in 1 .. Len(queue'[d]), queue'[d][i] = f
          PROVE  \/ i \in 1 .. Len(queue[d]) /\ queue[d][i] = f
                 \/ f = n /\ d = e /\ i = Len(queue[e]) + 1
      BY <2>1, <2>2, <2>5
    <2>6. ASSUME NEW f, NEW d \in Executors, NEW i \in 1 .. Len(queue[d]), queue[d][i] = f
          PROVE  i \in 1 .. Len(queue'[d]) /\ queue'[d][i] = f
      BY <2>1, <2>2, <2>6
    <2>7. ASSUME NEW f, f # n PROVE InQueues(f)' = InQueues(f)
      <3>1. \A p : p \in InQueues(f)' => p \in InQueues(f)
        BY <2>4, <2>5, <2>7, QueuePlace
      <3>2. \A p : p \in InQueues(f) => p \in InQueues(f)'
        <4> SUFFICES ASSUME NEW p \in InQueues(f) PROVE p \in InQueues(f)'
          OBVIOUS
        <4>1. PICK d \in Executors : \E i \in 1 .. Len(queue[d]) : queue[d][i] = f /\ p = <<d, i>>
          BY QueuePlace
        <4>2. PICK i \in 1 .. Len(queue[d]) : queue[d][i] = f /\ p = <<d, i>>
          BY <4>1
        <4>3. i \in 1 .. Len(queue'[d]) /\ queue'[d][i] = f
          BY <2>6, <4>2
        <4>4. QED
          BY <2>4, <4>2, <4>3
      <3>3. QED
        BY <3>1, <3>2
    <2>8. ASSUME InQueues(n) = {}, NEW p \in InQueues(n)'
          PROVE  p = <<e, Len(queue[e]) + 1>>
      <3>1. PICK d \in Executors :
              \E i \in 1 .. Len(queue'[d]) : queue'[d][i] = n /\ p = <<d, i>>
        BY <2>4, <2>8
      <3>2. PICK i \in 1 .. Len(queue'[d]) : queue'[d][i] = n /\ p = <<d, i>>
        BY <3>1
      <3>3. ~(i \in 1 .. Len(queue[d]) /\ queue[d][i] = n)
        <4>1. <<d, i>> \notin InQueues(n)
          BY <2>8
        <4>2. QED
          BY <4>1, QueuePlace
      <3>4. QED
        BY <2>5, <3>2, <3>3
    <2>9. QED
      BY <2>2, <2>7, <2>8 DEF AtMostOne, S
  <1>4. QED
    BY <1>2, <1>3

-----------------------------------------------------------------------------
(* Where all places stay the same.                                         *)
LEMMA Stays ==
  ASSUME NEW f, UNCHANGED <<queue, working, io, callbacks>>
  PROVE  Places(f)' = Places(f)
  BY DEF Places

(* The same after a step.                                                  *)
LEMMA PlacesWillBe ==
  ASSUME NEW f
  PROVE  Places(f)' = InQueues(f)' \cup InHands(f)' \cup InOperations(f)' \cup InCallbacks(f)'
  BY DEF Places, InQueues, InHands, InOperations, InCallbacks

(* Where only the queues change.                                           *)
LEMMA QueuesMove ==
  ASSUME PlaceTypes, NEW f,
         InHands(f)' = InHands(f), InOperations(f)' = InOperations(f),
         InCallbacks(f)' = InCallbacks(f),
         InQueues(f) = {} => InQueues(f)' = {},
         AtMostOne(InQueues(f)) => AtMostOne(InQueues(f)')
  PROVE  MovesOn(f)
  <1>2. Places(f)' = InQueues(f)' \cup InHands(f) \cup InOperations(f) \cup InCallbacks(f)
    BY PlacesWillBe
  <1>3. CASE InQueues(f) = {}
    <2>1. Places(f)' = Places(f)
      BY <1>2, <1>3, PlacesAre
    <2>2. QED
      BY <2>1 DEF MovesOn, AtMostOne
  <1>4. CASE InQueues(f) # {}
    <2>1. Places(f) # {} /\ (AtMostOne(Places(f)) => AtMostOne(InQueues(f)))
      BY <1>4, PlacesAre DEF AtMostOne
    <2>2. AtMostOne(Places(f)) => Places(f)' = InQueues(f)'
      BY <1>2, <1>4, KindsApart
    <2>3. QED
      BY <2>1, <2>2 DEF MovesOn
  <1>5. QED
    BY <1>3, <1>4

(* The step of one task: where it was and where it is then.                *)
LEMMA OneMoves ==
  ASSUME PlaceTypes, NEW f, Places(f) # {},
         AtMostOne(Places(f)) => AtMostOne(Places(f)')
  PROVE  MovesOn(f)
  BY DEF MovesOn

(* Steps that move tasks on and change nothing of the clients.             *)
LEMMA MovesKeep ==
  ASSUME PlaceInv, UNCHANGED <<toAdd, clientPC, clientFile>>,
         \A f \in File : MovesOn(f)
  PROVE  AddedOnce' /\ OneOperation'
  <1>1. \A f \in File : AtMostOne(Places(f))
    BY DEF PlaceInv, OneOperation, AtMostOne
  <1>2. OneOperation'
    BY <1>1 DEF MovesOn, OneOperation, AtMostOne
  <1>3. \A f \in toAdd : Places(f)' = {}
    BY DEF PlaceInv, PlaceTypes, AddedOnce, MovesOn
  <1>4. ASSUME NEW c \in Client, Adding(c)
        PROVE  Places(clientFile[c])' = {}
    <2>1. PICK f \in File : f = clientFile[c]
      BY <1>4 DEF PlaceInv, PlaceTypes, Adding
    <2>2. Places(f) = {}
      BY <1>4, <2>1 DEF PlaceInv, AddedOnce
    <2>3. Places(f)' = {}
      BY <2>2 DEF MovesOn
    <2>4. f = clientFile'[c]
      BY <2>1
    <2>5. QED
      BY <2>3, <2>4
  <1>5. \A c \in Client : Adding(c)' <=> Adding(c)
    BY DEF Adding
  <1>6. AddedOnce'
    BY <1>3, <1>4, <1>5 DEF PlaceInv, AddedOnce
  <1>7. QED
    BY <1>2, <1>6

-----------------------------------------------------------------------------
(* One lemma for each step that moves a task.                              *)
LEMMA DieStep ==
  ASSUME PlaceTypes, NEW e \in Executors, E_Die(e)
  PROVE  PlaceTypes' /\ \A f \in File : MovesOn(f)
  <1>1. /\ queue[e] # <<>> /\ queue' = [queue EXCEPT ![e] = Tail(@)]
        /\ UNCHANGED <<toAdd, clientPC, clientFile, working, io, callbacks>>
    BY DEF E_Die, clientVars, ioVars
  <1>2. PICK n : n = Taken(e)
    OBVIOUS
  <1>3. /\ queue' \in [Executors -> Seq(File \cup {NULL})]
        /\ \A f \in File : InQueues(f) = {} => InQueues(f)' = {}
        /\ \A f \in File : AtMostOne(InQueues(f)) => AtMostOne(InQueues(f)')
    BY <1>1, <1>2, QueueTaken
  <1>4. \A f \in File : /\ InHands(f)' = InHands(f) /\ InOperations(f)' = InOperations(f)
                        /\ InCallbacks(f)' = InCallbacks(f)
    BY <1>1 DEF InHands, InOperations, InCallbacks
  <1>5. QED
    BY <1>1, <1>3, <1>4, QueuesMove DEF PlaceTypes

(* The reader takes a notification: the task goes from the queue to its    *)
(* hands.                                                                  *)
LEMMA CountStep ==
  ASSUME PlaceTypes, R_Count
  PROVE  PlaceTypes' /\ \A f \in File : MovesOn(f)
  <1>1. PICK n : n = Taken("reader")
    OBVIOUS
  <1>2. /\ queue["reader"] # <<>> /\ queue' = [queue EXCEPT !["reader"] = Tail(@)]
        /\ n # NULL /\ working["reader"] = NULL
        /\ working' = [working EXCEPT !["reader"] = n]
        /\ UNCHANGED <<toAdd, clientPC, clientFile, io, callbacks>>
    BY <1>1 DEF R_Count, clientVars, ioVars
  <1>3. "reader" \in Executors
    BY DEF Executors
  <1>4. /\ queue' \in [Executors -> Seq(File \cup {NULL})]
        /\ n \in File /\ InQueues(n) # {}
        /\ \A f \in File : InQueues(f) = {} => InQueues(f)' = {}
        /\ \A f \in File : AtMostOne(InQueues(f)) => AtMostOne(InQueues(f)')
        /\ AtMostOne(InQueues(n)) => InQueues(n)' = {}
    BY <1>1, <1>2, <1>3, QueueTaken
  <1>5. working \in [Executors -> File \cup {NULL}]
    BY DEF PlaceTypes
  <1>6. PlaceTypes'
    BY <1>2, <1>4, <1>5 DEF PlaceTypes
  <1>7. ASSUME NEW f \in File, f # n PROVE MovesOn(f)
    <2>1. InHands(f)' = InHands(f)
      BY <1>2, <1>5, <1>7, ValuesAssumption DEF InHands
    <2>2. InOperations(f)' = InOperations(f) /\ InCallbacks(f)' = InCallbacks(f)
      BY <1>2 DEF InOperations, InCallbacks
    <2>3. QED
      BY <1>4, <2>1, <2>2, QueuesMove
  <1>8. MovesOn(n)
    <2>1. Places(n) # {}
      BY <1>4, PlacesAre
    <2>2. ASSUME AtMostOne(Places(n)) PROVE AtMostOne(Places(n)')
      <3>1. InHands(n) = {} /\ InOperations(n) = {} /\ InCallbacks(n) = {}
        BY <1>4, <2>2, KindsApart
      <3>2. InQueues(n)' = {}
        BY <1>4, <2>2, PlacesAre DEF AtMostOne
      <3>3. InHands(n)' \subseteq {<<"working", "reader">>}
        BY <1>2, <1>5, <3>1 DEF InHands
      <3>4. InOperations(n)' = {} /\ InCallbacks(n)' = {}
        BY <1>2, <3>1 DEF InOperations, InCallbacks
      <3>5. QED
        BY <3>2, <3>3, <3>4, PlacesWillBe DEF AtMostOne
    <2>3. QED
      BY <2>1, <2>2, OneMoves
  <1>9. QED
    BY <1>6, <1>7, <1>8

(* The reader lets the task go.                                            *)
LEMMA FinishStep ==
  ASSUME PlaceTypes, R_Finish
  PROVE  PlaceTypes' /\ \A f \in File : MovesOn(f)
  <1>1. /\ working' = [working EXCEPT !["reader"] = NULL]
        /\ UNCHANGED <<toAdd, clientPC, clientFile, queue, io, callbacks>>
    BY DEF R_Finish, clientVars, ioVars
  <1>2. working \in [Executors -> File \cup {NULL}]
    BY DEF PlaceTypes
  <1>3. ASSUME NEW f \in File PROVE MovesOn(f)
    <2>1. InHands(f)' \subseteq InHands(f)
      BY <1>1, <1>2, ValuesAssumption DEF InHands
    <2>2. InQueues(f)' = InQueues(f) /\ InOperations(f)' = InOperations(f)
          /\ InCallbacks(f)' = InCallbacks(f)
      BY <1>1 DEF InQueues, InOperations, InCallbacks
    <2>3. Places(f)' \subseteq Places(f)
      BY <2>1, <2>2, PlacesAre, PlacesWillBe
    <2>4. QED
      BY <2>3 DEF MovesOn, AtMostOne
  <1>4. QED
    BY <1>1, <1>2, <1>3 DEF PlaceTypes

(* The reader hands the task to the system, or loses it.                   *)
LEMMA ReadStep ==
  ASSUME PlaceTypes, R_Read
  PROVE  PlaceTypes' /\ \A f \in File : MovesOn(f)
  <1>1. PICK n \in File : n = working["reader"]
    BY DEF PlaceTypes, R_Read, Executors
  <1>2. /\ working' = [working EXCEPT !["reader"] = NULL]
        /\ io' = io \cup {<<"read", n>>} \/ io' = io
        /\ UNCHANGED <<toAdd, clientPC, clientFile, queue, callbacks>>
    BY <1>1 DEF R_Read, Submit, clientVars
  <1>3. working \in [Executors -> File \cup {NULL}] /\ "reader" \in Executors
    BY DEF PlaceTypes, Executors
  <1>4. PlaceTypes'
    BY <1>1, <1>2, <1>3 DEF PlaceTypes
  <1>5. ASSUME NEW f \in File
        PROVE  InQueues(f)' = InQueues(f) /\ InCallbacks(f)' = InCallbacks(f)
    BY <1>2 DEF InQueues, InCallbacks
  <1>6. ASSUME NEW f \in File, f # n PROVE MovesOn(f)
    <2>1. InHands(f)' = InHands(f)
      BY <1>1, <1>2, <1>3, <1>6, ValuesAssumption DEF InHands
    <2>2. InOperations(f)' = InOperations(f)
      BY <1>2, <1>6 DEF InOperations
    <2>3. QED
      BY <1>5, <2>1, <2>2, QueuesMove
  <1>7. MovesOn(n)
    <2>1. <<"working", "reader">> \in InHands(n)
      BY <1>1, <1>3 DEF InHands
    <2>2. Places(n) # {}
      BY <2>1, PlacesAre
    <2>3. ASSUME AtMostOne(Places(n)) PROVE AtMostOne(Places(n)')
      <3>1. InQueues(n) = {} /\ InOperations(n) = {} /\ InCallbacks(n) = {}
        BY <2>1, <2>3, KindsApart
      <3>2. \A p \in InHands(n) : p = <<"working", "reader">>
        BY <2>1, <2>3, PlacesAre DEF AtMostOne
      <3>3. InHands(n)' = {}
        BY <1>1, <1>2, <1>3, <3>2, ValuesAssumption DEF InHands
      <3>4. InOperations(n)' \subseteq {<<"read", n>>}
        BY <1>2, <3>1 DEF InOperations
      <3>5. QED
        BY <1>5, <3>1, <3>3, <3>4, PlacesWillBe DEF AtMostOne
    <2>4. QED
      BY <2>2, <2>3, OneMoves
  <1>8. QED
    BY <1>4, <1>6, <1>7

(* The writer takes a task and hands it to the system, or loses it.        *)
LEMMA WriteStep ==
  ASSUME PlaceTypes, W_Write
  PROVE  PlaceTypes' /\ \A f \in File : MovesOn(f)
  <1>1. PICK n : n = Taken("writer")
    OBVIOUS
  <1>2. /\ queue["writer"] # <<>> /\ queue' = [queue EXCEPT !["writer"] = Tail(@)]
        /\ n # NULL
        /\ io' = io \cup {<<"write", n>>} \/ io' = io
        /\ UNCHANGED <<toAdd, clientPC, clientFile, working, callbacks>>
    BY <1>1 DEF W_Write, Submit, clientVars
  <1>3. "writer" \in Executors
    BY DEF Executors
  <1>4. /\ queue' \in [Executors -> Seq(File \cup {NULL})]
        /\ n \in File /\ InQueues(n) # {}
        /\ \A f \in File : InQueues(f) = {} => InQueues(f)' = {}
        /\ \A f \in File : AtMostOne(InQueues(f)) => AtMostOne(InQueues(f)')
        /\ AtMostOne(InQueues(n)) => InQueues(n)' = {}
    BY <1>1, <1>2, <1>3, QueueTaken
  <1>5. PlaceTypes'
    BY <1>2, <1>4 DEF PlaceTypes
  <1>6. ASSUME NEW f \in File
        PROVE  InHands(f)' = InHands(f) /\ InCallbacks(f)' = InCallbacks(f)
    BY <1>2 DEF InHands, InCallbacks
  <1>7. ASSUME NEW f \in File, f # n PROVE MovesOn(f)
    <2>1. InOperations(f)' = InOperations(f)
      BY <1>2, <1>7 DEF InOperations
    <2>2. QED
      BY <1>4, <1>6, <2>1, QueuesMove
  <1>8. MovesOn(n)
    <2>1. Places(n) # {}
      BY <1>4, PlacesAre
    <2>2. ASSUME AtMostOne(Places(n)) PROVE AtMostOne(Places(n)')
      <3>1. InHands(n) = {} /\ InOperations(n) = {} /\ InCallbacks(n) = {}
        BY <1>4, <2>2, KindsApart
      <3>2. InQueues(n)' = {}
        BY <1>4, <2>2, PlacesAre DEF AtMostOne
      <3>3. InOperations(n)' \subseteq {<<"write", n>>}
        BY <1>2, <3>1 DEF InOperations
      <3>4. QED
        BY <1>4, <1>6, <3>1, <3>2, <3>3, PlacesWillBe DEF AtMostOne
    <2>3. QED
      BY <2>1, <2>2, OneMoves
  <1>9. QED
    BY <1>5, <1>7, <1>8

(* The system has executed an operation.                                   *)
LEMMA DoneStep ==
  ASSUME PlaceTypes, NEW n \in File, NEW op \in {"read", "write"}, <<op, n>> \in io,
         io' = io \ {<<op, n>>}, callbacks' = callbacks \cup {n},
         UNCHANGED <<toAdd, clientPC, clientFile, queue, working>>
  PROVE  PlaceTypes' /\ \A f \in File : MovesOn(f)
  <1>1. PlaceTypes'
    BY DEF PlaceTypes
  <1>2. ASSUME NEW f \in File
        PROVE  InQueues(f)' = InQueues(f) /\ InHands(f)' = InHands(f)
    BY DEF InQueues, InHands
  <1>3. ASSUME NEW f \in File, f # n PROVE MovesOn(f)
    <2>1. InOperations(f)' = InOperations(f) /\ InCallbacks(f)' = InCallbacks(f)
      BY <1>3 DEF InOperations, InCallbacks
    <2>2. QED
      BY <1>2, <2>1, QueuesMove
  <1>4. MovesOn(n)
    <2>1. <<op, n>> \in InOperations(n)
      BY DEF InOperations
    <2>2. Places(n) # {}
      BY <2>1, PlacesAre
    <2>3. ASSUME AtMostOne(Places(n)) PROVE AtMostOne(Places(n)')
      <3>1. InQueues(n) = {} /\ InHands(n) = {} /\ InCallbacks(n) = {}
        BY <2>1, <2>3, KindsApart
      <3>2. InOperations(n) = {<<op, n>>}
        BY <2>1, <2>3, PlacesAre DEF AtMostOne
      <3>3. InOperations(n)' = {}
        BY <3>2 DEF InOperations
      <3>4. InCallbacks(n)' \subseteq {<<"callback", n>>}
        BY DEF InCallbacks
      <3>5. QED
        BY <1>2, <3>1, <3>3, <3>4, PlacesWillBe DEF AtMostOne
    <2>4. QED
      BY <2>2, <2>3, OneMoves
  <1>5. QED
    BY <1>1, <1>3, <1>4

(* aio_callback notifies an executor.                                      *)
LEMMA CallbackStep ==
  ASSUME PlaceTypes, NEW n \in File, IO_Callback(n)
  PROVE  PlaceTypes' /\ \A f \in File : MovesOn(f)
  <1>1. /\ n \in callbacks /\ callbacks' = callbacks \ {n}
        /\ Notify(executor[n], n)
        /\ UNCHANGED <<toAdd, clientPC, clientFile, working, io>>
    BY DEF IO_Callback, clientVars
  <1>2. /\ queue' \in [Executors -> Seq(File \cup {NULL})]
        /\ \A f : f # n => InQueues(f)' = InQueues(f)
        /\ InQueues(n) = {} => AtMostOne(InQueues(n)')
    BY <1>1, QueueNotified
  <1>3. PlaceTypes'
    BY <1>1, <1>2 DEF PlaceTypes
  <1>4. ASSUME NEW f \in File
        PROVE  InHands(f)' = InHands(f) /\ InOperations(f)' = InOperations(f)
    BY <1>1 DEF InHands, InOperations
  <1>5. ASSUME NEW f \in File, f # n PROVE MovesOn(f)
    <2>1. InCallbacks(f)' = InCallbacks(f)
      BY <1>1, <1>5 DEF InCallbacks
    <2>2. QED
      BY <1>2, <1>4, <1>5, <2>1, QueuesMove
  <1>6. MovesOn(n)
    <2>1. InCallbacks(n) # {} /\ InCallbacks(n)' = {}
      BY <1>1 DEF InCallbacks
    <2>2. Places(n) # {}
      BY <2>1, PlacesAre
    <2>3. ASSUME AtMostOne(Places(n)) PROVE AtMostOne(Places(n)')
      <3>1. InQueues(n) = {} /\ InHands(n) = {} /\ InOperations(n) = {}
        BY <2>1, <2>3, KindsApart
      <3>2. Places(n)' = InQueues(n)'
        BY <1>4, <2>1, <3>1, PlacesWillBe
      <3>3. QED
        BY <1>2, <3>1, <3>2
    <2>4. QED
      BY <2>2, <2>3, OneMoves
  <1>7. QED
    BY <1>3, <1>5, <1>6

(* Main tells an executor to end.                                          *)
LEMMA EndStep ==
  ASSUME PlaceTypes, NEW e, Notify(e, NULL),
         UNCHANGED <<toAdd, clientPC, clientFile, working, io, callbacks>>
  PROVE  PlaceTypes' /\ \A f \in File : MovesOn(f)
  <1>1. /\ queue' \in [Executors -> Seq(File \cup {NULL})]
        /\ \A f \in File : InQueues(f)' = InQueues(f)
    BY QueueNotified, ValuesAssumption
  <1>2. \A f \in File : /\ InHands(f)' = InHands(f) /\ InOperations(f)' = InOperations(f)
                        /\ InCallbacks(f)' = InCallbacks(f)
    BY DEF InHands, InOperations, InCallbacks
  <1>3. PlaceTypes'
    BY <1>1 DEF PlaceTypes
  <1>4. QED
    BY <1>1, <1>2, <1>3, QueuesMove

-----------------------------------------------------------------------------
(* add_task but for its notification: the task is nowhere yet.             *)
LEMMA ClientsKeep ==
  ASSUME PlaceInv, NEW c \in Client,
         A_Create(c) \/ A_CreateFails(c) \/ A_Append(c) \/ A_Return(c)
  PROVE  PlaceInv'
  <1> USE DEF PlaceInv, PlaceTypes
  <1>1. UNCHANGED <<queue, working, io, callbacks>>
    BY DEF A_Create, A_CreateFails, A_Append, A_Return, executorVars, ioVars
  <1>2. \A f : Places(f)' = Places(f)
    BY <1>1, Stays
  <1>3. OneOperation'
    BY <1>2 DEF OneOperation
  <1>4. PlaceTypes'
    BY <1>1 DEF A_Create, A_CreateFails, A_Append, A_Return
  <1>5. CASE A_Create(c)
    <2>1. PICK f \in toAdd : /\ toAdd' = toAdd \ {f}
                             /\ clientFile' = [clientFile EXCEPT ![c] = f]
                             /\ clientPC' = [clientPC EXCEPT ![c] = "append"]
      BY <1>5 DEF A_Create
    <2>2. \A d \in Client \ {c} : clientFile'[d] = clientFile[d] /\ (Adding(d)' <=> Adding(d))
      BY <2>1 DEF Adding
    <2>3. clientFile'[c] = f /\ ~Adding(c)
      BY <1>5, <2>1 DEF A_Create, Adding
    <2>4. \A g \in toAdd' : Places(g)' = {}
      BY <1>2, <2>1 DEF AddedOnce
    <2>5. ASSUME NEW d \in Client, Adding(d)'
          PROVE  clientFile'[d] \in File /\ clientFile'[d] \notin toAdd' /\ Places(clientFile'[d]) = {}
      BY <2>1, <2>2, <2>3, <2>5 DEF AddedOnce, Adding
    <2>6. ASSUME NEW d \in Client, NEW b \in Client, Adding(d)', Adding(b)', d # b
          PROVE  clientFile'[d] # clientFile'[b]
      BY <2>1, <2>2, <2>3, <2>6 DEF AddedOnce
    <2>7. \A d \in Client : Adding(d)' => Places(clientFile[d])' = {}
      BY <1>2, <2>5 DEF Places
    <2>8. QED
      BY <1>3, <1>4, <2>4, <2>5, <2>6, <2>7 DEF AddedOnce
  <1>6. CASE A_CreateFails(c) \/ A_Append(c) \/ A_Return(c)
    <2>1. /\ toAdd' \subseteq toAdd
          /\ \A d \in Client : Adding(d)' => Adding(d) /\ clientFile'[d] = clientFile[d]
      BY <1>6 DEF A_CreateFails, A_Append, A_Return, Adding
    <2>2. ASSUME NEW d \in Client, Adding(d)' PROVE Places(clientFile[d])' = {}
      <3>1. PICK f : f = clientFile[d]
        OBVIOUS
      <3>2. Places(f) = {} /\ f = clientFile'[d]
        BY <2>1, <2>2, <3>1 DEF AddedOnce
      <3>3. QED
        BY <1>2, <3>2
    <2>3. QED
      BY <1>2, <1>3, <1>4, <2>1, <2>2 DEF AddedOnce
  <1>7. QED
    BY <1>5, <1>6

(* The notification puts the task where it was not.                        *)
LEMMA NotifyKeeps ==
  ASSUME PlaceInv, NEW c \in Client, A_Notify(c)
  PROVE  PlaceInv'
  <1>1. PICK n \in File : n = clientFile[c]
    BY DEF PlaceInv, PlaceTypes, A_Notify
  <1>2. /\ clientPC[c] = "notify" /\ clientPC' = [clientPC EXCEPT ![c] = "return"]
        /\ Notify("reader", n)
        /\ UNCHANGED <<toAdd, clientFile, working, io, callbacks>>
    BY <1>1 DEF A_Notify, ioVars
  <1>3. PlaceTypes
    BY DEF PlaceInv
  <1>4. /\ queue' \in [Executors -> Seq(File \cup {NULL})]
        /\ \A f : f # n => InQueues(f)' = InQueues(f)
        /\ InQueues(n) = {} => AtMostOne(InQueues(n)')
    BY <1>2, <1>3, QueueNotified
  <1>5. \A f : /\ InHands(f)' = InHands(f) /\ InOperations(f)' = InOperations(f)
               /\ InCallbacks(f)' = InCallbacks(f)
    BY <1>2 DEF InHands, InOperations, InCallbacks
  <1>6. \A f : f # n => Places(f)' = Places(f)
    BY <1>4, <1>5, PlacesAre, PlacesWillBe
  <1>7. n \notin toAdd /\ Places(n) = {} /\ \A d \in Client \ {c} : Adding(d) => clientFile[d] # n
    BY <1>1, <1>2 DEF PlaceInv, AddedOnce, Adding
  <1>8. AtMostOne(Places(n)')
    <2>1. InQueues(n) = {} /\ Places(n)' = InQueues(n)'
      BY <1>5, <1>7, PlacesAre, PlacesWillBe
    <2>2. QED
      BY <1>4, <2>1
  <1>9. OneOperation'
    BY <1>6, <1>8 DEF PlaceInv, OneOperation, AtMostOne
  <1>10. PlaceTypes'
    BY <1>2, <1>3, <1>4 DEF PlaceTypes
  <1>11. \A d \in Client : Adding(d)' => Adding(d) /\ d # c
    BY <1>2, <1>3 DEF PlaceTypes, Adding
  <1>12. ASSUME NEW d \in Client, Adding(d)' PROVE Places(clientFile[d])' = {}
    <2>1. PICK f : f = clientFile[d]
      OBVIOUS
    <2>2. f # n /\ Places(f) = {}
      BY <1>7, <1>11, <1>12, <2>1 DEF PlaceInv, AddedOnce
    <2>3. Places(f)' = {} /\ f = clientFile'[d]
      BY <1>2, <1>6, <2>1, <2>2
    <2>4. QED
      BY <2>3
  <1>13. AddedOnce'
    BY <1>2, <1>6, <1>7, <1>11, <1>12 DEF PlaceInv, AddedOnce
  <1>14. QED
    BY <1>9, <1>10, <1>13 DEF PlaceInv

-----------------------------------------------------------------------------
(* Every step keeps each task in one place.                                *)
LEMMA PlaceStep == PlaceInv /\ [Next]_vars => PlaceInv'
  <1> SUFFICES ASSUME PlaceInv, [Next]_vars PROVE PlaceInv'
    OBVIOUS
  <1>1. PlaceTypes
    BY DEF PlaceInv
  <1>2. ASSUME NEW c \in Client, ClientStep(c) PROVE PlaceInv'
    BY <1>2, ClientsKeep, NotifyKeeps DEF ClientStep
  <1>3. CASE ReaderStep \/ WriterStep
    <2>1. PlaceTypes' /\ \A f \in File : MovesOn(f)
      BY <1>1, <1>3, DieStep, CountStep, FinishStep, ReadStep, WriteStep
         DEF ReaderStep, WriterStep, Executors
    <2>2. UNCHANGED <<toAdd, clientPC, clientFile>>
      BY <1>3 DEF ReaderStep, WriterStep, E_Die, R_Count, R_Finish, R_Read, W_Write, clientVars
    <2>3. QED
      BY <2>1, <2>2, MovesKeep DEF PlaceInv
  <1>4. ASSUME NEW f \in File, SystemStep(f) PROVE PlaceInv'
    <2>1. UNCHANGED <<toAdd, clientPC, clientFile>>
      BY <1>4 DEF SystemStep, IO_Read, IO_Write, IO_Callback, clientVars
    <2>2. PlaceTypes' /\ \A g \in File : MovesOn(g)
      <3>1. CASE IO_Read(f)
        BY <1>1, <2>1, <3>1, DoneStep DEF IO_Read, executorVars
      <3>2. CASE IO_Write(f)
        BY <1>1, <2>1, <3>2, DoneStep DEF IO_Write, executorVars
      <3>3. CASE IO_Callback(f)
        BY <1>1, <3>3, CallbackStep
      <3>4. QED
        BY <1>4, <3>1, <3>2, <3>3 DEF SystemStep
    <2>3. QED
      BY <2>1, <2>2, MovesKeep DEF PlaceInv
  <1>5. CASE M_KillReader \/ M_KillWriter
    <2>1. UNCHANGED <<toAdd, clientPC, clientFile, working, io, callbacks>>
      BY <1>5 DEF M_KillReader, M_KillWriter, clientVars, ioVars
    <2>2. \E e : Notify(e, NULL)
      BY <1>5 DEF M_KillReader, M_KillWriter
    <2>3. PlaceTypes' /\ \A f \in File : MovesOn(f)
      BY <1>1, <2>1, <2>2, EndStep
    <2>4. QED
      BY <2>1, <2>3, MovesKeep DEF PlaceInv
  <1>6. CASE M_Round \/ M_Poll \/ M_Progress \/ M_Free \/ UNCHANGED vars
    <2>1. UNCHANGED <<toAdd, clientPC, clientFile, queue, working, io, callbacks>>
      BY <1>6 DEF M_Round, M_Poll, M_Progress, M_Free, vars, clientVars, executorVars, ioVars
    <2>2. PlaceTypes' /\ \A f \in File : MovesOn(f)
      BY <1>1, <2>1, Stays DEF PlaceTypes, MovesOn, AtMostOne
    <2>3. QED
      BY <2>1, <2>2, MovesKeep DEF PlaceInv
  <1>7. QED
    BY <1>2, <1>3, <1>4, <1>5, <1>6 DEF Next, Clients, Reader, Writer, System, Main, MainStep

(* zox_aio_task.c:17-21, reader.c:9-43, writer.c:9-24: no two operations   *)
(* are ever under way on the one aiocb of a task, and nobody prepares one  *)
(* meanwhile.                                                              *)
THEOREM OneOperationAtATime == Spec => []OneOperation
  <1>1. Init => PlaceInv
    <2> SUFFICES ASSUME Init PROVE PlaceInv
      OBVIOUS
    <2>1. PlaceTypes
      BY DEF Init, PlaceTypes
    <2>2. \A f \in File : Places(f) = {}
      BY ValuesAssumption DEF Init, Places, Executors
    <2>3. QED
      BY <2>1, <2>2 DEF Init, PlaceInv, AddedOnce, OneOperation, Adding
  <1>2. PlaceInv => OneOperation
    BY DEF PlaceInv
  <1>3. QED
    BY <1>1, <1>2, PlaceStep, PTL DEF Spec
-----------------------------------------------------------------------------
(* Where a task is, and what was reserved, read, written and counted so    *)
(* far.                                                                    *)
In(e, f) == \E i \in 1 .. Len(queue[e]) : queue[e][i] = f
Held(f) == working["reader"] = f
Doing(op, f) == <<op, f>> \in io
Answered(f) == f \in callbacks
Refused(op, f) == <<op, f>> \in stalled

Counted(f) == buffers_written[f] * BufferSize
Reserved(f) == start[f] # -1

(* The first k bytes of a file are at their places.                        *)
CopiedTo(f, k) ==
  \A i \in 0 .. size[f] - 1 :
     i < k => start[f] + i \in Position /\ target[start[f] + i] = <<f, i>>

(* The next buffer of a task is under way.                                 *)
UnderWay(f) ==
  /\ Reserved(f)
  /\ Remaining(f) > 0
  /\ read_offset[f] = Counted(f) + BufferSize
  /\ aio_nbytes[f] = IF Remaining(f) < BufferSize THEN Remaining(f) ELSE BufferSize

Filled(f) == \A i \in 0 .. aio_nbytes[f] - 1 : buffer[f][i] = <<f, Counted(f) + i>>

ToWrite(f) == executor[f] = "writer" /\ write_offset[f] = start[f] + Counted(f)
Written(f) ==
  executor[f] = "reader" /\ write_offset[f] = start[f] + Counted(f) + BufferSize

Nowhere(f) ==
  /\ ~In("reader", f) /\ ~In("writer", f) /\ ~Held(f)
  /\ ~Doing("read", f) /\ ~Doing("write", f) /\ ~Answered(f)

(* No reader has seen the task yet.                                        *)
Unseen(f) ==
  /\ buffers_written[f] = 0
  /\ read_offset[f] = 0
  /\ buffer[f][0] = HOLE
  /\ aio_nbytes[f] = BufferSize
  /\ Reserved(f) => write_offset[f] = start[f]
  /\ ~In("writer", f) /\ ~Held(f)
  /\ ~Doing("read", f) /\ ~Doing("write", f) /\ ~Answered(f)
  /\ ~Refused("read", f) /\ ~Refused("write", f)

(* What is known of a task at each place.                                  *)
TaskInv(f) ==
  /\ executor[f] = NULL => Unseen(f)
  /\ ~Reserved(f) => executor[f] = NULL /\ Nowhere(f)
  /\ Reserved(f) => start[f] \in Nat /\ write_offset[f] >= start[f] + Counted(f)
  /\ CopiedTo(f, Counted(f))
  /\ In("reader", f) =>
        \/ executor[f] = NULL
        \/ UnderWay(f) /\ Filled(f) /\ Written(f) /\ CopiedTo(f, Counted(f) + BufferSize)
  /\ Held(f) =>
        /\ Reserved(f) /\ ToWrite(f) /\ read_offset[f] = Counted(f)
        /\ Remaining(f) > 0 => aio_nbytes[f] = BufferSize
  /\ Doing("read", f) => UnderWay(f) /\ ToWrite(f) /\ aio_offset[f] = Counted(f)
  /\ In("writer", f) => UnderWay(f) /\ Filled(f) /\ ToWrite(f)
  /\ Doing("write", f) =>
        UnderWay(f) /\ Filled(f) /\ Written(f) /\ aio_offset[f] = start[f] + Counted(f)
  /\ Answered(f) =>
        /\ UnderWay(f) /\ Filled(f)
        /\ ToWrite(f) \/ (Written(f) /\ CopiedTo(f, Counted(f) + BufferSize))
  /\ Refused("read", f) => Nowhere(f) /\ UnderWay(f) /\ ToWrite(f)
  /\ Refused("write", f) =>
        Nowhere(f) /\ UnderWay(f) /\ Written(f) /\ aio_offset[f] = start[f] + Counted(f)

(* Places are reserved once, one after the other.                          *)
ReservedInv ==
  /\ \A f \in toAdd : ~Reserved(f)
  /\ \A c \in Client : clientPC[c] # "idle" => Reserved(clientFile[c])
  /\ \A c \in Client : Adding(c) => executor[clientFile[c]] = NULL
  /\ \A f \in File : Reserved(f) => start[f] + size[f] <= expected
  /\ \A f, g \in File : f # g /\ Reserved(f) /\ Reserved(g) =>
        start[f] + size[f] <= start[g] \/ start[g] + size[g] <= start[f]

TaskOf(f) == tasks[id[f] + 1]
Known(f) == id[f] \notin {NULL, -1}
Over(f) == size[f] > 0 /\ Remaining(f) <= 0

(* What main has seen of the tasks, and how the executors end.             *)
MainInv ==
  /\ mainPC # "add" => toAdd = {} /\ \A c \in Client : clientPC[c] = "idle"
  /\ \A f \in File : id[f] = NULL =>
        f \in toAdd \/ \E c \in Client : clientPC[c] # "idle" /\ clientFile[c] = f
  /\ \A f \in File : Known(f) => id[f] \in 0 .. Len(tasks) - 1
  /\ \A c \in Client : clientPC[c] \in {"notify", "return"} => tasks # <<>>
  /\ mainPC = "progress" => polling \in File /\ bytesRead <= Counted(polling)
  /\ is_completed = 1 /\ mainPC \in {"poll", "progress"} /\ process = "running" =>
        \A f \in File \ toPoll :
           Known(f) /\ (Over(TaskOf(f)) \/ (mainPC = "progress" /\ TaskOf(f) = polling))
  /\ mainPC \in {"joinReader", "joinWriter", "freed"} =>
        \A f \in File : Known(f) /\ Over(TaskOf(f))
  /\ "reader" \in dead => working["reader"] = NULL
  /\ working["writer"] = NULL
  /\ mainPC \in {"joinWriter", "freed"} => "reader" \in dead

(* What holds of any files, ...                                            *)
BaseInv == TypeOK /\ PlaceInv /\ MainInv

(* ... and what holds of texts, files without a byte '\0'.                 *)
CopyInv == BaseInv /\ ReservedInv /\ \A f \in File : TaskInv(f)

-----------------------------------------------------------------------------
(* A task that is somewhere is nowhere else.                               *)
OneSpot(f) ==
  /\ In("reader", f) =>
        /\ ~In("writer", f) /\ ~Held(f)
        /\ ~Doing("read", f) /\ ~Doing("write", f) /\ ~Answered(f)
  /\ In("writer", f) =>
        ~Held(f) /\ ~Doing("read", f) /\ ~Doing("write", f) /\ ~Answered(f)
  /\ Held(f) => ~Doing("read", f) /\ ~Doing("write", f) /\ ~Answered(f)
  /\ Doing("read", f) => ~Doing("write", f) /\ ~Answered(f)
  /\ Doing("write", f) => ~Answered(f)

(* zox_aio_task.c:18: no task is in two of the places at once.             *)
LEMMA SpotsApart ==
  ASSUME PlaceInv, NEW f \in File
  PROVE  OneSpot(f)
  <1>1. PlaceTypes /\ AtMostOne(Places(f))
    BY DEF PlaceInv, OneOperation, AtMostOne
  <1>2. \A e \in Executors : In(e, f) =>
           InQueues(f) # {} /\ \E i \in 1 .. Len(queue[e]) : <<e, i>> \in InQueues(f)
    <2> SUFFICES ASSUME NEW e \in Executors, In(e, f)
                 PROVE  \E i \in 1 .. Len(queue[e]) : <<e, i>> \in InQueues(f)
      OBVIOUS
    <2> PICK i \in 1 .. Len(queue[e]) : queue[e][i] = f
      BY DEF In
    <2>1. <<e, i>> \in InQueues(f)
      BY <1>1, QueuePlace
    <2>2. QED
      BY <2>1
  <1>3. Held(f) => InHands(f) # {}
    <2>1. Held(f) => <<"working", "reader">> \in InHands(f)
      BY DEF Held, InHands, Executors
    <2>2. QED
      BY <2>1
  <1>4. \A op : Doing(op, f) => <<op, f>> \in InOperations(f)
    BY DEF Doing, InOperations
  <1>5. Answered(f) => InCallbacks(f) # {}
    <2>1. Answered(f) => <<"callback", f>> \in InCallbacks(f)
      BY DEF Answered, InCallbacks
    <2>2. QED
      BY <2>1
  <1>6. In("reader", f) => ~In("writer", f)
    <2> SUFFICES ASSUME In("reader", f), In("writer", f) PROVE FALSE
      OBVIOUS
    <2> PICK i \in 1 .. Len(queue["reader"]) : <<"reader", i>> \in InQueues(f)
      BY <1>2 DEF Executors
    <2> PICK j \in 1 .. Len(queue["writer"]) : <<"writer", j>> \in InQueues(f)
      BY <1>2 DEF Executors
    <2>1. <<"reader", i>> # <<"writer", j>>
      OBVIOUS
    <2>2. QED
      BY <1>1, <2>1, PlacesAre DEF AtMostOne
  <1>7. ~(Doing("read", f) /\ Doing("write", f))
    <2>1. <<"read", f>> # <<"write", f>>
      OBVIOUS
    <2>2. QED
      BY <1>1, <1>4, <2>1, PlacesAre DEF AtMostOne
  <1>8. \A op : Doing(op, f) => InOperations(f) # {}
    BY <1>4
  <1>9. QED
    BY <1>1, <1>2, <1>3, <1>5, <1>6, <1>7, <1>8, KindsApart DEF OneSpot, Executors

(* An executor that takes a notification of a task takes the only one.     *)
LEMMA TakenFrom ==
  ASSUME PlaceInv, NEW e \in Executors, queue[e] # <<>>, NEW n, n = Taken(e),
         queue' = [queue EXCEPT ![e] = Tail(@)]
  PROVE  /\ n # NULL => n \in File /\ In(e, n) /\ ~In(e, n)'
         /\ \A d \in Executors : \A g : In(d, g)' => In(d, g)
  <1> DEFINE q == queue[e]
  <1>1. PlaceTypes /\ queue \in [Executors -> Seq(File \cup {NULL})] /\ q \in Seq(File \cup {NULL})
    BY DEF PlaceInv, PlaceTypes
  <1>2. n \in File \cup {NULL} /\ (AtMostOne(InQueues(n)) => InQueues(n)' = {})
    BY <1>1, QueueTaken
  <1>4. /\ Len(q) \in Nat \ {0} /\ n = q[1] /\ Len(Tail(q)) = Len(q) - 1
        /\ \A i \in 1 .. Len(q) - 1 : Tail(q)[i] = q[i + 1]
    BY <1>1, TailFacts DEF Taken
  <1>5. queue'[e] = Tail(q) /\ \A d \in Executors : d # e => queue'[d] = queue[d]
    BY <1>1
  <1>6. In(e, n)
    BY <1>4 DEF In
  <1>7. ASSUME NEW d \in Executors, NEW g, In(d, g)' PROVE In(d, g)
    <2>1. CASE d # e
      BY <1>5, <1>7, <2>1 DEF In
    <2>2. CASE d = e
      <3>0. PICK i \in 1 .. Len(queue'[e]) : queue'[e][i] = g
        BY <1>7, <2>2 DEF In
      <3> i \in 1 .. Len(q) - 1 /\ q[i + 1] = g
        BY <1>4, <1>5, <3>0
      <3>1. i + 1 \in 1 .. Len(q)
        BY <1>4
      <3>2. QED
        BY <2>2, <3>1 DEF In
    <2>3. QED
      BY <2>1, <2>2
  <1>8. ASSUME n \in File, In(e, n)' PROVE FALSE
    <2>1. AtMostOne(InQueues(n))
      BY <1>8, PlacesAre DEF PlaceInv, OneOperation, AtMostOne
    <2>2. PICK i \in 1 .. Len(queue'[e]) : queue'[e][i] = n
      BY <1>8 DEF In
    <2>3. i \in DOMAIN queue'[e]
      <3>1. Tail(q) \in Seq(File \cup {NULL})
        BY <1>1, TailFacts
      <3>2. DOMAIN Tail(q) = 1 .. Len(Tail(q))
        BY <3>1
      <3>3. QED
        BY <1>5, <2>2, <3>2
    <2>4. <<e, i>> \in InQueues(n)'
      BY <2>2, <2>3 DEF InQueues
    <2>5. QED
      BY <1>2, <2>1, <2>4
  <1>9. QED
    BY <1>2, <1>6, <1>7, <1>8

(* An executor that is notified of a task has that one more in its queue.  *)
LEMMA Told ==
  ASSUME PlaceTypes, NEW e \in Executors, NEW n \in File \cup {NULL}, Notify(e, n)
  PROVE  \A d \in Executors : \A g : In(d, g)' => In(d, g) \/ (d = e /\ g = n)
  <1> DEFINE q == queue[e]
  <1>1. queue \in [Executors -> Seq(File \cup {NULL})] /\ q \in Seq(File \cup {NULL})
    BY DEF PlaceTypes
  <1>2. /\ Len(q) \in Nat /\ Len(Append(q, n)) = Len(q) + 1
        /\ \A i \in 1 .. Len(q) : Append(q, n)[i] = q[i]
        /\ Append(q, n)[Len(q) + 1] = n
    BY <1>1, AppendFacts
  <1>3. queue'[e] = Append(q, n) /\ \A d \in Executors : d # e => queue'[d] = queue[d]
    BY <1>1 DEF Notify
  <1> SUFFICES ASSUME NEW d \in Executors, NEW g, In(d, g)'
               PROVE  In(d, g) \/ (d = e /\ g = n)
    OBVIOUS
  <1>4. CASE d # e
    BY <1>3, <1>4 DEF In
  <1>5. CASE d = e
    <2> PICK i \in 1 .. Len(q) + 1 : Append(q, n)[i] = g
      BY <1>2, <1>3, <1>5 DEF In
    <2>1. i \in 1 .. Len(q) \/ i = Len(q) + 1
      BY <1>2
    <2>2. QED
      BY <1>2, <1>5, <2>1 DEF In
  <1>6. QED
    BY <1>4, <1>5

-----------------------------------------------------------------------------
(* A step that does nothing with a task, and leaves its place in the       *)
(* target as it was.                                                       *)
Untouched(g) ==
  /\ UNCHANGED <<size[g], buffers_written[g], read_offset[g], write_offset[g], start[g],
                 buffer[g], aio_nbytes[g], aio_offset[g], executor[g]>>
  /\ \A e \in Executors : In(e, g)' => In(e, g)
  /\ Held(g)' => Held(g)
  /\ \A op \in {"read", "write"} : Doing(op, g)' => Doing(op, g)
  /\ Answered(g)' => Answered(g)
  /\ \A op \in {"read", "write"} : Refused(op, g)' => Refused(op, g)
  /\ \A k : Reserved(g) /\ CopiedTo(g, k) => CopiedTo(g, k)'

(* Such a step keeps what is known of the task.                            *)
LEMMA TaskStays ==
  ASSUME NEW g \in File, TaskInv(g), Untouched(g)
  PROVE  TaskInv(g)'
  <1>1. /\ Counted(g)' = Counted(g) /\ Remaining(g)' = Remaining(g)
        /\ Reserved(g)' = Reserved(g) /\ UnderWay(g)' = UnderWay(g)
        /\ ToWrite(g)' = ToWrite(g) /\ Written(g)' = Written(g)
    BY DEF Untouched, Counted, Remaining, Reserved, UnderWay, ToWrite, Written
  <1>2. Filled(g)' = Filled(g)
    BY <1>1 DEF Untouched, Filled
  <1>3. \A k : Reserved(g) /\ CopiedTo(g, k) => CopiedTo(g, k)'
    BY DEF Untouched
  <1>4. /\ Reserved(g) /\ CopiedTo(g, Counted(g)) => CopiedTo(g, Counted(g))'
        /\ Reserved(g) /\ CopiedTo(g, Counted(g) + BufferSize) =>
              CopiedTo(g, Counted(g) + BufferSize)'
    <2>1. PICK k : k = Counted(g)
      OBVIOUS
    <2>2. PICK m : m = Counted(g) + BufferSize
      OBVIOUS
    <2>3. Counted(g)' = k /\ (Counted(g) + BufferSize)' = m
      BY <1>1, <2>1, <2>2
    <2>4. CopiedTo(g, Counted(g))' = CopiedTo(g, k)'
      BY <2>3 DEF CopiedTo
    <2>5. CopiedTo(g, Counted(g) + BufferSize)' = CopiedTo(g, m)'
      BY <2>3 DEF CopiedTo
    <2>6. QED
      BY <1>3, <2>1, <2>2, <2>4, <2>5
  <1>5. ~Reserved(g) => CopiedTo(g, Counted(g))'
    <2> SUFFICES ASSUME ~Reserved(g) PROVE CopiedTo(g, Counted(g))'
      OBVIOUS
    <2>1. Counted(g)' = 0
      BY <1>1, BufferAssumption DEF TaskInv, Unseen, Counted
    <2>2. QED
      BY <2>1 DEF CopiedTo
  <1>6. CopiedTo(g, Counted(g))'
    BY <1>4, <1>5 DEF TaskInv
  <1>7. QED
    BY <1>1, <1>2, <1>4, <1>6 DEF Untouched, TaskInv, Unseen, Nowhere, Executors

-----------------------------------------------------------------------------
(* Types of what belongs to a task.                                        *)
LEMMA Numbers ==
  ASSUME TypeOK, NEW f \in File
  PROVE  /\ BufferSize \in Nat \ {0}
         /\ size[f] \in Nat /\ buffers_written[f] \in Nat
         /\ Counted(f) \in Nat /\ Remaining(f) = size[f] - Counted(f) /\ Remaining(f) \in Int
         /\ read_offset[f] \in Nat /\ write_offset[f] \in Nat /\ start[f] \in Int
         /\ aio_nbytes[f] \in 1 .. BufferSize /\ aio_offset[f] \in Nat
         /\ executor[f] \in Executors \cup {NULL}
         /\ f # NULL
  <1>1. /\ size[f] \in Sizes /\ buffers_written[f] \in Nat
        /\ read_offset[f] \in Nat /\ write_offset[f] \in Nat /\ start[f] \in Int
        /\ aio_nbytes[f] \in 1 .. BufferSize /\ aio_offset[f] \in Nat
        /\ executor[f] \in Executors \cup {NULL}
    BY DEF TypeOK
  <1>2. BufferSize \in Nat \ {0} /\ size[f] \in Nat /\ f # NULL
    BY <1>1, BufferAssumption, SizesAssumption, ValuesAssumption
  <1>3. Counted(f) \in Nat
    BY <1>1, <1>2 DEF Counted
  <1>4. Remaining(f) = size[f] - Counted(f)
    BY DEF Remaining, Counted
  <1>5. QED
    BY <1>1, <1>2, <1>3, <1>4

(* Where the data of a task stay, so does what is known of them.           *)
SameData(f) ==
  UNCHANGED <<size[f], buffers_written[f], read_offset[f], write_offset[f], start[f],
              buffer[f], aio_nbytes[f], aio_offset[f], executor[f], target>>

(* ... in particular, what is counted, filled, written and copied.         *)
LEMMA DataStays ==
  ASSUME NEW f \in File, SameData(f)
  PROVE  /\ Counted(f)' = Counted(f) /\ Remaining(f)' = Remaining(f)
         /\ Reserved(f)' = Reserved(f) /\ UnderWay(f)' = UnderWay(f)
         /\ Filled(f)' = Filled(f) /\ ToWrite(f)' = ToWrite(f) /\ Written(f)' = Written(f)
         /\ CopiedTo(f, Counted(f))' = CopiedTo(f, Counted(f))
         /\ CopiedTo(f, Counted(f) + BufferSize)' = CopiedTo(f, Counted(f) + BufferSize)
         /\ \A k : CopiedTo(f, k)' = CopiedTo(f, k)
  <1>1. /\ Counted(f)' = Counted(f) /\ Remaining(f)' = Remaining(f)
        /\ Reserved(f)' = Reserved(f) /\ UnderWay(f)' = UnderWay(f)
        /\ ToWrite(f)' = ToWrite(f) /\ Written(f)' = Written(f)
    BY DEF SameData, Counted, Remaining, Reserved, UnderWay, ToWrite, Written
  <1>2. Filled(f)' = Filled(f)
    BY <1>1 DEF SameData, Filled
  <1>3. /\ CopiedTo(f, Counted(f))' = CopiedTo(f, Counted(f))
        /\ CopiedTo(f, Counted(f) + BufferSize)' = CopiedTo(f, Counted(f) + BufferSize)
        /\ \A k : CopiedTo(f, k)' = CopiedTo(f, k)
    BY <1>1 DEF SameData, CopiedTo
  <1>4. QED
    BY <1>1, <1>2, <1>3

(* A step that neither moves a task nor touches its data.                  *)
LEMMA NothingMoves ==
  ASSUME NEW g \in File, TaskInv(g), SameData(g),
         \A e \in Executors : In(e, g)' => In(e, g),
         working' = working, io' = io, callbacks' = callbacks, stalled' = stalled
  PROVE  TaskInv(g)'
  <1>1. Untouched(g)
    BY DataStays DEF Untouched, SameData, Held, Doing, Answered, Refused
  <1>2. QED
    BY <1>1, TaskStays

-----------------------------------------------------------------------------
(* A place is reserved for a file that has none.                           *)
LEMMA CreateTask ==
  ASSUME CopyInv, NEW c \in Client, A_Create(c)
  PROVE  \A g \in File : TaskInv(g)'
  <1> TypeOK /\ ReservedInv /\ \A g \in File : TaskInv(g)
    BY DEF CopyInv, BaseInv
  <1> USE DEF cbVars, executorVars, ioVars
  <1> PICK f \in toAdd :
         /\ start' = [start EXCEPT ![f] = expected]
         /\ write_offset' = [write_offset EXCEPT ![f] = expected]
         /\ UNCHANGED <<size, read_offset, buffers_written, cbVars, executorVars, ioVars>>
    BY DEF A_Create
  <1>1. f \in File /\ start \in [File -> Int] /\ write_offset \in [File -> Nat] /\ expected \in Nat
    BY DEF TypeOK
  <1>2. ASSUME NEW g \in File, g # f PROVE TaskInv(g)'
    <2>1. SameData(g)
      BY <1>1, <1>2 DEF SameData
    <2>2. QED
      BY <2>1, NothingMoves DEF In
  <1>3. ~Reserved(f) /\ executor[f] = NULL /\ Nowhere(f) /\ Unseen(f)
    BY <1>1 DEF ReservedInv, TaskInv
  <1>4. Counted(f) = 0 /\ Counted(f)' = 0 /\ BufferSize \in Nat \ {0}
    BY <1>3, BufferAssumption DEF Unseen, Counted
  <1>5. start'[f] = expected /\ write_offset'[f] = expected /\ expected # -1
    BY <1>1
  <1>6. Unseen(f)' /\ Nowhere(f)' /\ Reserved(f)'
    BY <1>3, <1>5 DEF Unseen, Nowhere, Reserved, In, Held, Doing, Answered, Refused
  <1>7. CopiedTo(f, Counted(f))'
    BY <1>4 DEF CopiedTo
  <1>8. ~Refused("read", f)' /\ ~Refused("write", f)'
    BY <1>6 DEF Unseen
  <1>9. TaskInv(f)'
    BY <1>1, <1>3, <1>4, <1>5, <1>6, <1>7, <1>8 DEF TaskInv, Nowhere
  <1>10. QED
    BY <1>2, <1>9

(* The reader is told of a new task.                                       *)
LEMMA NotifyTask ==
  ASSUME CopyInv, NEW c \in Client, A_Notify(c)
  PROVE  \A g \in File : TaskInv(g)'
  <1> TypeOK /\ PlaceInv /\ PlaceTypes /\ ReservedInv /\ \A g \in File : TaskInv(g)
    BY DEF CopyInv, BaseInv, PlaceInv
  <1>1. PICK n \in File : n = clientFile[c] /\ Reserved(n) /\ executor[n] = NULL
    BY DEF A_Notify, PlaceTypes, ReservedInv, Adding
  <1>2. /\ Notify("reader", n)
        /\ UNCHANGED <<size, offsetVars, buffers_written, cbVars, working, dead, ioVars>>
    BY <1>1 DEF A_Notify
  <1>3. ASSUME NEW g \in File
        PROVE  /\ SameData(g) /\ (In("writer", g)' => In("writer", g))
               /\ (In("reader", g)' => In("reader", g) \/ g = n)
               /\ Held(g)' = Held(g) /\ Answered(g)' = Answered(g)
               /\ \A op : Doing(op, g)' = Doing(op, g) /\ Refused(op, g)' = Refused(op, g)
    BY <1>2, Told
       DEF SameData, offsetVars, cbVars, ioVars, Executors, Held, Answered, Doing, Refused
  <1>4. ASSUME NEW g \in File, g # n PROVE TaskInv(g)'
    BY <1>2, <1>3, <1>4, NothingMoves DEF ioVars, Executors
  <1>5. Unseen(n)
    BY <1>1 DEF TaskInv
  <1>6. Unseen(n)'
    BY <1>3, <1>5, DataStays DEF Unseen, SameData
  <1>7. TaskInv(n)'
    BY <1>1, <1>3, <1>5, <1>6, DataStays DEF TaskInv, SameData, Unseen
  <1>8. QED
    BY <1>4, <1>7

(* Steps that take no task anywhere.                                       *)
LEMMA QuietSteps ==
  ASSUME CopyInv,
         \/ \E c \in Client : A_CreateFails(c) \/ A_Append(c) \/ A_Return(c)
         \/ \E e \in Executors : E_Die(e)
         \/ R_Finish
         \/ MainStep
         \/ UNCHANGED vars
  PROVE  \A g \in File : TaskInv(g)'
  <1> TypeOK /\ PlaceInv /\ PlaceTypes /\ \A g \in File : TaskInv(g)
    BY DEF CopyInv, BaseInv, PlaceInv
  <1> USE DEF offsetVars, cbVars, executorVars, ioVars
  <1>1. /\ UNCHANGED <<size, offsetVars, buffers_written, cbVars, ioVars>>
        /\ UNCHANGED working \/ working' = [working EXCEPT !["reader"] = NULL]
    BY DEF A_CreateFails, A_Append, A_Return, E_Die, R_Finish, MainStep, M_Round, M_Poll,
           M_Progress, M_KillReader, M_KillWriter, M_Free, vars
  <1>2. \A g \in File : \A d \in Executors : In(d, g)' => In(d, g)
    <2>1. CASE UNCHANGED queue
      BY <2>1 DEF In
    <2>2. ASSUME NEW e \in Executors, E_Die(e)
          PROVE  \A g \in File : \A d \in Executors : In(d, g)' => In(d, g)
      BY <2>2, TakenFrom DEF E_Die
    <2>3. ASSUME NEW e \in Executors, Notify(e, NULL)
          PROVE  \A g \in File : \A d \in Executors : In(d, g)' => In(d, g)
      BY <2>3, Told, ValuesAssumption
    <2>4. QED
      BY <2>1, <2>2, <2>3
         DEF A_CreateFails, A_Append, A_Return, R_Finish, MainStep, M_Round, M_Poll,
             M_Progress, M_KillReader, M_KillWriter, M_Free, vars, Executors
  <1>3. ASSUME NEW g \in File PROVE TaskInv(g)'
    <2>1. Held(g)' => Held(g)
      BY <1>1, Numbers DEF Held, TypeOK, Executors
    <2>2. SameData(g)
      BY <1>1 DEF SameData
    <2>3. Untouched(g)
      BY <1>1, <1>2, <2>1, <2>2, DataStays DEF Untouched, SameData, Doing, Answered, Refused
    <2>4. QED
      BY <2>3, TaskStays
  <1>4. QED
    BY <1>3

(* The reader takes up a task, and counts the buffer that was written.     *)
LEMMA CountTask ==
  ASSUME CopyInv, Zeros = {}, R_Count
  PROVE  \A g \in File : TaskInv(g)'
  <1> TypeOK /\ PlaceInv /\ PlaceTypes /\ \A g \in File : TaskInv(g)
    BY DEF CopyInv, BaseInv, PlaceInv
  <1> USE DEF offsetVars, ioVars
  <1>1. PICK n : n = Taken("reader")
    OBVIOUS
  <1>2. /\ queue["reader"] # <<>> /\ queue' = [queue EXCEPT !["reader"] = Tail(@)]
        /\ n # NULL
        /\ working' = [working EXCEPT !["reader"] = n]
        /\ executor' = [executor EXCEPT ![n] = "writer"]
        /\ buffers_written' = IF buffer[n][0] \in Zeros \cup {HOLE} THEN buffers_written
                              ELSE [buffers_written EXCEPT ![n] = @ + 1]
        /\ UNCHANGED <<size, offsetVars, buffer, aio_nbytes, aio_offset, ioVars>>
    BY <1>1 DEF R_Count
  <1>3. /\ n \in File /\ In("reader", n) /\ ~In("reader", n)'
        /\ \A d \in Executors : \A g : In(d, g)' => In(d, g)
    BY <1>1, <1>2, TakenFrom DEF Executors
  <1>4. /\ executor \in [File -> Executors \cup {NULL}] /\ buffers_written \in [File -> Nat]
        /\ working \in [Executors -> File \cup {NULL}]
    BY DEF TypeOK
  <1>5. /\ executor'[n] = "writer" /\ working'["reader"] = n
        /\ \A g \in File : g # n => /\ executor'[g] = executor[g]
                                    /\ buffers_written'[g] = buffers_written[g]
    BY <1>2, <1>3, <1>4 DEF Executors
  <1>6. ASSUME NEW g \in File, g # n PROVE TaskInv(g)'
    <2>1. SameData(g)
      BY <1>2, <1>5, <1>6 DEF SameData
    <2>2. ~Held(g)'
      BY <1>5, <1>6 DEF Held
    <2>3. Untouched(g)
      BY <1>2, <1>3, <2>1, <2>2, DataStays
         DEF Untouched, SameData, Doing, Answered, Refused, Executors
    <2>4. QED
      BY <2>3, TaskStays
  <1>7. /\ OneSpot(n) /\ ~Refused("read", n) /\ ~Refused("write", n)
        /\ Reserved(n) /\ start[n] \in Nat
    BY <1>3, SpotsApart DEF TaskInv, Nowhere
  <1>8. /\ ~In("reader", n)' /\ ~In("writer", n)' /\ Held(n)' /\ Reserved(n)'
        /\ ~Doing("read", n)' /\ ~Doing("write", n)' /\ ~Answered(n)'
        /\ ~Refused("read", n)' /\ ~Refused("write", n)'
    BY <1>2, <1>3, <1>5, <1>7
       DEF OneSpot, Held, Doing, Answered, Refused, Executors, Reserved
  <1>9. /\ Counted(n) \in Nat /\ BufferSize \in Nat \ {0} /\ size[n] \in Nat
        /\ Remaining(n) = size[n] - Counted(n) /\ buffers_written[n] \in Nat
        /\ Remaining(n)' = (size[n] - Counted(n))'
    BY <1>3, Numbers DEF Remaining, Counted
  <1>10. /\ read_offset'[n] = Counted(n)' /\ Counted(n)' \in Nat
         /\ write_offset'[n] = start[n] + Counted(n)'
         /\ CopiedTo(n, Counted(n)')
         /\ Remaining(n)' > 0 => aio_nbytes[n] = BufferSize
    <2>1. CASE executor[n] = NULL
      <3>1. Unseen(n)
        BY <1>3, <2>1 DEF TaskInv
      <3>2. buffers_written'[n] = 0 /\ Counted(n)' = 0
        BY <1>2, <1>9, <3>1 DEF Unseen, Counted
      <3>3. QED
        BY <1>2, <1>7, <1>9, <3>1, <3>2 DEF Unseen, CopiedTo
    <2>2. CASE executor[n] # NULL
      <3>1. /\ UnderWay(n) /\ Filled(n) /\ Written(n)
            /\ CopiedTo(n, Counted(n) + BufferSize)
        BY <1>3, <2>2 DEF TaskInv
      <3>2. aio_nbytes[n] \in 1 .. BufferSize
        BY <1>3, Numbers
      <3>3. buffer[n][0] = <<n, Counted(n)>>
        BY <1>9, <3>1, <3>2 DEF Filled
      <3>4. buffer[n][0] \notin Zeros \cup {HOLE}
        BY <1>3, <1>9, <3>3, ValuesAssumption
      <3>5. buffers_written'[n] = buffers_written[n] + 1
        BY <1>2, <1>3, <1>4, <3>4
      <3>6. Counted(n)' = Counted(n) + BufferSize
        BY <1>9, <3>5 DEF Counted
      <3>7. CopiedTo(n, Counted(n)')
        BY <3>1, <3>6
      <3>8. /\ read_offset'[n] = Counted(n)'
            /\ write_offset'[n] = start[n] + Counted(n)'
        BY <1>2, <1>7, <1>9, <3>1, <3>6 DEF UnderWay, Written
      <3>9. Remaining(n)' = Remaining(n) - BufferSize
        BY <1>2, <1>9, <3>6
      <3>10. Remaining(n)' > 0 => aio_nbytes[n] = BufferSize
        BY <1>9, <3>1, <3>9 DEF UnderWay
      <3>11. QED
        BY <1>9, <3>6, <3>7, <3>8, <3>10
    <2>3. QED
      BY <2>1, <2>2
  <1>11. CopiedTo(n, Counted(n))'
    BY <1>2, <1>10 DEF CopiedTo
  <1>12. ToWrite(n)'
    BY <1>2, <1>5, <1>10 DEF ToWrite
  <1>13. TaskInv(n)'
    <2>1. executor'[n] # NULL
      BY <1>5, ValuesAssumption
    <2>2. QED
      BY <1>2, <1>5, <1>7, <1>8, <1>9, <1>10, <1>11, <1>12, <2>1 DEF TaskInv
  <1>14. QED
    BY <1>6, <1>13

(* The reader asks for the next buffer.                                    *)
LEMMA ReadTask ==
  ASSUME CopyInv, R_Read
  PROVE  \A g \in File : TaskInv(g)'
  <1> TypeOK /\ PlaceInv /\ PlaceTypes /\ \A g \in File : TaskInv(g)
    BY DEF CopyInv, BaseInv, PlaceInv
  <1>1. PICK n \in File : n = working["reader"]
    BY DEF R_Read, PlaceTypes, Executors
  <1>2. /\ Remaining(n) > 0
        /\ aio_nbytes' = [aio_nbytes EXCEPT ![n] =
                             IF Remaining(n) < BufferSize THEN Remaining(n) ELSE @]
        /\ aio_offset' = [aio_offset EXCEPT ![n] = read_offset[n]]
        /\ read_offset' = [read_offset EXCEPT ![n] = @ + BufferSize]
        /\ working' = [working EXCEPT !["reader"] = NULL]
        /\ Submit("read", n)
        /\ UNCHANGED <<size, start, write_offset, buffers_written, buffer, executor, queue>>
    BY <1>1 DEF R_Read
  <1>3. /\ aio_nbytes \in [File -> 1 .. BufferSize] /\ aio_offset \in [File -> Nat]
        /\ read_offset \in [File -> Nat] /\ working \in [Executors -> File \cup {NULL}]
    BY DEF TypeOK
  <1>4. /\ working'["reader"] = NULL /\ UNCHANGED <<callbacks, target>>
        /\ io' \subseteq io \cup {<<"read", n>>}
        /\ stalled' \subseteq stalled \cup {<<"read", n>>}
    BY <1>2, <1>3 DEF Submit, Executors
  <1>5. ASSUME NEW g \in File, g # n PROVE TaskInv(g)'
    <2>1. SameData(g)
      BY <1>2, <1>3, <1>4, <1>5 DEF SameData
    <2>2. ~Held(g)' /\ Answered(g)' = Answered(g)
      BY <1>4, Numbers DEF Held, Answered
    <2>3. \A op \in {"read", "write"} : /\ Doing(op, g)' => Doing(op, g)
                                        /\ Refused(op, g)' => Refused(op, g)
      BY <1>4, <1>5 DEF Doing, Refused
    <2>4. Untouched(g)
      BY <1>2, <2>1, <2>2, <2>3, DataStays DEF Untouched, SameData, In
    <2>5. QED
      BY <2>4, TaskStays
  <1>6. /\ Held(n) /\ OneSpot(n) /\ Reserved(n) /\ ToWrite(n)
        /\ read_offset[n] = Counted(n)
        /\ aio_nbytes[n] = BufferSize /\ start[n] \in Nat
    BY <1>1, <1>2, SpotsApart DEF TaskInv, Held
  <1>7. ~Refused("read", n) /\ ~Refused("write", n) /\ executor[n] # NULL
    BY <1>6, ValuesAssumption DEF TaskInv, Nowhere, ToWrite
  <1>8. /\ ~In("reader", n)' /\ ~In("writer", n)' /\ ~Held(n)' /\ Reserved(n)'
        /\ ~Doing("write", n)' /\ ~Answered(n)' /\ ~Refused("write", n)'
        /\ Doing("read", n)' => ~Refused("read", n)'
    <2>1. n # NULL
      BY <1>1, Numbers
    <2>2. ~Doing("write", n)' /\ ~Refused("write", n)'
      BY <1>4, <1>6, <1>7 DEF OneSpot, Doing, Refused
    <2>3. Doing("read", n)' => ~Refused("read", n)'
      BY <1>2, <1>6, <1>7 DEF OneSpot, Doing, Refused, Submit
    <2>4. QED
      BY <1>2, <1>4, <1>6, <2>1, <2>2, <2>3 DEF OneSpot, In, Held, Answered, Reserved
  <1>9. /\ Counted(n) \in Nat /\ BufferSize \in Nat \ {0} /\ Remaining(n) \in Int
    BY <1>1, Numbers
  <1>10. /\ Counted(n)' = Counted(n) /\ Remaining(n)' = Remaining(n)
         /\ CopiedTo(n, Counted(n))'
    BY <1>2, <1>4 DEF Counted, Remaining, CopiedTo, TaskInv
  <1>11. /\ aio_offset'[n] = Counted(n) /\ read_offset'[n] = Counted(n) + BufferSize
         /\ aio_nbytes'[n] = IF Remaining(n) < BufferSize THEN Remaining(n) ELSE BufferSize
    BY <1>2, <1>3, <1>6
  <1>12. UnderWay(n)' /\ ToWrite(n)'
    BY <1>2, <1>6, <1>8, <1>10, <1>11 DEF UnderWay, ToWrite
  <1>13. TaskInv(n)'
    BY <1>2, <1>6, <1>7, <1>8, <1>10, <1>11, <1>12 DEF TaskInv, Nowhere
  <1>14. QED
    BY <1>5, <1>13

(* The writer asks for the buffer to be written.                           *)
LEMMA WriteTask ==
  ASSUME CopyInv, W_Write
  PROVE  \A g \in File : TaskInv(g)'
  <1> TypeOK /\ PlaceInv /\ PlaceTypes /\ \A g \in File : TaskInv(g)
    BY DEF CopyInv, BaseInv, PlaceInv
  <1>1. PICK n : n = Taken("writer")
    OBVIOUS
  <1>2. /\ queue["writer"] # <<>> /\ queue' = [queue EXCEPT !["writer"] = Tail(@)]
        /\ n # NULL
        /\ executor' = [executor EXCEPT ![n] = "reader"]
        /\ aio_offset' = [aio_offset EXCEPT ![n] = write_offset[n]]
        /\ write_offset' = [write_offset EXCEPT ![n] = @ + BufferSize]
        /\ Submit("write", n)
        /\ UNCHANGED <<size, start, read_offset, buffers_written, buffer, aio_nbytes, working>>
    BY <1>1 DEF W_Write
  <1>3. /\ n \in File /\ In("writer", n) /\ ~In("writer", n)'
        /\ \A d \in Executors : \A g : In(d, g)' => In(d, g)
    BY <1>1, <1>2, TakenFrom DEF Executors
  <1>4. /\ executor \in [File -> Executors \cup {NULL}] /\ aio_offset \in [File -> Nat]
        /\ write_offset \in [File -> Nat]
    BY DEF TypeOK
  <1>5. /\ UNCHANGED <<callbacks, target>>
        /\ io' \subseteq io \cup {<<"write", n>>}
        /\ stalled' \subseteq stalled \cup {<<"write", n>>}
    BY <1>2 DEF Submit
  <1>6. ASSUME NEW g \in File, g # n PROVE TaskInv(g)'
    <2>1. SameData(g)
      BY <1>2, <1>4, <1>5, <1>6 DEF SameData
    <2>2. Held(g)' = Held(g) /\ Answered(g)' = Answered(g)
      BY <1>2, <1>5 DEF Held, Answered
    <2>3. \A op \in {"read", "write"} : /\ Doing(op, g)' => Doing(op, g)
                                        /\ Refused(op, g)' => Refused(op, g)
      BY <1>5, <1>6 DEF Doing, Refused
    <2>4. Untouched(g)
      BY <1>3, <2>1, <2>2, <2>3, DataStays DEF Untouched, SameData
    <2>5. QED
      BY <2>4, TaskStays
  <1>7. /\ OneSpot(n) /\ UnderWay(n) /\ Filled(n) /\ ToWrite(n)
        /\ Reserved(n) /\ start[n] \in Nat
        /\ ~Refused("read", n) /\ ~Refused("write", n)
    BY <1>3, SpotsApart DEF TaskInv, Nowhere, UnderWay
  <1>8. /\ ~In("reader", n)' /\ ~In("writer", n)' /\ ~Held(n)' /\ Reserved(n)'
        /\ ~Doing("read", n)' /\ ~Answered(n)' /\ ~Refused("read", n)'
        /\ Doing("write", n)' => ~Refused("write", n)'
    <2>2. ~Doing("read", n)' /\ ~Refused("read", n)'
      BY <1>3, <1>5, <1>7 DEF OneSpot, Doing, Refused
    <2>3. Doing("write", n)' => ~Refused("write", n)'
      BY <1>2, <1>3, <1>7 DEF OneSpot, Doing, Refused, Submit
    <2>4. QED
      BY <1>2, <1>3, <1>5, <1>7, <2>2, <2>3 DEF OneSpot, Held, Answered, Reserved, Executors
  <1>9. Counted(n) \in Nat /\ BufferSize \in Nat \ {0}
    BY <1>3, Numbers
  <1>10. /\ Counted(n)' = Counted(n) /\ Remaining(n)' = Remaining(n)
         /\ CopiedTo(n, Counted(n))'
    BY <1>2, <1>3, <1>5 DEF Counted, Remaining, CopiedTo, TaskInv
  <1>11. /\ executor'[n] = "reader" /\ aio_offset'[n] = start[n] + Counted(n)
         /\ write_offset'[n] = start[n] + Counted(n) + BufferSize
    BY <1>2, <1>3, <1>4, <1>7 DEF ToWrite
  <1>12. UnderWay(n)' /\ Filled(n)' /\ Written(n)'
    BY <1>2, <1>7, <1>8, <1>10, <1>11 DEF UnderWay, Filled, Written
  <1>13. write_offset'[n] >= start[n] + Counted(n) /\ executor'[n] # NULL
    BY <1>7, <1>9, <1>11, ValuesAssumption
  <1>14. TaskInv(n)'
    BY <1>2, <1>7, <1>8, <1>10, <1>11, <1>12, <1>13 DEF TaskInv, Nowhere
  <1>15. QED
    BY <1>6, <1>14

(* The system has read a buffer.                                           *)
LEMMA ReadDone ==
  ASSUME CopyInv, NEW n \in File, IO_Read(n)
  PROVE  \A g \in File : TaskInv(g)'
  <1> TypeOK /\ PlaceInv /\ PlaceTypes /\ \A g \in File : TaskInv(g)
    BY DEF CopyInv, BaseInv, PlaceInv
  <1> USE DEF offsetVars, executorVars
  <1>1. /\ Doing("read", n) /\ io' = io \ {<<"read", n>>}
        /\ callbacks' = callbacks \cup {n}
        /\ buffer' = [buffer EXCEPT ![n] = [i \in Slot |->
                          IF i < aio_nbytes[n] /\ aio_offset[n] + i < size[n]
                          THEN <<n, aio_offset[n] + i>> ELSE @[i]]]
        /\ UNCHANGED <<size, offsetVars, buffers_written, aio_nbytes, aio_offset,
                       executor, queue, working, target, stalled>>
    BY DEF IO_Read, Doing
  <1>2. buffer \in [File -> [Slot -> Byte]]
    BY DEF TypeOK
  <1>3. ASSUME NEW g \in File, g # n PROVE TaskInv(g)'
    <2>1. SameData(g)
      BY <1>1, <1>2, <1>3 DEF SameData
    <2>2. /\ Held(g)' = Held(g) /\ Answered(g)' = Answered(g)
          /\ \A op : (Doing(op, g)' => Doing(op, g)) /\ Refused(op, g)' = Refused(op, g)
      BY <1>1, <1>3 DEF Held, Answered, Doing, Refused
    <2>3. Untouched(g)
      BY <1>1, <2>1, <2>2, DataStays DEF Untouched, SameData, In
    <2>4. QED
      BY <2>3, TaskStays
  <1>4. /\ UnderWay(n) /\ ToWrite(n) /\ aio_offset[n] = Counted(n)
        /\ OneSpot(n) /\ Reserved(n) /\ start[n] \in Nat
        /\ ~Refused("read", n) /\ ~Refused("write", n)
        /\ write_offset[n] >= start[n] + Counted(n) /\ CopiedTo(n, Counted(n))
    BY <1>1, SpotsApart DEF TaskInv, Nowhere, UnderWay
  <1>5. /\ ~In("reader", n)' /\ ~In("writer", n)' /\ ~Held(n)' /\ Reserved(n)'
        /\ ~Doing("read", n)' /\ ~Doing("write", n)'
        /\ ~Refused("read", n)' /\ ~Refused("write", n)'
    BY <1>1, <1>4 DEF OneSpot, In, Held, Doing, Refused, Reserved
  <1>6. /\ Counted(n) \in Nat /\ BufferSize \in Nat \ {0} /\ size[n] \in Nat
        /\ Remaining(n) = size[n] - Counted(n) /\ aio_nbytes[n] \in 1 .. BufferSize
    BY Numbers
  <1>7. /\ Counted(n)' = Counted(n) /\ Remaining(n)' = Remaining(n)
        /\ CopiedTo(n, Counted(n))'
    BY <1>1, <1>4 DEF Counted, Remaining, CopiedTo
  <1>8. UnderWay(n)' /\ ToWrite(n)'
    BY <1>1, <1>4, <1>5, <1>7 DEF UnderWay, ToWrite
  <1>9. ASSUME NEW i \in 0 .. aio_nbytes[n] - 1
        PROVE  buffer'[n][i] = <<n, Counted(n) + i>>
    <2>1. i \in Slot /\ i < aio_nbytes[n]
      BY <1>6 DEF Slot
    <2>2. aio_nbytes[n] <= Remaining(n)
      BY <1>4, <1>6 DEF UnderWay
    <2>3. Counted(n) + i < size[n]
      BY <1>6, <2>2
    <2>4. buffer'[n] = [j \in Slot |->
                          IF j < aio_nbytes[n] /\ aio_offset[n] + j < size[n]
                          THEN <<n, aio_offset[n] + j>> ELSE buffer[n][j]]
      BY <1>1, <1>2
    <2>5. QED
      BY <1>4, <2>1, <2>3, <2>4
  <1>10. Filled(n)'
    BY <1>1, <1>7, <1>9 DEF Filled
  <1>11. executor'[n] # NULL
    BY <1>1, <1>4, ValuesAssumption DEF ToWrite
  <1>12. TaskInv(n)'
    BY <1>1, <1>4, <1>5, <1>7, <1>8, <1>10, <1>11 DEF TaskInv, Nowhere
  <1>13. QED
    BY <1>3, <1>12

(* The system has written a buffer: it reaches its own place only.         *)
LEMMA WriteDone ==
  ASSUME CopyInv, NEW n \in File, IO_Write(n)
  PROVE  \A g \in File : TaskInv(g)'
  <1> TypeOK /\ PlaceInv /\ PlaceTypes /\ ReservedInv /\ \A g \in File : TaskInv(g)
    BY DEF CopyInv, BaseInv, PlaceInv
  <1> USE DEF offsetVars, executorVars, cbVars
  <1>1. /\ Doing("write", n) /\ io' = io \ {<<"write", n>>}
        /\ aio_offset[n] + aio_nbytes[n] - 1 <= MaxPosition
        /\ callbacks' = callbacks \cup {n}
        /\ target' = [p \in Position |->
                          IF p - aio_offset[n] \in 0 .. aio_nbytes[n] - 1
                          THEN buffer[n][p - aio_offset[n]] ELSE target[p]]
        /\ UNCHANGED <<size, offsetVars, buffers_written, cbVars, queue, working, stalled>>
    BY DEF IO_Write, Doing
  <1>2. /\ UnderWay(n) /\ Filled(n) /\ Written(n) /\ aio_offset[n] = start[n] + Counted(n)
        /\ OneSpot(n) /\ Reserved(n) /\ start[n] \in Nat
        /\ ~Refused("read", n) /\ ~Refused("write", n)
        /\ write_offset[n] >= start[n] + Counted(n) /\ CopiedTo(n, Counted(n))
    BY <1>1, SpotsApart DEF TaskInv, Nowhere, UnderWay
  <1>3. /\ Counted(n) \in Nat /\ BufferSize \in Nat \ {0} /\ size[n] \in Nat
        /\ Remaining(n) = size[n] - Counted(n) /\ aio_nbytes[n] \in 1 .. BufferSize
        /\ MaxPosition \in Nat
    BY Numbers, BufferAssumption
  <1>4. /\ aio_nbytes[n] <= Remaining(n)
        /\ Remaining(n) >= BufferSize => aio_nbytes[n] = BufferSize
        /\ Remaining(n) < BufferSize => aio_nbytes[n] = Remaining(n)
    BY <1>2, <1>3 DEF UnderWay
  <1>5. \A p \in Position : target'[p] = IF p - aio_offset[n] \in 0 .. aio_nbytes[n] - 1
                                         THEN buffer[n][p - aio_offset[n]] ELSE target[p]
    BY <1>1
  <1>6. ASSUME NEW g \in File, g # n PROVE TaskInv(g)'
    <2>1. ASSUME NEW k, Reserved(g), CopiedTo(g, k) PROVE CopiedTo(g, k)'
      <3> SUFFICES ASSUME NEW i \in 0 .. size[g] - 1, i < k
                   PROVE  start[g] + i \in Position /\ target'[start[g] + i] = <<g, i>>
        BY <1>1 DEF CopiedTo
      <3>1. PICK p : p = start[g] + i
        OBVIOUS
      <3>2. p \in Position /\ target[p] = <<g, i>>
        BY <2>1, <3>1 DEF CopiedTo
      <3>3. \/ start[g] + size[g] <= start[n]
            \/ start[n] + size[n] <= start[g]
        BY <1>2, <1>6, <2>1 DEF ReservedInv
      <3>4. size[g] \in Nat /\ start[g] \in Int
        BY Numbers
      <3>5. p - aio_offset[n] \notin 0 .. aio_nbytes[n] - 1
        BY <1>2, <1>3, <1>4, <3>1, <3>3, <3>4
      <3>6. target'[p] = target[p]
        BY <1>5, <3>2, <3>5
      <3>7. QED
        BY <3>1, <3>2, <3>6
    <2>2. /\ Held(g)' = Held(g) /\ Answered(g)' = Answered(g)
          /\ \A op : (Doing(op, g)' => Doing(op, g)) /\ Refused(op, g)' = Refused(op, g)
      BY <1>1, <1>6 DEF Held, Answered, Doing, Refused
    <2>3. Untouched(g)
      BY <1>1, <2>1, <2>2 DEF Untouched, In
    <2>4. QED
      BY <2>3, TaskStays
  <1>7. /\ ~In("reader", n)' /\ ~In("writer", n)' /\ ~Held(n)' /\ Reserved(n)'
        /\ ~Doing("read", n)' /\ ~Doing("write", n)'
        /\ ~Refused("read", n)' /\ ~Refused("write", n)'
    BY <1>1, <1>2 DEF OneSpot, In, Held, Doing, Refused, Reserved
  <1>8. Counted(n)' = Counted(n) /\ Remaining(n)' = Remaining(n)
    BY <1>1 DEF Counted, Remaining
  <1>9. UnderWay(n)' /\ Filled(n)' /\ Written(n)'
    BY <1>1, <1>2, <1>7, <1>8 DEF UnderWay, Filled, Written
  <1>10. ASSUME NEW i \in 0 .. size[n] - 1, i < Counted(n) + BufferSize
         PROVE  start[n] + i \in Position /\ target'[start[n] + i] = <<n, i>>
    <2>0. PICK p : p = start[n] + i
      OBVIOUS
    <2>1. CASE i < Counted(n)
      <3>1. p \in Position /\ target[p] = <<n, i>>
        BY <1>2, <2>0, <2>1 DEF CopiedTo
      <3>2. p - aio_offset[n] \notin 0 .. aio_nbytes[n] - 1
        BY <1>2, <1>3, <2>0, <2>1
      <3>3. target'[p] = target[p]
        BY <1>5, <3>1, <3>2
      <3>4. QED
        BY <2>0, <3>1, <3>3
    <2>2. CASE i >= Counted(n)
      <3>1. PICK j : j = p - aio_offset[n]
        OBVIOUS
      <3>2. j = i - Counted(n)
        BY <1>2, <1>3, <2>0, <3>1
      <3>3. j \in 0 .. aio_nbytes[n] - 1
        BY <1>3, <1>4, <1>10, <2>2, <3>2
      <3>4. p \in 0 .. MaxPosition
        <4>1. aio_offset[n] \in Nat /\ p = aio_offset[n] + j
          BY <1>2, <1>3, <2>0, <3>2
        <4>2. QED
          BY <1>1, <1>3, <3>3, <4>1
      <3>5. buffer[n][j] = <<n, i>>
        <4>1. Counted(n) + j = i
          BY <1>3, <3>2
        <4>2. QED
          BY <1>2, <3>3, <4>1 DEF Filled
      <3>6. target'[p] = buffer[n][j]
        BY <1>5, <3>1, <3>3, <3>4 DEF Position
      <3>7. QED
        BY <2>0, <3>4, <3>5, <3>6 DEF Position
    <2>3. QED
      BY <1>3, <2>1, <2>2
  <1>11. CopiedTo(n, Counted(n) + BufferSize)' /\ CopiedTo(n, Counted(n))'
    <2>1. size'[n] = size[n] /\ start'[n] = start[n] /\ Counted(n)' = Counted(n)
      BY <1>1, <1>8
    <2>2. ASSUME NEW k \in {Counted(n), Counted(n) + BufferSize}
          PROVE  \A i \in 0 .. size'[n] - 1 : i < k =>
                    start'[n] + i \in Position /\ target'[start'[n] + i] = <<n, i>>
      <3>1. ASSUME NEW i \in 0 .. size[n] - 1, i < k
            PROVE  start[n] + i \in Position /\ target'[start[n] + i] = <<n, i>>
        <4>1. i < Counted(n) + BufferSize
          BY <1>3, <3>1
        <4>2. QED
          BY <1>10, <4>1
      <3>2. QED
        BY <2>1, <3>1
    <2>3. QED
      BY <2>1, <2>2 DEF CopiedTo
  <1>12. executor'[n] # NULL
    BY <1>1, <1>2, ValuesAssumption DEF Written
  <1>13. TaskInv(n)'
    BY <1>1, <1>2, <1>7, <1>8, <1>9, <1>11, <1>12 DEF TaskInv, Nowhere
  <1>14. QED
    BY <1>6, <1>13

(* The callback passes a task on to the other executor.                    *)
LEMMA CallbackDone ==
  ASSUME CopyInv, NEW n \in File, IO_Callback(n)
  PROVE  \A g \in File : TaskInv(g)'
  <1> TypeOK /\ PlaceInv /\ PlaceTypes /\ \A g \in File : TaskInv(g)
    BY DEF CopyInv, BaseInv, PlaceInv
  <1> USE DEF offsetVars, cbVars
  <1>1. /\ Answered(n) /\ callbacks' = callbacks \ {n} /\ Notify(executor[n], n)
        /\ UNCHANGED <<size, offsetVars, buffers_written, cbVars, working, io, target, stalled>>
    BY DEF IO_Callback, Answered
  <1>2. /\ UnderWay(n) /\ Filled(n)
        /\ ToWrite(n) \/ (Written(n) /\ CopiedTo(n, Counted(n) + BufferSize))
        /\ executor[n] \in Executors /\ executor[n] # NULL
        /\ OneSpot(n) /\ Reserved(n)
        /\ ~Refused("read", n) /\ ~Refused("write", n)
    BY <1>1, SpotsApart, ValuesAssumption
       DEF TaskInv, Nowhere, UnderWay, ToWrite, Written, Executors
  <1>3. \A d \in Executors : \A g : In(d, g)' => In(d, g) \/ (d = executor[n] /\ g = n)
    BY <1>1, <1>2, Told
  <1>4. ASSUME NEW g \in File
        PROVE  /\ SameData(g) /\ Held(g)' = Held(g)
               /\ \A op : Doing(op, g)' = Doing(op, g) /\ Refused(op, g)' = Refused(op, g)
    BY <1>1 DEF SameData, Held, Doing, Refused
  <1>5. ASSUME NEW g \in File, g # n PROVE TaskInv(g)'
    <2>1. Answered(g)' = Answered(g)
      BY <1>1, <1>5 DEF Answered
    <2>2. Untouched(g)
      BY <1>3, <1>4, <1>5, <2>1, DataStays DEF Untouched, SameData
    <2>3. QED
      BY <2>2, TaskStays
  <1>6. /\ ~Held(n)' /\ ~Doing("read", n)' /\ ~Doing("write", n)' /\ ~Answered(n)'
        /\ ~Refused("read", n)' /\ ~Refused("write", n)'
        /\ In("reader", n)' => Written(n) /\ CopiedTo(n, Counted(n) + BufferSize)
        /\ In("writer", n)' => ToWrite(n)
    BY <1>1, <1>2, <1>3, <1>4 DEF OneSpot, Answered, ToWrite, Written, Executors
  <1>7. /\ executor'[n] # NULL /\ start'[n] = start[n] /\ write_offset'[n] = write_offset[n]
    BY <1>1, <1>2
  <1>8. TaskInv(n)'
    BY <1>2, <1>4, <1>6, <1>7, DataStays DEF TaskInv
  <1>9. QED
    BY <1>5, <1>8

-----------------------------------------------------------------------------
(* Types are kept by clients, ...                                          *)
LEMMA ClientTypes ==
  ASSUME TypeOK, PlaceTypes, NEW c \in Client, ClientStep(c)
  PROVE  TypeOK'
  <1> USE DEF clientVars, contextVars, offsetVars, cbVars, executorVars, ioVars, mainVars
  <1>1. CASE A_Create(c)
    <2> PICK f \in toAdd : /\ toAdd' = toAdd \ {f}
                           /\ clientFile' = [clientFile EXCEPT ![c] = f]
                           /\ start' = [start EXCEPT ![f] = expected]
                           /\ write_offset' = [write_offset EXCEPT ![f] = expected]
                           /\ expected' = expected + size[f]
      BY <1>1 DEF A_Create
    <2>1. /\ toAdd' \subseteq File /\ expected' \in Nat /\ start' \in [File -> Int]
          /\ write_offset' \in [File -> Nat] /\ clientFile' \in [Client -> File \cup {NULL}]
      <3>1. f \in File
        BY DEF TypeOK
      <3>2. expected \in Nat
        BY DEF TypeOK
      <3>3. expected \in Int /\ size[f] \in Nat
        BY <3>1, <3>2, Numbers
      <3>4. QED
        BY <3>1, <3>2, <3>3 DEF TypeOK
    <2>2. clientPC' \in [Client -> {"idle", "append", "notify", "return"}]
      BY <1>1 DEF TypeOK, A_Create
    <2>3. QED
      BY <1>1, <2>1, <2>2 DEF TypeOK, A_Create
  <1>2. CASE A_CreateFails(c)
    <2> PICK f \in toAdd : toAdd' = toAdd \ {f} /\ id' = [id EXCEPT ![f] = -1]
      BY <1>2 DEF A_CreateFails
    <2>1. id' \in [File -> Int \cup {NULL}] /\ toAdd' \subseteq File
      BY DEF TypeOK
    <2>2. QED
      BY <1>2, <2>1 DEF TypeOK, A_CreateFails
  <1>3. CASE A_Append(c)
    <2>1. clientFile[c] \in File
      BY <1>3 DEF PlaceTypes, A_Append
    <2>2. tasks' \in Seq(File)
      BY <1>3, <2>1 DEF TypeOK, A_Append
    <2>3. QED
      BY <1>3, <2>2 DEF TypeOK, A_Append
  <1>4. CASE A_Notify(c)
    <2>1. queue' \in [Executors -> Seq(File \cup {NULL})]
      BY <1>4, QueueNotified DEF A_Notify, PlaceTypes
    <2>2. QED
      BY <1>4, <2>1 DEF TypeOK, A_Notify
  <1>5. CASE A_Return(c)
    <2>1. Len(tasks) - 1 \in Int
      BY DEF TypeOK
    <2>2. id' \in [File -> Int \cup {NULL}] /\ clientFile' \in [Client -> File \cup {NULL}]
      BY <1>5, <2>1 DEF TypeOK, A_Return
    <2>3. QED
      BY <1>5, <2>2 DEF TypeOK, A_Return
  <1>6. QED
    BY <1>1, <1>2, <1>3, <1>4, <1>5 DEF ClientStep

(* ... the executors, ...                                                  *)
LEMMA ExecutorTypes ==
  ASSUME TypeOK, PlaceTypes, ReaderStep \/ WriterStep
  PROVE  TypeOK'
  <1> USE DEF clientVars, contextVars, offsetVars, cbVars, executorVars, ioVars, mainVars
  <1>0. BufferSize \in Nat \ {0}
    BY BufferAssumption
  <1>1. ASSUME NEW e \in Executors, E_Die(e) PROVE TypeOK'
    <2>1. queue' \in [Executors -> Seq(File \cup {NULL})]
      BY <1>1, QueueTaken DEF E_Die
    <2>2. QED
      BY <1>1, <2>1 DEF TypeOK, E_Die
  <1>2. CASE R_Count
    <2>1. PICK n : n = Taken("reader")
      OBVIOUS
    <2>2. queue' \in [Executors -> Seq(File \cup {NULL})] /\ n \in File
      BY <1>2, <2>1, QueueTaken DEF R_Count, Executors
    <2>3. /\ working' = [working EXCEPT !["reader"] = n]
          /\ executor' = [executor EXCEPT ![n] = "writer"]
          /\ \/ buffers_written' = buffers_written
             \/ buffers_written' = [buffers_written EXCEPT ![n] = @ + 1]
      BY <1>2, <2>1 DEF R_Count
    <2>4. /\ working' \in [Executors -> File \cup {NULL}]
          /\ executor' \in [File -> Executors \cup {NULL}]
          /\ buffers_written' \in [File -> Nat]
      <3>1. /\ working \in [Executors -> File \cup {NULL}]
            /\ executor \in [File -> Executors \cup {NULL}]
            /\ buffers_written \in [File -> Nat]
        BY DEF TypeOK
      <3>2. working' \in [Executors -> File \cup {NULL}]
        BY <2>2, <2>3, <3>1
      <3>3. executor' \in [File -> Executors \cup {NULL}]
        BY <2>2, <2>3, <3>1 DEF Executors
      <3>4. buffers_written' \in [File -> Nat]
        <4>1. CASE buffers_written' = buffers_written
          BY <3>1, <4>1
        <4>2. CASE buffers_written' = [buffers_written EXCEPT ![n] = @ + 1]
          <5>1. buffers_written[n] + 1 \in Nat
            BY <2>2, <3>1
          <5>2. QED
            BY <3>1, <4>2, <5>1
        <4>3. QED
          BY <2>3, <4>1, <4>2
      <3>5. QED
        BY <3>2, <3>3, <3>4
    <2>5. QED
      BY <1>2, <2>2, <2>4 DEF TypeOK, R_Count
  <1>3. CASE R_Finish
    BY <1>3 DEF TypeOK, R_Finish
  <1>4. CASE R_Read
    <2>1. PICK n \in File : n = working["reader"]
      BY <1>4 DEF R_Read, PlaceTypes, Executors
    <2>2. /\ Remaining(n) > 0
          /\ aio_nbytes' = [aio_nbytes EXCEPT ![n] =
                             IF Remaining(n) < BufferSize THEN Remaining(n) ELSE @]
          /\ aio_offset' = [aio_offset EXCEPT ![n] = read_offset[n]]
          /\ read_offset' = [read_offset EXCEPT ![n] = @ + BufferSize]
          /\ working' = [working EXCEPT !["reader"] = NULL]
          /\ Submit("read", n)
      BY <1>4, <2>1 DEF R_Read
    <2>3. Remaining(n) \in Int
      BY Numbers
    <2>4. /\ aio_nbytes' \in [File -> 1 .. BufferSize] /\ aio_offset' \in [File -> Nat]
          /\ read_offset' \in [File -> Nat] /\ working' \in [Executors -> File \cup {NULL}]
      <3>1. (IF Remaining(n) < BufferSize THEN Remaining(n) ELSE aio_nbytes[n]) \in 1 .. BufferSize
        BY <1>0, <2>2, <2>3, Numbers
      <3>2. aio_nbytes' \in [File -> 1 .. BufferSize]
        BY <2>2, <3>1 DEF TypeOK
      <3>3. aio_offset' \in [File -> Nat] /\ read_offset' \in [File -> Nat]
        BY <1>0, <2>2 DEF TypeOK
      <3>4. working' \in [Executors -> File \cup {NULL}]
        BY <2>2 DEF TypeOK
      <3>5. QED
        BY <3>2, <3>3, <3>4
    <2>5. /\ io' \subseteq {"read", "write"} \X File
          /\ stalled' \subseteq {"read", "write"} \X File
          /\ UNCHANGED <<callbacks, target>>
      BY <2>1, <2>2 DEF TypeOK, Submit
    <2>6. QED
      BY <1>4, <2>4, <2>5 DEF TypeOK, R_Read
  <1>5. CASE W_Write
    <2>1. PICK n : n = Taken("writer")
      OBVIOUS
    <2>2. queue' \in [Executors -> Seq(File \cup {NULL})] /\ n \in File
      BY <1>5, <2>1, QueueTaken DEF W_Write, Executors
    <2>3. /\ executor' = [executor EXCEPT ![n] = "reader"]
          /\ aio_offset' = [aio_offset EXCEPT ![n] = write_offset[n]]
          /\ write_offset' = [write_offset EXCEPT ![n] = @ + BufferSize]
          /\ Submit("write", n)
      BY <1>5, <2>1 DEF W_Write
    <2>4. /\ aio_offset' \in [File -> Nat] /\ write_offset' \in [File -> Nat]
          /\ executor' \in [File -> Executors \cup {NULL}]
      BY <1>0, <2>2, <2>3 DEF TypeOK, Executors
    <2>5. /\ io' \subseteq {"read", "write"} \X File
          /\ stalled' \subseteq {"read", "write"} \X File
          /\ UNCHANGED <<callbacks, target>>
      BY <2>2, <2>3 DEF TypeOK, Submit
    <2>6. QED
      BY <1>5, <2>2, <2>4, <2>5 DEF TypeOK, W_Write
  <1>6. QED
    BY <1>1, <1>2, <1>3, <1>4, <1>5 DEF ReaderStep, WriterStep, Executors

(* ... the system ...                                                      *)
LEMMA SystemTypes ==
  ASSUME TypeOK, PlaceTypes, NEW n \in File, SystemStep(n)
  PROVE  TypeOK'
  <1> USE DEF clientVars, contextVars, offsetVars, cbVars, executorVars, ioVars, mainVars
  <1>0. /\ aio_offset[n] \in Nat /\ aio_nbytes[n] \in 1 .. BufferSize
        /\ BufferSize \in Nat \ {0} /\ buffer \in [File -> [Slot -> Byte]]
    BY BufferAssumption DEF TypeOK
  <1>1. CASE IO_Read(n)
    <2>1. buffer' = [buffer EXCEPT ![n] = [i \in Slot |->
                         IF i < aio_nbytes[n] /\ aio_offset[n] + i < size[n]
                         THEN <<n, aio_offset[n] + i>> ELSE buffer[n][i]]]
      BY <1>0, <1>1 DEF IO_Read
    <2>2. \A i \in Slot : <<n, aio_offset[n] + i>> \in Byte /\ buffer[n][i] \in Byte
      BY <1>0 DEF Slot, Byte
    <2>3. buffer' \in [File -> [Slot -> Byte]]
      BY <1>0, <2>1, <2>2
    <2>4. QED
      BY <1>1, <2>3 DEF TypeOK, IO_Read
  <1>2. CASE IO_Write(n)
    <2>1. target' = [p \in Position |->
                        IF p - aio_offset[n] \in 0 .. aio_nbytes[n] - 1
                        THEN buffer[n][p - aio_offset[n]] ELSE target[p]]
      BY <1>2 DEF IO_Write
    <2>2. ASSUME NEW j \in 0 .. aio_nbytes[n] - 1 PROVE buffer[n][j] \in Byte
      <3>1. j \in Slot
        BY <1>0 DEF Slot
      <3>2. QED
        BY <1>0, <3>1
    <2>3. target \in [Position -> Byte]
      BY DEF TypeOK
    <2>4. target' \in [Position -> Byte]
      BY <2>1, <2>2, <2>3
    <2>5. QED
      BY <1>2, <2>4 DEF TypeOK, IO_Write
  <1>3. CASE IO_Callback(n)
    <2>1. queue' \in [Executors -> Seq(File \cup {NULL})]
      BY <1>3, QueueNotified DEF IO_Callback
    <2>2. QED
      BY <1>3, <2>1 DEF TypeOK, IO_Callback
  <1>4. QED
    BY <1>1, <1>2, <1>3 DEF SystemStep

(* The task whose progress main asks for.                                  *)
LEMMA Polled ==
  ASSUME TypeOK, MainInv, NEW f \in File, id[f] # -1, mainPC # "add"
  PROVE  Known(f) /\ TaskOf(f) \in File
  <1>1. id[f] # NULL
    BY DEF MainInv
  <1>2. Known(f)
    BY <1>1 DEF Known
  <1>3. /\ id[f] \in 0 .. Len(tasks) - 1 /\ tasks \in Seq(File)
    BY <1>2 DEF MainInv, TypeOK
  <1>4. id[f] + 1 \in 1 .. Len(tasks)
    BY <1>3
  <1>5. QED
    BY <1>2, <1>3, <1>4 DEF TaskOf

(* ... and main.                                                           *)
LEMMA MainTypes ==
  ASSUME TypeOK, PlaceTypes, MainInv, MainStep
  PROVE  TypeOK'
  <1> USE DEF clientVars, contextVars, offsetVars, cbVars, executorVars, ioVars, mainVars
  <1>1. CASE M_Round
    BY <1>1 DEF TypeOK, M_Round
  <1>2. CASE M_Poll
    <2> PICK f \in toPoll :
           /\ toPoll' = toPoll \ {f}
           /\ IF id[f] = -1
              THEN process' = "crashed" /\ UNCHANGED <<mainPC, polling, bytesRead>>
              ELSE /\ mainPC' = "progress" /\ polling' = TaskOf(f)
                   /\ bytesRead' = Counted(TaskOf(f)) /\ UNCHANGED process
      BY <1>2 DEF M_Poll, TaskOf, Counted
    <2>1. f \in File /\ mainPC = "poll"
      BY <1>2 DEF TypeOK, M_Poll
    <2>2. id[f] # -1 => polling' \in File /\ bytesRead' \in Nat
      BY <2>1, Polled, Numbers
    <2>3. /\ mainPC' \in {"poll", "progress"} /\ process' \in {"running", "crashed"}
          /\ toPoll' \subseteq File /\ polling' \in File \cup {NULL} /\ bytesRead' \in Nat
      BY <2>1, <2>2 DEF TypeOK
    <2>4. QED
      BY <1>2, <2>3 DEF TypeOK, M_Poll
  <1>3. CASE M_Progress
    BY <1>3 DEF TypeOK, M_Progress
  <1>4. CASE M_KillReader \/ M_KillWriter
    <2>1. \E e : Notify(e, NULL)
      BY <1>4 DEF M_KillReader, M_KillWriter
    <2>2. queue' \in [Executors -> Seq(File \cup {NULL})]
      BY <2>1, QueueNotified
    <2>3. QED
      BY <1>4, <2>2 DEF TypeOK, M_KillReader, M_KillWriter
  <1>5. CASE M_Free
    BY <1>5 DEF TypeOK, M_Free
  <1>6. QED
    BY <1>1, <1>2, <1>3, <1>4, <1>5 DEF MainStep

-----------------------------------------------------------------------------
(* Places stay apart, and are reserved once.                               *)
LEMMA ReservedStep ==
  ASSUME CopyInv, Next \/ UNCHANGED vars
  PROVE  ReservedInv'
  <1> TypeOK /\ PlaceInv /\ PlaceTypes /\ ReservedInv /\ \A g \in File : TaskInv(g)
    BY DEF CopyInv, BaseInv, PlaceInv
  <1> USE DEF clientVars, contextVars, offsetVars, cbVars, executorVars, ioVars, mainVars
  <1>1. ASSUME NEW c \in Client, A_Create(c) PROVE ReservedInv'
    <2> PICK f \in toAdd :
           /\ toAdd' = toAdd \ {f}
           /\ clientFile' = [clientFile EXCEPT ![c] = f]
           /\ start' = [start EXCEPT ![f] = expected]
           /\ expected' = expected + size[f]
           /\ clientPC' = [clientPC EXCEPT ![c] = "append"]
           /\ UNCHANGED <<size, executor>>
      BY <1>1 DEF A_Create
    <2>1. f \in File /\ ~Reserved(f)
      BY DEF TypeOK, ReservedInv
    <2>2. expected \in Nat /\ size[f] \in Nat
      BY <2>1, Numbers DEF TypeOK
    <2>3. /\ start'[f] = expected
          /\ \A g \in File : g # f => start'[g] = start[g]
      BY <2>1 DEF TypeOK
    <2>4. \A g \in File : Reserved(g)' <=> Reserved(g) \/ g = f
      BY <2>2, <2>3 DEF Reserved
    <2>5. \A g \in toAdd' : ~Reserved(g)'
      BY <2>4 DEF ReservedInv, TypeOK
    <2>6. /\ clientFile'[c] = f /\ clientPC'[c] = "append"
          /\ \A d \in Client : d # c => clientFile'[d] = clientFile[d] /\ clientPC'[d] = clientPC[d]
      BY DEF TypeOK
    <2>7. \A d \in Client : clientPC'[d] # "idle" => Reserved(clientFile[d])'
      <3> SUFFICES ASSUME NEW d \in Client, clientPC'[d] # "idle"
                   PROVE  Reserved(clientFile[d])'
        OBVIOUS
      <3>1. CASE d = c
        BY <2>1, <2>4, <2>6, <3>1 DEF Reserved
      <3>2. CASE d # c
        <4>1. clientFile[d] \in File /\ Reserved(clientFile[d])
          BY <2>6, <3>2 DEF PlaceTypes, ReservedInv
        <4>2. QED
          BY <2>3, <2>4, <2>6, <3>2, <4>1 DEF Reserved
      <3>3. QED
        BY <3>1, <3>2
    <2>8. \A d \in Client : Adding(d)' => executor'[clientFile'[d]] = NULL
      BY <2>1, <2>6 DEF Adding, ReservedInv, TaskInv
    <2>9. ASSUME NEW g \in File, Reserved(g)'
          PROVE  /\ (start[g] + size[g])' <= expected'
                 /\ g # f => start[g] + size[g] <= expected
      <3>1. size[g] \in Nat /\ start[g] \in Int
        BY Numbers
      <3>2. CASE g = f
        BY <2>2, <2>3, <3>2
      <3>3. CASE g # f
        BY <2>2, <2>3, <2>4, <2>9, <3>1, <3>3 DEF ReservedInv
      <3>4. QED
        BY <3>2, <3>3
    <2>10. ASSUME NEW g \in File, NEW h \in File, g # h, Reserved(g)', Reserved(h)'
           PROVE  (start[g] + size[g] <= start[h] \/ start[h] + size[h] <= start[g])'
      <3>1. CASE g = f
        BY <2>3, <2>9, <2>10, <3>1
      <3>2. CASE h = f
        BY <2>3, <2>9, <2>10, <3>2
      <3>3. CASE g # f /\ h # f
        BY <2>3, <2>4, <2>10, <3>3 DEF ReservedInv
      <3>4. QED
        BY <3>1, <3>2, <3>3
    <2>11. QED
      BY <2>5, <2>7, <2>8, <2>9, <2>10 DEF ReservedInv
  <1>2. ASSUME UNCHANGED <<size, start, expected>>, toAdd' \subseteq toAdd,
               \A d \in Client : /\ clientPC'[d] # "idle" =>
                                       clientPC[d] # "idle" /\ clientFile'[d] = clientFile[d]
                                 /\ Adding(d)' => Adding(d),
               \A d \in Client : Adding(d) => executor'[clientFile[d]] = executor[clientFile[d]]
        PROVE  ReservedInv'
    <2>1. \A g : Reserved(g)' = Reserved(g)
      BY <1>2 DEF Reserved
    <2>2. \A d \in Client : clientPC'[d] # "idle" => Reserved(clientFile[d])'
      BY <1>2 DEF ReservedInv, Reserved
    <2>3. \A d \in Client : Adding(d)' => executor'[clientFile'[d]] = NULL
      BY <1>2 DEF ReservedInv, Adding
    <2>4. QED
      BY <1>2, <2>1, <2>2, <2>3 DEF ReservedInv
  <1>3. ASSUME NEW c \in Client, A_CreateFails(c) \/ A_Append(c) \/ A_Notify(c) \/ A_Return(c)
        PROVE  ReservedInv'
    <2>1. UNCHANGED <<size, start, expected, executor>> /\ toAdd' \subseteq toAdd
      BY <1>3 DEF A_CreateFails, A_Append, A_Notify, A_Return
    <2>2. \A d \in Client : /\ clientPC'[d] # "idle" =>
                                  clientPC[d] # "idle" /\ clientFile'[d] = clientFile[d]
                            /\ Adding(d)' => Adding(d)
      BY <1>3 DEF A_CreateFails, A_Append, A_Notify, A_Return, Adding, TypeOK
    <2>3. QED
      BY <1>2, <2>1, <2>2
  <1>4. CASE UNCHANGED <<size, start, expected, toAdd, clientPC, clientFile, executor>>
    BY <1>2, <1>4 DEF Adding
  <1>5. ASSUME NEW n \in File, Places(n) # {}, UNCHANGED <<size, start, expected, toAdd, clientPC, clientFile>>,
               \A g \in File : g # n => executor'[g] = executor[g]
        PROVE  ReservedInv'
    <2>1. \A d \in Client : Adding(d) => clientFile[d] # n /\ clientFile[d] \in File
      BY <1>5 DEF PlaceInv, AddedOnce, PlaceTypes, Adding
    <2>2. QED
      BY <1>2, <1>5, <2>1 DEF Adding
  <1>6. ASSUME NEW e \in Executors, NEW n, n = Taken(e), n # NULL, queue[e] # <<>>
        PROVE  n \in File /\ Places(n) # {}
    <2>1. PICK q : q = [queue EXCEPT ![e] = Tail(@)]
      OBVIOUS
    <2>2. queue[e] \in Seq(File \cup {NULL})
      BY DEF PlaceTypes
    <2>3. n = queue[e][1] /\ n \in File \cup {NULL} /\ 1 \in 1 .. Len(queue[e])
      BY <1>6, <2>2, TailFacts DEF Taken
    <2>4. <<e, 1>> \in InQueues(n)
      BY <2>3, QueuePlace
    <2>5. QED
      BY <1>6, <2>3, <2>4, PlacesAre
  <1>7. CASE R_Count
    <2> DEFINE n == Taken("reader")
    <2>1. n \in File /\ Places(n) # {}
      BY <1>6, <1>7 DEF R_Count, Executors
    <2>2. \A g \in File : g # n => executor'[g] = executor[g]
      BY <1>7, <2>1 DEF R_Count, TypeOK
    <2>3. QED
      BY <1>5, <1>7, <2>1, <2>2 DEF R_Count
  <1>8. CASE W_Write
    <2> DEFINE n == Taken("writer")
    <2>1. n \in File /\ Places(n) # {}
      BY <1>6, <1>8 DEF W_Write, Executors
    <2>2. \A g \in File : g # n => executor'[g] = executor[g]
      BY <1>8, <2>1 DEF W_Write, TypeOK
    <2>3. QED
      BY <1>5, <1>8, <2>1, <2>2 DEF W_Write
  <1>9. CASE \/ \E e \in Executors : E_Die(e)
             \/ R_Finish \/ R_Read
             \/ \E f \in File : SystemStep(f)
             \/ MainStep
             \/ UNCHANGED vars
    BY <1>4, <1>9 DEF E_Die, R_Finish, R_Read, SystemStep, IO_Read, IO_Write, IO_Callback,
         MainStep, M_Round, M_Poll, M_Progress, M_KillReader, M_KillWriter, M_Free, vars
  <1>10. QED
    BY <1>1, <1>3, <1>7, <1>8, <1>9
       DEF Next, Clients, Reader, Writer, System, Main, ClientStep, ReaderStep, WriterStep, Executors

-----------------------------------------------------------------------------
(* What is counted of a task never shrinks.                                *)
LEMMA CountedGrows ==
  ASSUME BaseInv, Next \/ UNCHANGED vars, NEW f \in File
  PROVE  /\ size'[f] = size[f]
         /\ Counted(f)' \in Nat /\ Counted(f)' >= Counted(f)
         /\ Over(f) => Over(f)'
  <1> TypeOK /\ PlaceInv
    BY DEF BaseInv
  <1>1. size' = size
    BY DEF vars, Next, Clients, ClientStep, A_Create, A_CreateFails, A_Append, A_Notify,
           A_Return, Reader, ReaderStep, Writer, WriterStep, E_Die, R_Count, R_Finish, R_Read,
           W_Write, System, SystemStep, IO_Read, IO_Write, IO_Callback, Main, MainStep,
           M_Round, M_Poll, M_Progress, M_KillReader, M_KillWriter, M_Free
  <1>2. /\ Counted(f) \in Nat /\ BufferSize \in Nat \ {0} /\ buffers_written[f] \in Nat
        /\ Remaining(f) = size[f] - Counted(f) /\ size[f] \in Nat
        /\ Remaining(f)' = (size[f] - Counted(f))'
    BY Numbers DEF Remaining, Counted
  <1>3. buffers_written'[f] \in {buffers_written[f], buffers_written[f] + 1}
    <2>1. CASE R_Count
      BY <2>1 DEF R_Count, TypeOK
    <2>2. CASE buffers_written' = buffers_written
      BY <2>2
    <2>3. QED
      BY <2>1, <2>2
         DEF vars, Next, Clients, ClientStep, A_Create, A_CreateFails, A_Append, A_Notify,
             A_Return, Reader, ReaderStep, Writer, WriterStep, E_Die, R_Finish, R_Read,
             W_Write, System, SystemStep, IO_Read, IO_Write, IO_Callback, Main, MainStep,
             M_Round, M_Poll, M_Progress, M_KillReader, M_KillWriter, M_Free
  <1>4. Counted(f)' = Counted(f) \/ Counted(f)' = Counted(f) + BufferSize
    BY <1>2, <1>3 DEF Counted
  <1>5. QED
    BY <1>1, <1>2, <1>4 DEF Over

(* Clients add tasks only before main polls.                               *)
LEMMA MainInvClient ==
  ASSUME BaseInv, NEW c \in Client, ClientStep(c)
  PROVE  MainInv'
  <1> TypeOK /\ PlaceInv /\ PlaceTypes /\ MainInv
    BY DEF BaseInv, PlaceInv
  <1> USE DEF clientVars, contextVars, offsetVars, cbVars, executorVars, ioVars, mainVars
  <1>1. mainPC = "add" /\ UNCHANGED <<mainVars, dead, working, process>>
    BY DEF MainInv, ClientStep, A_Create, A_CreateFails, A_Append, A_Notify, A_Return
  <1> SUFFICES /\ \A f \in File : id'[f] = NULL =>
                     f \in toAdd' \/ \E d \in Client : clientPC'[d] # "idle" /\ clientFile'[d] = f
               /\ \A f \in File : Known(f)' => id'[f] \in 0 .. Len(tasks') - 1
               /\ \A d \in Client : clientPC'[d] \in {"notify", "return"} => tasks' # <<>>
    BY <1>1 DEF MainInv
  <1>2. /\ clientPC \in [Client -> {"idle", "append", "notify", "return"}]
        /\ clientFile \in [Client -> File \cup {NULL}] /\ id \in [File -> Int \cup {NULL}]
        /\ tasks \in Seq(File) /\ Len(tasks) \in Nat /\ toAdd \subseteq File
    BY DEF TypeOK
  <1>3. CASE A_Create(c)
    <2> PICK f \in toAdd : /\ toAdd' = toAdd \ {f}
                           /\ clientFile' = [clientFile EXCEPT ![c] = f]
                           /\ clientPC' = [clientPC EXCEPT ![c] = "append"]
                           /\ clientPC[c] = "idle"
                           /\ UNCHANGED <<id, tasks>>
      BY <1>3 DEF A_Create
    <2>1. /\ clientFile'[c] = f /\ clientPC'[c] = "append"
          /\ \A d \in Client : d # c => clientFile'[d] = clientFile[d] /\ clientPC'[d] = clientPC[d]
      BY <1>2
    <2>2. QED
      BY <2>1 DEF MainInv, Known
  <1>4. CASE A_CreateFails(c)
    BY <1>2, <1>4, ValuesAssumption DEF A_CreateFails, MainInv, Known
  <1>5. CASE A_Append(c)
    <2>1. /\ clientPC[c] = "append" /\ tasks' = Append(tasks, clientFile[c])
          /\ clientPC' = [clientPC EXCEPT ![c] = "notify"] /\ clientFile[c] \in File
          /\ UNCHANGED <<id, toAdd, clientFile>>
      BY <1>5 DEF A_Append, PlaceTypes
    <2>2. Len(tasks') = Len(tasks) + 1 /\ tasks' # <<>>
      <3>1. Len(tasks') = Len(tasks) + 1
        BY <1>2, <2>1
      <3>2. QED
        BY <1>2, <3>1
    <2>3. \A d \in Client : clientPC[d] # "idle" => clientPC'[d] # "idle"
      BY <1>2, <2>1
    <2>4. QED
      BY <1>2, <2>1, <2>2, <2>3 DEF MainInv, Known
  <1>6. CASE A_Notify(c)
    <2>1. /\ clientPC[c] = "notify" /\ clientPC' = [clientPC EXCEPT ![c] = "return"]
          /\ UNCHANGED <<id, toAdd, clientFile, tasks>>
      BY <1>6 DEF A_Notify
    <2>2. \A d \in Client : /\ clientPC[d] # "idle" => clientPC'[d] # "idle"
                            /\ clientPC'[d] \in {"notify", "return"} =>
                                   clientPC[d] \in {"notify", "return"}
      BY <1>2, <2>1
    <2>3. QED
      BY <2>1, <2>2 DEF MainInv, Known
  <1>7. CASE A_Return(c)
    <2>1. /\ clientPC[c] = "return" /\ clientFile[c] \in File
          /\ id' = [id EXCEPT ![clientFile[c]] = Len(tasks) - 1]
          /\ clientPC' = [clientPC EXCEPT ![c] = "idle"]
          /\ clientFile' = [clientFile EXCEPT ![c] = NULL]
          /\ UNCHANGED <<toAdd, tasks>>
      BY <1>7 DEF A_Return, PlaceTypes
    <2>2. Len(tasks) \in Nat \ {0}
      <3>1. tasks # <<>>
        BY <2>1 DEF MainInv
      <3>2. QED
        BY <1>2, <3>1
    <2>3. Len(tasks) - 1 \in 0 .. Len(tasks) - 1 /\ Len(tasks) - 1 # NULL
      BY <2>2, ValuesAssumption
    <2>4. \A d \in Client : /\ clientPC'[d] # "idle" => d # c
                            /\ d # c => clientPC'[d] = clientPC[d] /\ clientFile'[d] = clientFile[d]
      BY <1>2, <2>1
    <2>5. \A d \in Client : clientPC'[d] \in {"notify", "return"} => tasks' # <<>>
      BY <2>1, <2>2, <2>4 DEF MainInv
    <2>6. \A f \in File : f # clientFile[c] => id'[f] = id[f]
      BY <1>2, <2>1
    <2>7. id'[clientFile[c]] = Len(tasks) - 1
      BY <1>2, <2>1
    <2>8. \A f \in File : Known(f)' => id'[f] \in 0 .. Len(tasks') - 1
      BY <2>1, <2>3, <2>6, <2>7 DEF MainInv, Known
    <2>9. \A f \in File : id'[f] = NULL =>
             f \in toAdd' \/ \E d \in Client : clientPC'[d] # "idle" /\ clientFile'[d] = f
      <3> SUFFICES ASSUME NEW f \in File, id'[f] = NULL, f \notin toAdd'
                   PROVE  \E d \in Client : clientPC'[d] # "idle" /\ clientFile'[d] = f
        OBVIOUS
      <3>1. f # clientFile[c] /\ id[f] = NULL
        BY <2>3, <2>6, <2>7
      <3>2. PICK d \in Client : clientPC[d] # "idle" /\ clientFile[d] = f
        BY <2>1, <3>1 DEF MainInv
      <3>3. d # c
        BY <3>1, <3>2
      <3>4. QED
        BY <2>4, <3>2, <3>3
    <2>10. QED
      BY <2>5, <2>8, <2>9
  <1>8. QED
    BY <1>3, <1>4, <1>5, <1>6, <1>7 DEF ClientStep

(* The executors and the system go on while main polls.                    *)
LEMMA MainInvThread ==
  ASSUME BaseInv, Next \/ UNCHANGED vars,
         ReaderStep \/ WriterStep \/ (\E f \in File : SystemStep(f)) \/ UNCHANGED vars
  PROVE  MainInv'
  <1> TypeOK /\ PlaceInv /\ PlaceTypes /\ MainInv
    BY DEF BaseInv, PlaceInv
  <1> USE DEF clientVars, contextVars, offsetVars, cbVars, executorVars, ioVars, mainVars
  <1>1. UNCHANGED <<clientVars, contextVars, mainVars, process>>
    BY DEF ReaderStep, WriterStep, E_Die, R_Count, R_Finish, R_Read, W_Write, SystemStep,
           IO_Read, IO_Write, IO_Callback, vars
  <1>2. /\ working'["writer"] = NULL
        /\ "reader" \in dead' => working'["reader"] = NULL
        /\ dead \subseteq dead'
    <2>1. ASSUME NEW e \in Executors, E_Die(e) 
               PROVE  /\ working'["writer"] = NULL
                      /\ "reader" \in dead' => working'["reader"] = NULL
                      /\ dead \subseteq dead'
      BY <2>1 DEF E_Die, MainInv
    <2>2. CASE R_Count \/ R_Finish \/ R_Read
      <3>1. UNCHANGED dead /\ "reader" \notin dead /\ working'["writer"] = working["writer"]
        <4>1. UNCHANGED dead /\ (R_Count \/ working["reader"] # NULL)
          BY <2>2 DEF R_Count, R_Finish, R_Read
        <4>2. "reader" \notin dead
          BY <4>1 DEF R_Count, MainInv
        <4>3. \E n : working' = [working EXCEPT !["reader"] = n]
          BY <2>2 DEF R_Count, R_Finish, R_Read
        <4>4. QED
          BY <4>1, <4>2, <4>3 DEF TypeOK, Executors
      <3>2. QED
        BY <3>1 DEF MainInv
    <2>3. CASE UNCHANGED <<dead, working>>
      BY <2>3 DEF MainInv
    <2>4. QED
      BY <2>1, <2>2, <2>3 DEF ReaderStep, WriterStep, W_Write, SystemStep, IO_Read, IO_Write,
                              IO_Callback, vars, Executors
  <1>3. mainPC = "progress" => (bytesRead <= Counted(polling))'
    <2> SUFFICES ASSUME mainPC = "progress" PROVE (bytesRead <= Counted(polling))'
      OBVIOUS
    <2>1. PICK g \in File : g = polling
      BY DEF MainInv
    <2>2. bytesRead \in Nat /\ bytesRead <= Counted(g) /\ Counted(g) \in Nat
      BY <2>1, Numbers DEF MainInv, TypeOK
    <2>3. Counted(g)' \in Nat /\ Counted(g)' >= Counted(g)
      BY CountedGrows
    <2>4. Counted(polling)' = Counted(g)'
      BY <1>1, <2>1 DEF Counted
    <2>5. QED
      BY <1>1, <2>2, <2>3, <2>4
  <1>4. ASSUME NEW f \in File, Known(f), mainPC # "add"
        PROVE  /\ Known(f)' /\ TaskOf(f)' = TaskOf(f)
               /\ Over(TaskOf(f)) => Over(TaskOf(f))'
    <2>1. Known(f)' /\ TaskOf(f)' = TaskOf(f)
      BY <1>1, <1>4 DEF Known, TaskOf
    <2>2. PICK g \in File : g = TaskOf(f)
      BY <1>4, Polled DEF Known
    <2>3. Over(TaskOf(f))' = Over(g)'
      BY <2>1, <2>2 DEF Over, Remaining
    <2>4. QED
      BY <2>1, <2>2, <2>3, CountedGrows
  <1>5. QED
    BY <1>1, <1>2, <1>3, <1>4 DEF MainInv, Known

(* 100 percent is not reached before all buffers are counted, though main  *)
(* reads their number, and the length of the last, at different times.     *)
LEMMA CompleteIsOver ==
  ASSUME TypeOK, NEW f \in File, NEW bytes \in Nat, bytes <= Counted(f), Complete(f, bytes)
  PROVE  Over(f)
  <1>1. /\ size[f] \in Nat /\ Counted(f) \in Nat /\ BufferSize \in Nat \ {0}
        /\ aio_nbytes[f] \in 1 .. BufferSize /\ buffers_written[f] \in Nat
        /\ Remaining(f) = size[f] - Counted(f)
    BY Numbers
  <1>2. size[f] > 0 /\ Progress(f, bytes) >= size[f]
    BY DEF Complete
  <1>3. Progress(f, bytes) <= Counted(f)
    <2>1. CASE buffers_written[f] > 0
      BY <1>1, <2>1 DEF Progress
    <2>2. CASE ~(buffers_written[f] > 0)
      BY <1>1, <2>2 DEF Progress
    <2>3. QED
      BY <2>1, <2>2
  <1>4. Progress(f, bytes) \in Int
    BY <1>1 DEF Progress
  <1>5. QED
    BY <1>1, <1>2, <1>3, <1>4 DEF Over

(* Main.                                                                   *)
LEMMA MainInvMain ==
  ASSUME BaseInv, Main
  PROVE  MainInv'
  <1> TypeOK /\ PlaceInv /\ PlaceTypes /\ MainInv /\ MainStep /\ process = "running"
    BY DEF BaseInv, PlaceInv, Main, Alive
  <1> USE DEF clientVars, contextVars, offsetVars, cbVars, executorVars, ioVars, mainVars
  <1>1. UNCHANGED <<size, clientVars, contextVars, buffers_written, working, dead>>
    BY DEF MainStep, M_Round, M_Poll, M_Progress, M_KillReader, M_KillWriter, M_Free
  <1>2. /\ \A g : Known(g)' = Known(g) /\ TaskOf(g)' = TaskOf(g)
        /\ \A g : Counted(g)' = Counted(g) /\ Remaining(g)' = Remaining(g) /\ Over(g)' = Over(g)
        /\ \A g : Over(TaskOf(g))' = Over(TaskOf(g))
    BY <1>1 DEF Known, TaskOf, Counted, Remaining, Over
  <1>3. CASE M_Round
    <2>1. /\ toAdd = {} /\ \A c \in Client : clientPC[c] = "idle"
      BY <1>3 DEF M_Round, MainInv
    <2>2. mainPC' = "poll" /\ toPoll' = File
      BY <1>3 DEF M_Round
    <2>3. QED
      BY <1>1, <1>2, <2>1, <2>2 DEF MainInv
  <1>4. CASE M_Poll
    <2> PICK f \in toPoll :
           /\ toPoll' = toPoll \ {f}
           /\ IF id[f] = -1
              THEN process' = "crashed" /\ UNCHANGED <<mainPC, polling, bytesRead>>
              ELSE /\ mainPC' = "progress" /\ polling' = TaskOf(f)
                   /\ bytesRead' = Counted(TaskOf(f)) /\ UNCHANGED process
      BY <1>4 DEF M_Poll, TaskOf, Counted
    <2>1. f \in File /\ mainPC = "poll" /\ is_completed' = is_completed
      BY <1>4 DEF TypeOK, M_Poll
    <2>2. CASE id[f] = -1
      BY <1>1, <1>2, <2>1, <2>2 DEF MainInv
    <2>3. CASE id[f] # -1
      <3>1. PICK g \in File : g = TaskOf(f)
        BY <2>1, <2>3, Polled
      <3>2. Known(f) /\ Counted(g) \in Nat
        BY <2>1, <2>3, Polled, Numbers
      <3>3. /\ mainPC' = "progress" /\ polling' = g /\ bytesRead' = Counted(g)
            /\ Counted(polling)' = Counted(g)
        <4>1. Counted(polling)' = Counted(g)'
          BY <2>3, <3>1 DEF Counted
        <4>2. QED
          BY <1>2, <2>3, <3>1, <4>1
      <3>4. bytesRead' <= Counted(polling)'
        BY <3>2, <3>3
      <3>5. is_completed' = 1 =>
              \A h \in File \ toPoll' :
                 Known(h)' /\ (Over(TaskOf(h))' \/ TaskOf(h)' = polling')
        <4> SUFFICES ASSUME is_completed = 1, NEW h \in File, h \notin toPoll \/ h = f
                     PROVE  Known(h) /\ (Over(TaskOf(h)) \/ TaskOf(h) = g)
          BY <1>2, <2>1, <3>3
        <4>1. CASE h = f
          BY <3>1, <3>2, <4>1
        <4>2. CASE h \notin toPoll
          BY <2>1, <4>2 DEF MainInv
        <4>3. QED
          BY <4>1, <4>2
      <3>6. QED
        BY <1>1, <1>2, <2>1, <3>3, <3>4, <3>5 DEF MainInv
    <2>4. QED
      BY <2>2, <2>3
  <1>5. CASE M_Progress
    <2>1. /\ mainPC = "progress" /\ mainPC' = "poll" /\ UNCHANGED <<toPoll, process>>
          /\ is_completed' = IF Complete(polling, bytesRead) THEN is_completed ELSE 0
      BY <1>5 DEF M_Progress
    <2>2. is_completed' = 1 => is_completed = 1 /\ Over(polling)
      <3>1. polling \in File /\ bytesRead \in Nat /\ bytesRead <= Counted(polling)
        BY <2>1 DEF MainInv, TypeOK
      <3>2. is_completed' = 1 => is_completed = 1 /\ Complete(polling, bytesRead)
        BY <2>1
      <3>3. QED
        BY <3>1, <3>2, CompleteIsOver
    <2>3. is_completed' = 1 =>
              \A h \in File \ toPoll' : Known(h)' /\ Over(TaskOf(h))'
      BY <1>2, <2>1, <2>2 DEF MainInv
    <2>4. QED
      BY <1>1, <1>2, <2>1, <2>3 DEF MainInv
  <1>6. CASE M_KillReader
    <2>1. /\ mainPC = "poll" /\ mainPC' = "joinReader" /\ toPoll = {} /\ is_completed = 1
      BY <1>6 DEF M_KillReader
    <2>2. \A f \in File : Known(f) /\ Over(TaskOf(f))
      BY <2>1 DEF MainInv
    <2>3. QED
      BY <1>1, <1>2, <2>1, <2>2 DEF MainInv
  <1>7. CASE M_KillWriter
    <2>1. mainPC = "joinReader" /\ mainPC' = "joinWriter" /\ "reader" \in dead
      BY <1>7 DEF M_KillWriter
    <2>2. QED
      BY <1>1, <1>2, <2>1 DEF MainInv
  <1>8. CASE M_Free
    <2>1. mainPC = "joinWriter" /\ mainPC' = "freed"
      BY <1>8 DEF M_Free
    <2>2. QED
      BY <1>1, <1>2, <2>1 DEF MainInv
  <1>9. QED
    BY <1>3, <1>4, <1>5, <1>6, <1>7, <1>8 DEF MainStep

-----------------------------------------------------------------------------
(* Every step keeps the types, and what main knows.                        *)
LEMMA BaseStep == BaseInv /\ [Next]_vars => BaseInv'
  <1> SUFFICES ASSUME BaseInv, [Next]_vars PROVE BaseInv'
    OBVIOUS
  <1> TypeOK /\ PlaceInv /\ PlaceTypes /\ MainInv
    BY DEF BaseInv, PlaceInv
  <1>1. PlaceInv'
    BY PlaceStep
  <1>2. ASSUME NEW c \in Client, ClientStep(c) PROVE TypeOK' /\ MainInv'
    BY <1>2, ClientTypes, MainInvClient
  <1>3. ASSUME ReaderStep \/ WriterStep PROVE TypeOK' /\ MainInv'
    BY <1>3, ExecutorTypes, MainInvThread
  <1>4. ASSUME NEW f \in File, SystemStep(f) PROVE TypeOK' /\ MainInv'
    BY <1>4, SystemTypes, MainInvThread
  <1>5. ASSUME Main PROVE TypeOK' /\ MainInv'
    BY <1>5, MainTypes, MainInvMain DEF Main
  <1>6. ASSUME UNCHANGED vars PROVE TypeOK' /\ MainInv'
    <2>1. TypeOK'
      BY <1>6 DEF vars, clientVars, contextVars, offsetVars, cbVars, executorVars, ioVars,
                  mainVars, TypeOK
    <2>2. QED
      BY <1>6, <2>1, MainInvThread
  <1>7. QED
    BY <1>1, <1>2, <1>3, <1>4, <1>5, <1>6
       DEF BaseInv, Next, Clients, Reader, Writer, System

(* Every step with a text keeps what is known of its task.                 *)
LEMMA CopyStep ==
  ASSUME Zeros = {}
  PROVE  CopyInv /\ [Next]_vars => CopyInv'
  <1> SUFFICES ASSUME CopyInv, [Next]_vars PROVE CopyInv'
    OBVIOUS
  <1>1. BaseInv' /\ ReservedInv'
    BY BaseStep, ReservedStep DEF CopyInv
  <1>2. ASSUME NEW c \in Client, ClientStep(c) PROVE \A f \in File : TaskInv(f)'
    BY <1>2, CreateTask, NotifyTask, QuietSteps DEF ClientStep
  <1>3. ASSUME ReaderStep \/ WriterStep PROVE \A f \in File : TaskInv(f)'
    BY <1>3, CountTask, ReadTask, WriteTask, QuietSteps DEF ReaderStep, WriterStep, Executors
  <1>4. ASSUME NEW f \in File, SystemStep(f) PROVE \A g \in File : TaskInv(g)'
    BY <1>4, ReadDone, WriteDone, CallbackDone DEF SystemStep
  <1>5. ASSUME Main \/ UNCHANGED vars PROVE \A f \in File : TaskInv(f)'
    BY <1>5, QuietSteps DEF Main
  <1>6. QED
    BY <1>1, <1>2, <1>3, <1>4, <1>5 DEF CopyInv, Next, Clients, Reader, Writer, System

(* Both hold at the start.                                                 *)
LEMMA CopyInit == Init => CopyInv
  <1> SUFFICES ASSUME Init PROVE CopyInv
    OBVIOUS
  <1> USE DEF Init
  <1>0. BufferSize \in Nat \ {0} /\ NULL \notin File \cup Int
    BY BufferAssumption, ValuesAssumption
  <1>1. TypeOK
    <2>1. 0 \in Slot /\ BufferSize \in 1 .. BufferSize
      BY <1>0 DEF Slot
    <2>2. buffer \in [File -> [Slot -> Byte]] /\ target \in [Position -> Byte]
      BY DEF Byte
    <2>3. tasks \in Seq(File) /\ queue \in [Executors -> Seq(File \cup {NULL})]
      OBVIOUS
    <2>4. QED
      BY <2>1, <2>2, <2>3 DEF TypeOK
  <1>2. PlaceInv
    <2>1. PlaceTypes
      BY DEF PlaceTypes
    <2>2. \A f \in File : Places(f) = {}
      BY <1>0 DEF Places, Executors
    <2>3. QED
      BY <2>1, <2>2 DEF PlaceInv, AddedOnce, OneOperation, Adding
  <1>3. ReservedInv
    BY DEF ReservedInv, Reserved, Adding
  <1>4. MainInv
    BY <1>0 DEF MainInv, Known, Executors
  <1>5. ASSUME NEW f \in File PROVE TaskInv(f)
    <2>1. Nowhere(f)
      BY <1>0 DEF Nowhere, In, Held, Doing, Answered, Executors
    <2>2. ~Reserved(f) /\ ~Refused("read", f) /\ ~Refused("write", f) /\ executor[f] = NULL
      BY DEF Reserved, Refused
    <2>3. 0 \in Slot /\ Counted(f) = 0
      BY <1>0 DEF Slot, Counted
    <2>4. Unseen(f)
      BY <2>1, <2>2, <2>3 DEF Unseen, Nowhere
    <2>5. CopiedTo(f, Counted(f))
      BY <2>3 DEF CopiedTo
    <2>6. QED
      BY <2>1, <2>2, <2>4, <2>5 DEF TaskInv, Nowhere
  <1>6. QED
    BY <1>1, <1>2, <1>3, <1>4, <1>5 DEF CopyInv, BaseInv

(* What is known of the tasks when they are freed.                         *)
LEMMA FreedIsCopied == CopyInv => FreedWhenCopied
  <1> SUFFICES ASSUME CopyInv, mainPC = "freed", IdsNameTasks
               PROVE  /\ \A f \in File : Places(f) = {}
                      /\ \A f \in Range(tasks) : \A i \in 0 .. size[f] - 1 :
                            target[start[f] + i] = <<f, i>>
    BY DEF FreedWhenCopied
  <1> TypeOK /\ PlaceInv /\ PlaceTypes /\ MainInv
    BY DEF CopyInv, BaseInv, PlaceInv
  <1>1. ASSUME NEW f \in File PROVE Over(f) /\ TaskInv(f)
    <2>1. Known(f) /\ Over(TaskOf(f))
      BY DEF MainInv
    <2>2. TaskOf(f) = f
      BY <2>1 DEF IdsNameTasks, Known, TaskOf
    <2>3. QED
      BY <2>1, <2>2 DEF CopyInv, BaseInv
  <1>2. ASSUME NEW f \in File PROVE Nowhere(f)
    <2>1. size[f] \in Nat \ {0} /\ ~(Remaining(f) > 0) /\ TaskInv(f)
      BY <1>1, Numbers DEF Over
    <2>2. executor[f] # NULL
      <3>1. SUFFICES ASSUME Unseen(f) PROVE FALSE
        BY <2>1 DEF TaskInv
      <3>2. Counted(f) = 0
        BY <3>1, BufferAssumption DEF Unseen, Counted
      <3>3. QED
        BY <2>1, <3>2, Numbers
    <2>3. ~Held(f)
      BY Numbers DEF MainInv, Held
    <2>4. QED
      BY <2>1, <2>2, <2>3 DEF TaskInv, UnderWay, Nowhere
  <1>3. ASSUME NEW f \in File PROVE Places(f) = {}
    <2>1. Nowhere(f) /\ f # NULL
      BY <1>2, Numbers
    <2>2. InQueues(f) = {}
      BY <2>1, QueuePlace DEF Nowhere, In, InQueues, Executors
    <2>3. InHands(f) = {}
      BY <2>1 DEF Nowhere, Held, InHands, Executors, MainInv
    <2>4. InOperations(f) = {}
      BY <2>1 DEF Nowhere, Doing, InOperations, PlaceTypes
    <2>5. InCallbacks(f) = {}
      BY <2>1 DEF Nowhere, Answered, InCallbacks
    <2>6. QED
      BY <2>2, <2>3, <2>4, <2>5, PlacesAre
  <1>4. ASSUME NEW f \in Range(tasks), NEW i \in 0 .. size[f] - 1
        PROVE  target[start[f] + i] = <<f, i>>
    <2>1. f \in File
      BY DEF TypeOK, Range
    <2>2. i < Counted(f) /\ CopiedTo(f, Counted(f))
      BY <1>1, <2>1, Numbers DEF Over, TaskInv
    <2>3. QED
      BY <2>2 DEF CopiedTo
  <1>5. QED
    BY <1>3, <1>4

-----------------------------------------------------------------------------
(* The refinement of Concat.  A buffer of f is on its way to the target.   *)
Writing(f) == <<"write", f>> \in io \cup stalled

(* How much of a file has arrived does not change with a step that neither *)
(* reserves its place, nor takes it for writing, nor writes it.            *)
LEMMA ArrivedStays ==
  ASSUME NEW f, UNCHANGED <<size[f], start[f], write_offset[f]>>,
         Writing(f)' = Writing(f), Writing(f) => aio_offset'[f] = aio_offset[f]
  PROVE  Arrived(f)' = Arrived(f)
  BY DEF Arrived, Writing

(* Nothing is reserved or copied at first.                                 *)
LEMMA PromiseInit == Init => Promise!CInit
  <1> SUFFICES ASSUME Init PROVE Promise!CInit
    OBVIOUS
  <1>1. size \in [File -> Nat]
    BY SizesAssumption DEF Init
  <1>2. \A f \in File : Arrived(f) = 0
    BY DEF Init, Arrived
  <1>3. QED
    BY <1>1, <1>2 DEF Init, Promise!CInit

(* A client reserves a place.                                              *)
LEMMA PromiseReserve ==
  ASSUME CopyInv, NEW c \in Client, A_Create(c), UNCHANGED mainPC, mainPC # "freed"
  PROVE  \E f \in File : Promise!Reserve(f)
  <1> TypeOK /\ ReservedInv /\ \A g \in File : TaskInv(g)
    BY DEF CopyInv, BaseInv
  <1> USE DEF cbVars, executorVars, ioVars, mainVars
  <1> PICK f \in toAdd :
         /\ start' = [start EXCEPT ![f] = expected]
         /\ write_offset' = [write_offset EXCEPT ![f] = expected]
         /\ expected' = expected + size[f]
         /\ UNCHANGED <<size, aio_offset, io, stalled, target>>
    BY DEF A_Create
  <1>1. f \in File /\ start[f] = -1 /\ ~Writing(f)
    <2>1. f \in File /\ start[f] = -1
      BY DEF TypeOK, ReservedInv, Reserved
    <2>2. QED
      BY <2>1 DEF Reserved, TaskInv, Unseen, Doing, Refused, Writing
  <1>2. size[f] \in Nat /\ start \in [File -> Int] /\ write_offset \in [File -> Nat] /\ expected \in Nat
    BY <1>1, Numbers DEF TypeOK
  <1>3. ASSUME NEW g \in File PROVE Arrived(g)' = Arrived(g)
    <2>1. CASE g = f
      <3>1. Arrived(g) = 0
        BY <1>1, <2>1 DEF Arrived
      <3>2. ~Writing(g)' /\ start'[g] = expected /\ write_offset'[g] = expected /\ expected # -1
        BY <1>1, <1>2, <2>1 DEF Writing
      <3>3. Arrived(g)' = 0
        BY <1>2, <2>1, <3>2 DEF Arrived, Writing
      <3>4. QED
        BY <3>1, <3>3
    <2>2. CASE g # f
      BY <1>1, <1>2, <2>2, ArrivedStays DEF Writing
    <2>3. QED
      BY <2>1, <2>2
  <1>4. [g \in File |-> Arrived(g)]' = [g \in File |-> Arrived(g)]
    BY <1>3
  <1>5. Promise!Reserve(f)
    BY <1>1, <1>4 DEF Promise!Reserve
  <1>6. QED
    BY <1>1, <1>5

(* The system writes a buffer.                                             *)
LEMMA PromiseCopy ==
  ASSUME CopyInv, NEW n \in File, IO_Write(n), mainPC # "freed"
  PROVE  Promise!Copy(n)
  <1> TypeOK /\ PlaceInv /\ \A g \in File : TaskInv(g)
    BY DEF CopyInv, BaseInv
  <1> USE DEF offsetVars, executorVars, cbVars, contextVars, mainVars
  <1> DEFINE C == [f \in File |-> Arrived(f)]
             k == aio_nbytes[n]
  <1>1. /\ Doing("write", n) /\ io' = io \ {<<"write", n>>}
        /\ target' = [p \in Position |->
                          IF p - aio_offset[n] \in 0 .. k - 1
                          THEN buffer[n][p - aio_offset[n]] ELSE target[p]]
        /\ UNCHANGED <<size, start, write_offset, aio_offset, expected, mainPC, stalled>>
    BY DEF IO_Write, Doing
  <1>2. /\ UnderWay(n) /\ Filled(n) /\ Written(n) /\ aio_offset[n] = start[n] + Counted(n)
        /\ Reserved(n) /\ start[n] \in Nat /\ ~Refused("write", n)
    BY <1>1 DEF TaskInv, Nowhere, UnderWay
  <1>3. /\ Counted(n) \in Nat /\ BufferSize \in Nat \ {0} /\ size[n] \in Nat
        /\ Remaining(n) = size[n] - Counted(n) /\ k \in 1 .. BufferSize
        /\ write_offset[n] \in Nat
    BY Numbers
  <1>4. /\ Remaining(n) > 0 /\ k <= Remaining(n)
        /\ Remaining(n) >= BufferSize => k = BufferSize
        /\ Remaining(n) < BufferSize => k = Remaining(n)
    BY <1>2, <1>3 DEF UnderWay
  <1>5. Arrived(n) = Counted(n)
    <2>1. Writing(n) /\ start[n] # -1
      BY <1>1, <1>2 DEF Writing, Doing, Reserved
    <2>2. aio_offset[n] - start[n] = Counted(n) /\ Counted(n) < size[n]
      BY <1>2, <1>3, <1>4
    <2>3. QED
      BY <2>1, <2>2 DEF Arrived, Writing
  <1>6. Arrived(n)' = Counted(n) + k
    <2>1. ~Writing(n)' /\ start'[n] = start[n] /\ start[n] # -1
      BY <1>1, <1>2 DEF Writing, Refused, Reserved
    <2>2. write_offset'[n] - start'[n] = Counted(n) + BufferSize /\ size'[n] = size[n]
      BY <1>1, <1>2, <1>3 DEF Written
    <2>3. Arrived(n)' = IF Counted(n) + BufferSize < size[n] THEN Counted(n) + BufferSize ELSE size[n]
      BY <2>1, <2>2 DEF Arrived, Writing
    <2>4. QED
      BY <1>3, <1>4, <2>3
  <1>7. ASSUME NEW g \in File, g # n PROVE Arrived(g)' = Arrived(g)
    <2>1. Writing(g)' = Writing(g)
      BY <1>1, <1>7 DEF Writing
    <2>2. QED
      BY <1>1, <2>1, ArrivedStays
  <1> HIDE DEF k
  <1>8. C' = [C EXCEPT ![n] = @ + k]
    BY <1>5, <1>6, <1>7
  <1>9. k \in 1 .. size[n] - C[n]
    BY <1>3, <1>4, <1>5
  <1>10. C[n] = Counted(n)
    BY <1>5
  <1>11. \A p \in Position : (IF p - aio_offset[n] \in 0 .. k - 1
                               THEN buffer[n][p - aio_offset[n]] ELSE target[p])
                           = (IF p - start[n] \in C[n] .. C[n] + k - 1
                               THEN <<n, p - start[n]>> ELSE target[p])
    <2> SUFFICES ASSUME NEW p \in Position
                 PROVE  (IF p - aio_offset[n] \in 0 .. k - 1
                          THEN buffer[n][p - aio_offset[n]] ELSE target[p])
                      = (IF p - start[n] \in C[n] .. C[n] + k - 1
                          THEN <<n, p - start[n]>> ELSE target[p])
      OBVIOUS
    <2>1. p \in Int /\ aio_offset[n] \in Int
      BY <1>2, <1>3 DEF Position
    <2>2. PICK j : j = p - aio_offset[n]
      OBVIOUS
    <2>3. p - start[n] = Counted(n) + j /\ j \in Int
      BY <1>2, <1>3, <2>1, <2>2
    <2>4. j \in 0 .. k - 1 <=> Counted(n) + j \in Counted(n) .. Counted(n) + k - 1
      BY <1>3, <2>3
    <2>5. j \in 0 .. k - 1 => buffer[n][j] = <<n, Counted(n) + j>>
      BY <1>2 DEF Filled, k
    <2> HIDE DEF C
    <2>6. QED
      BY <1>10, <2>2, <2>3, <2>4, <2>5
  <1>12. target' = [p \in Position |->
                       IF p - start[n] \in C[n] .. C[n] + k - 1
                       THEN <<n, p - start[n]>> ELSE target[p]]
    BY <1>1, <1>11 DEF k
  <1>13. start[n] # -1 /\ UNCHANGED <<size, start, expected, mainPC = "freed" /\ IdsNameTasks>>
    BY <1>1, <1>2 DEF Reserved
  <1>14. QED
    BY <1>8, <1>9, <1>12, <1>13 DEF Promise!Copy

(* Main frees the tasks.                                                   *)
LEMMA PromiseClose ==
  ASSUME CopyInv, M_Free, IdsNameTasks
  PROVE  Promise!Close
  <1> TypeOK /\ MainInv /\ \A g \in File : TaskInv(g)
    BY DEF CopyInv, BaseInv
  <1> USE DEF clientVars, contextVars, offsetVars, executorVars, cbVars, ioVars
  <1>1. /\ mainPC = "joinWriter" /\ mainPC' = "freed"
        /\ UNCHANGED <<size, start, write_offset, aio_offset, expected, io, stalled, target, id, tasks>>
    BY DEF M_Free
  <1>2. ASSUME NEW f \in File, start[f] # -1 PROVE Arrived(f) = size[f]
    <2>1. Known(f) /\ Over(TaskOf(f))
      BY <1>1 DEF MainInv
    <2>2. Over(f)
      BY <2>1 DEF IdsNameTasks, Known, TaskOf
    <2>3. /\ Counted(f) \in Nat /\ size[f] \in Nat /\ Remaining(f) = size[f] - Counted(f)
          /\ write_offset[f] \in Nat /\ start[f] \in Int
      BY Numbers
    <2>4. ~(Remaining(f) > 0) /\ Counted(f) >= size[f]
      BY <2>2, <2>3 DEF Over
    <2>5. ~Writing(f)
      BY <2>4 DEF TaskInv, UnderWay, Writing, Doing, Refused
    <2>6. write_offset[f] >= start[f] + Counted(f)
      BY <1>2 DEF TaskInv, Reserved
    <2>7. ~(write_offset[f] - start[f] < size[f])
      BY <2>3, <2>4, <2>6
    <2>8. QED
      BY <1>2, <2>5, <2>7 DEF Arrived, Writing
  <1>3. \A g \in File : Arrived(g)' = Arrived(g)
    BY <1>1, ArrivedStays DEF Writing
  <1>4. IdsNameTasks' = IdsNameTasks
    BY <1>1 DEF IdsNameTasks
  <1>5. QED
    BY <1>1, <1>2, <1>3, <1>4 DEF Promise!Close

(* Every step is one of Concat, or none.                                   *)
LEMMA PromiseStep == CopyInv /\ [Next]_vars => [Promise!CNext]_(Promise!cVars)
  <1> SUFFICES ASSUME CopyInv, [Next]_vars
               PROVE  Promise!CNext \/ UNCHANGED Promise!cVars
    OBVIOUS
  <1> TypeOK /\ PlaceInv /\ \A g \in File : TaskInv(g)
    BY DEF CopyInv, BaseInv
  <1> USE DEF clientVars, contextVars, offsetVars, executorVars, cbVars, ioVars, mainVars
  <1>1. ASSUME UNCHANGED <<size, start, expected, target>>,
               (mainPC # "freed" /\ mainPC' # "freed") \/ UNCHANGED <<mainPC, id, tasks>>,
               \A f \in File : Arrived(f)' = Arrived(f)
        PROVE  UNCHANGED Promise!cVars
    <2>1. [f \in File |-> Arrived(f)]' = [f \in File |-> Arrived(f)]
      BY <1>1
    <2>2. (mainPC = "freed" /\ IdsNameTasks)' = (mainPC = "freed" /\ IdsNameTasks)
      BY <1>1 DEF IdsNameTasks
    <2>3. QED
      BY <1>1, <2>1, <2>2 DEF Promise!cVars
  <1>2. ASSUME NEW c \in Client, Clients(c) PROVE Promise!CNext \/ UNCHANGED Promise!cVars
    <2>1. ClientStep(c) /\ mainPC # "freed"
      BY <1>2 DEF Clients, Alive
    <2>2. CASE A_Create(c)
      BY <2>1, <2>2, PromiseReserve DEF A_Create, Promise!CNext
    <2>3. CASE A_CreateFails(c) \/ A_Append(c) \/ A_Notify(c) \/ A_Return(c)
      <3>1. UNCHANGED <<size, start, expected, target, write_offset, aio_offset, io, stalled, mainPC>>
        BY <2>3 DEF A_CreateFails, A_Append, A_Notify, A_Return
      <3>2. QED
        BY <1>1, <2>1, <3>1, ArrivedStays DEF Writing
    <2>4. QED
      BY <2>1, <2>2, <2>3 DEF ClientStep
  <1>3. ASSUME Alive, ReaderStep \/ E_Die("writer") PROVE UNCHANGED Promise!cVars
    <2>1. mainPC # "freed" /\ UNCHANGED mainPC /\ UNCHANGED <<size, start, expected, target, write_offset>>
      BY <1>3 DEF Alive, ReaderStep, E_Die, R_Count, R_Finish,
                  R_Read, Submit
    <2>2. CASE R_Read
      <3>1. PICK n : n = working["reader"]
        OBVIOUS
      <3>2. n \in File /\ Held(n)
        BY <2>2, <3>1 DEF R_Read, TypeOK, Held, Executors
      <3>3. ~Writing(n)
        BY <3>2, SpotsApart DEF TaskInv, Nowhere, OneSpot, Writing, Doing, Refused
      <3>4. /\ aio_offset' = [aio_offset EXCEPT ![n] = read_offset[n]] /\ Submit("read", n)
        BY <2>2, <3>1 DEF R_Read
      <3>5. \A f \in File : Writing(f)' = Writing(f)
        BY <3>4 DEF Submit, Writing
      <3>6. \A f \in File : Writing(f) => aio_offset'[f] = aio_offset[f]
        BY <3>3, <3>4 DEF TypeOK
      <3>7. QED
        BY <1>1, <2>1, <3>5, <3>6, ArrivedStays
    <2>3. CASE ~R_Read
      <3>1. UNCHANGED <<aio_offset, io, stalled>>
        BY <1>3, <2>3 DEF ReaderStep, E_Die, R_Count, R_Finish
      <3>2. QED
        BY <1>1, <2>1, <3>1, ArrivedStays DEF Writing
    <2>4. QED
      BY <2>2, <2>3
  <1>4. ASSUME Writer, W_Write PROVE UNCHANGED Promise!cVars
    <2>1. mainPC # "freed" /\ UNCHANGED mainPC /\ UNCHANGED <<size, start, expected, target>>
      BY <1>4 DEF Writer, Alive, W_Write, Submit
    <2>2. PICK n : n = Taken("writer")
      OBVIOUS
    <2>3. /\ queue["writer"] # <<>> /\ queue' = [queue EXCEPT !["writer"] = Tail(@)]
          /\ n # NULL
          /\ aio_offset' = [aio_offset EXCEPT ![n] = write_offset[n]]
          /\ write_offset' = [write_offset EXCEPT ![n] = @ + BufferSize]
          /\ Submit("write", n)
      BY <1>4, <2>2 DEF W_Write
    <2>4. n \in File /\ In("writer", n)
      BY <2>2, <2>3, TakenFrom DEF Executors
    <2>5. ~Writing(n)
      BY <2>4, SpotsApart DEF TaskInv, Nowhere, OneSpot, Writing, Doing, Refused
    <2>6. /\ Writing(n)' /\ aio_offset'[n] = write_offset[n]
          /\ \A f \in File : f # n => /\ Writing(f)' = Writing(f)
                                      /\ aio_offset'[f] = aio_offset[f]
                                      /\ write_offset'[f] = write_offset[f]
      BY <2>3, <2>4 DEF Writing, Submit, TypeOK
    <2>7. Arrived(n)' = Arrived(n)
      BY <2>1, <2>5, <2>6 DEF Arrived, Writing
    <2>8. \A f \in File : f # n => Arrived(f)' = Arrived(f)
      BY <2>1, <2>6, ArrivedStays
    <2>9. QED
      BY <1>1, <2>1, <2>7, <2>8
  <1>5. ASSUME NEW n \in File, System(n) PROVE Promise!CNext \/ UNCHANGED Promise!cVars
    <2>1. SystemStep(n) /\ mainPC # "freed"
      BY <1>5 DEF System, Alive
    <2>2. CASE IO_Write(n)
      BY <2>1, <2>2, PromiseCopy DEF Promise!CNext
    <2>3. CASE IO_Read(n) \/ IO_Callback(n)
      <3>1. /\ UNCHANGED <<size, start, expected, target, write_offset, aio_offset, stalled, mainPC>>
            /\ io' = io \/ io' = io \ {<<"read", n>>}
        BY <2>3 DEF IO_Read, IO_Callback
      <3>2. \A f \in File : Writing(f)' = Writing(f)
        BY <3>1 DEF Writing
      <3>3. QED
        BY <1>1, <2>1, <3>1, <3>2, ArrivedStays
    <2>4. QED
      BY <2>1, <2>2, <2>3 DEF SystemStep
  <1>6. ASSUME Main PROVE Promise!CNext \/ UNCHANGED Promise!cVars
    <2>1. MainStep /\ mainPC # "freed"
      BY <1>6 DEF Main, Alive
    <2>2. UNCHANGED <<size, start, expected, target, write_offset, aio_offset, io, stalled, id, tasks>>
      BY <2>1 DEF MainStep, M_Round, M_Poll, M_Progress, M_KillReader, M_KillWriter, M_Free
    <2>3. \A f \in File : Arrived(f)' = Arrived(f)
      BY <2>2, ArrivedStays DEF Writing
    <2>4. CASE M_Free /\ IdsNameTasks
      BY <2>4, PromiseClose DEF Promise!CNext
    <2>5. CASE M_Free /\ ~IdsNameTasks
      <3>1. ~IdsNameTasks'
        BY <2>2, <2>5 DEF IdsNameTasks
      <3>2. [f \in File |-> Arrived(f)]' = [f \in File |-> Arrived(f)]
        BY <2>3
      <3>3. (mainPC = "freed" /\ IdsNameTasks)' = (mainPC = "freed" /\ IdsNameTasks)
        BY <2>5, <3>1
      <3>4. QED
        BY <2>2, <3>2, <3>3 DEF Promise!cVars
    <2>6. CASE ~M_Free
      <3>1. mainPC' # "freed"
        BY <2>1, <2>6 DEF MainStep, M_Round, M_Poll, M_Progress, M_KillReader, M_KillWriter
      <3>2. QED
        BY <1>1, <2>1, <2>2, <2>3, <3>1
    <2>7. QED
      BY <2>4, <2>5, <2>6
  <1>7. CASE UNCHANGED vars
    <2>1. UNCHANGED <<size, start, expected, target, write_offset, aio_offset, io, stalled, mainPC, id, tasks>>
      BY <1>7 DEF vars
    <2>2. QED
      BY <1>1, <2>1, ArrivedStays DEF Writing
  <1>8. CASE Reader
    BY <1>3, <1>8 DEF Reader
  <1>9. CASE Writer
    BY <1>3, <1>4, <1>9 DEF Writer, WriterStep
  <1>10. Next \/ UNCHANGED vars
    OBVIOUS
  <1>11. QED
    BY <1>2, <1>5, <1>6, <1>7, <1>8, <1>9, <1>10 DEF Next

-----------------------------------------------------------------------------
(* Types, whatever the files contain.                                      *)
THEOREM TypesHold == Spec => []TypeOK
  <1>1. Init => BaseInv
    BY CopyInit DEF CopyInv
  <1>2. BaseInv => TypeOK
    BY DEF BaseInv
  <1>3. QED
    BY <1>1, <1>2, BaseStep, PTL DEF Spec

(* What is known of texts and their tasks always holds.                    *)
LEMMA CopyInvHolds ==
  ASSUME Zeros = {}
  PROVE  Spec => []CopyInv
  BY CopyInit, CopyStep, PTL DEF Spec

(* main.c:88-105, zox_aio.c:49-71: when main, which polls without a lock,  *)
(* frees the tasks, no thread and no operation uses one, and every byte of *)
(* every file is in its place - of texts, files without a byte '\0'.       *)
THEOREM FreedOnlyWhenCopied ==
  ASSUME Zeros = {}
  PROVE  Spec => []FreedWhenCopied
  BY FreedIsCopied, CopyInvHolds, PTL

(* zox_aio.h:28: the library does what module Concat says, of texts.       *)
THEOREM LibraryImplementsConcat ==
  ASSUME Zeros = {}
  PROVE  Spec => ImplementsConcat
  BY PromiseInit, PromiseStep, CopyInvHolds, PTL DEF Spec, ImplementsConcat, Promise!CSpec
=============================================================================
