--------------------------- MODULE MessagerProofs ---------------------------
(***************************************************************************)
(* Proofs about the messenger of lab3, built for one system or the other,  *)
(* for any messages and any number of them and any number of starts: its   *)
(* types, its tokens, and that it implements the chat.  The invariant is   *)
(* that of the half that is built.                                         *)
(***************************************************************************)
EXTENDS Messager, FiniteSetTheorems, SequenceTheorems, TLAPS

(* There are two parties.                                                  *)
LEMMA OtherParty ==
  ASSUME NEW p \in Party
  PROVE  Other(p) \in Party /\ Other(p) # p /\ Other(Other(p)) = p /\ Party = {p, Other(p)}
  BY DEF Other, Party

(* What a sequence of one adds to another one.                             *)
LEMMA OneMore ==
  ASSUME NEW S, NEW s \in Seq(S), NEW t \in Seq(S), Len(t) = 1
  PROVE  Len(s \o t) = Len(s) + 1 /\ (s \o t)[Len(s) + 1] = Head(t)
  <1>1. Len(s) \in Nat /\ Len(s \o t) = Len(s) + Len(t)
    BY LenProperties, ConcatProperties
  <1>2. ASSUME NEW n \in Nat, n = Len(s)
        PROVE  (s \o t)[n + 1] = t[1]
    <2>1. n + 1 \in 1 .. n + 1 /\ ~(n + 1 <= n) /\ (n + 1) - n = 1
      OBVIOUS
    <2>2. \A i \in 1 .. n + 1 : (s \o t)[i] = IF i <= n THEN s[i] ELSE t[i - n]
      <3>1. Len(s) + Len(t) = n + 1
        BY <1>2
      <3>2. \A i \in 1 .. Len(s) + Len(t) : (s \o t)[i] = IF i <= Len(s) THEN s[i] ELSE t[i - Len(s)]
        BY ConcatProperties
      <3>3. QED
        BY <1>2, <3>1, <3>2
    <2>3. QED
      BY <2>1, <2>2
  <1>3. QED
    BY <1>1, <1>2

-----------------------------------------------------------------------------
(***************************************************************************)
(* Proofs about the messenger of lab3 on Linux, for any messages and any   *)
(* number of them and any number of starts.  While nothing happens that    *)
(* the code is not made for, a semaphore has exactly the token of the      *)
(* handshake and one for each message that is not received (LTokens), and  *)
(* the buffer has the one message that is not printed (LFollows).          *)
(***************************************************************************)

(* What is printed may be what is in the buffer, message or not.           *)
LChat ==
  /\ sent \in [Party -> Seq(Text)]
  /\ shown \in [Party -> Seq(Text \cup {TORN, VOID})]

Said(p) == Len(sent[p])
Seen(p) == Len(shown[p])
Behind(r, o) == Seen(r) < Said(o)

(* What was said and seen is counted in natural numbers.                   *)
LEMMA Lengths ==
  ASSUME LChat
  PROVE  \A p \in Party : Said(p) \in Nat /\ Seen(p) \in Nat
  BY DEF LChat, Said, Seen

-----------------------------------------------------------------------------
(* Linux.  A receiver prints what the other party, which is connected, has *)
(* sent.                                                                   *)
Receives(r, o) == lReceiver[r] = "print" => Connected(o)

(* A connected party has met the other one, which may have left in peace.  *)
Meets(r, o) == Connected(r) => lMain[o] # "hello" /\ (lMain[o] = "off" => lMain[r] = "idle")

(* The parties use the shared memory that the key stands for, except a     *)
(* party that was left behind.                                             *)
Shares(r, o) ==
  lMain[r] # "off" /\ (Connected(r) => lMain[o] # "off") => lAttached[r] = lSegment /\ lSegment # 0

(* One message at most is on the way, it is in the buffer, and the one who *)
(* will see it is there.                                                   *)
LFollows(r, o) ==
  IF Behind(r, o)
  THEN /\ Said(o) = Seen(r) + 1 /\ ~Behind(o, r)
       /\ Connected(o) /\ lMain[r] \notin {"off", "hello"}
       /\ IF lMain[o] = "copy" THEN lMessage[o] = sent[o][Said(o)]
          ELSE lBuffer[lSegment] = sent[o][Said(o)]
  ELSE Said(o) = Seen(r) /\ lMain[o] \notin {"copy", "post"}

(* A semaphore has the token of the handshake until the other party takes  *)
(* it, and one for each message that was sent and not received.            *)
Handshake(r, o) ==
  IF /\ lMain[r] \notin {"off", "hello"} /\ lMain[o] \in {"off", "hello", "wait"}
     /\ ~(Connected(r) /\ lMain[o] = "off")
  THEN 1 ELSE 0

Received(r) == IF lReceiver[r] = "print" THEN 1 ELSE 0
Unposted(o) == IF lMain[o] \in {"copy", "post"} THEN 1 ELSE 0

LTokens(r, o) ==
  lSem[r] + Received(r) + Unposted(o) + Seen(r) = Handshake(r, o) + Said(o)

LPart(r, o) ==
  Receives(r, o) /\ Meets(r, o) /\ Shares(r, o) /\ LFollows(r, o) /\ LTokens(r, o)

(* Who runs has shared memory and who is gone has none, so that there is   *)
(* some for a new start.  A receiver runs while its party does.            *)
Attaches ==
  \A p \in Party : /\ lMain[p] = "off" <=> lAttached[p] = 0
                   /\ lReceiver[p] # "none" => lMain[p] \in {"idle", "copy", "post"}

LInv == /\ LTypeOK /\ LChat /\ Attaches
        /\ lHist = {} => \A r \in Party : LPart(r, Other(r))

-----------------------------------------------------------------------------
(* Every step on Linux keeps the types and the attached memories.          *)
LEMMA LTypes ==
  ASSUME LTypeOK, LChat, Attaches, LNext
  PROVE  LTypeOK' /\ LChat' /\ Attaches'
  <1> SUFFICES ASSUME NEW p \in Party, LUser(p) \/ LRuns(p) \/ LReceives(p)
               PROVE  LTypeOK' /\ LChat' /\ Attaches'
    BY DEF LNext
  <1> PICK q : q = Other(p)
    OBVIOUS
  <1>0. q \in Party /\ q # p /\ Party = {p, q}
    BY OtherParty
  <1> USE <1>0 DEF LTypeOK, LChat, Attaches, chatVars
  <1>1. CASE LInitialize(p)
    <2>1. lMain[p] = "off" /\ lAttached[p] = 0 /\ lAttached[q] \in Segment \cup {0}
      BY <1>1 DEF LInitialize
    <2>2. lSegment = 0 => \E s \in Segment : s # lSegment /\ \A r \in Party : s # lAttached[r]
      <3>1. lAttached[q] = 1 => 2 # lAttached[q]
        OBVIOUS
      <3>2. QED
        BY <2>1, <3>1 DEF Segment
    <2>3. lSegment = 0 => Unused \in Segment
      BY <2>2 DEF Unused
    <2>20. 0 \notin Segment
      BY DEF Segment
    <2> HIDE DEF Segment
    <2>4. lSegment' \in Segment \cup {0}
      BY <1>1, <2>3 DEF LInitialize
    <2>5. lBuffer' \in [Segment -> Text \cup {TORN, VOID}]
      BY <1>1, <2>3 DEF LInitialize
    <2>6. LChat'
      <3>1. Again => LChat'
        BY DEF Again, Nothing
      <3>2. QED
        BY <1>1, <3>1 DEF LInitialize
    <2>7. lStarts' \in [Party -> 0 .. MaxStarts]
      BY <1>1, ChatBound DEF LInitialize
    <2>8. lMain' \in [Party -> {"off", "hello", "wait", "fork", "idle", "copy", "post"}]
            /\ lAttached' \in [Party -> Segment \cup {0}] /\ lHist' \subseteq {"stolen", "rushed", "broken"}
      BY <1>1, <2>4 DEF LInitialize
    <2>9. Attaches'
      <3>1. lSegment' # 0
        BY <1>1, <2>3, <2>20 DEF LInitialize
      <3>2. QED
        BY <1>1, <2>1, <3>1 DEF LInitialize
    <2>10. QED
      BY <1>1, <2>4, <2>5, <2>6, <2>7, <2>8, <2>9 DEF LInitialize
  <1>2. CASE LRelease(p)
    BY <1>2 DEF LRelease
  <1>3. CASE LTake(p)
    BY <1>3 DEF LTake
  <1>4. CASE LFork(p)
    BY <1>4 DEF LFork
  <1>5. CASE LForkFails(p)
    <2>1. lBuffer' \in [Segment -> Text \cup {TORN, VOID}]
      BY <1>5 DEF LForkFails, Kept
    <2>2. Attaches'
      BY <1>5 DEF LForkFails
    <2>3. QED
      BY <1>5, <2>1, <2>2 DEF LForkFails
  <1>6. CASE LCopy(p)
    <2>1. PICK m \in Text : /\ lMessage' = [lMessage EXCEPT ![p] = m]
                            /\ sent' = [sent EXCEPT ![p] = Append(@, m)]
      BY <1>6 DEF LCopy
    <2>2. LChat'
      BY <1>6, <2>1 DEF LCopy
    <2>3. Attaches'
      BY <1>6 DEF LCopy
    <2>4. LTypeOK'
      BY <1>6, <2>1 DEF LCopy
    <2>5. QED
      BY <2>2, <2>3, <2>4
  <1>7. CASE LCopied(p)
    BY <1>7 DEF LCopied
  <1>8. CASE LPost(p)
    BY <1>8 DEF LPost
  <1>9. CASE LReceive(p)
    BY <1>9 DEF LReceive
  <1>10. CASE LPrint(p)
    BY <1>10 DEF LPrint
  <1>11. CASE LInterrupt(p)
    BY <1>11 DEF LInterrupt, Kept
  <1>12. QED
    BY <1>1, <1>2, <1>3, <1>4, <1>5, <1>6, <1>7, <1>8, <1>9, <1>10, <1>11
       DEF LUser, LRuns, LReceives

-----------------------------------------------------------------------------
(* What a receiver prints is the message of the other party that it has    *)
(* not printed.                                                            *)
LEMMA PrintsNext ==
  ASSUME LInv, NEW p \in Party, NEW q \in Party, LPart(p, q), LPrint(p)
  PROVE  /\ Connected(q) /\ lMain[q] \notin {"copy", "post"} /\ Handshake(p, q) = 0
         /\ Behind(p, q) /\ Said(q) = Seen(p) + 1 /\ ~Behind(q, p)
         /\ lBuffer[lAttached[p]] = sent[q][Seen(p) + 1]
         /\ sent[q][Seen(p) + 1] \in Text
  <1>1. /\ lReceiver[p] = "print" /\ lSem[p] \in Nat /\ lMain[p] # "off"
        /\ Said(q) \in Nat /\ Seen(p) \in Nat
    BY Lengths DEF LPrint, LInv, LTypeOK, Attaches
  <1>2. Connected(q) /\ Handshake(p, q) = 0
    BY <1>1 DEF LPart, Receives, Handshake, Connected
  <1>3. Received(p) = 1 /\ Unposted(q) \in {0, 1} /\ (Unposted(q) = 0 => lMain[q] \notin {"copy", "post"})
    BY <1>1 DEF Received, Unposted
  <1>4. lSem[p] + 1 + Unposted(q) + Seen(p) = Said(q)
    BY <1>1, <1>2, <1>3 DEF LPart, LTokens
  <1>5. Behind(p, q)
    BY <1>1, <1>3, <1>4 DEF Behind
  <1>6. Said(q) = Seen(p) + 1 /\ ~Behind(q, p)
    BY <1>5 DEF LPart, LFollows
  <1>7. lMain[q] \notin {"copy", "post"}
    BY <1>1, <1>3, <1>4, <1>6
  <1>8. lAttached[p] = lSegment
    BY <1>1, <1>2 DEF LPart, Shares, Connected
  <1>9. lBuffer[lSegment] = sent[q][Said(q)]
    BY <1>5, <1>7 DEF LPart, LFollows
  <1>10. sent[q][Said(q)] \in Text
    BY <1>1, <1>6 DEF LInv, LChat, Said
  <1>11. QED
    BY <1>2, <1>5, <1>6, <1>7, <1>8, <1>9, <1>10

(* One of the two parties, p, takes a step that is no hazard; q is the     *)
(* other one.                                                              *)
LEMMA LPartStep ==
  ASSUME LInv, LTypeOK', LChat', Attaches', LNext, lHist' = {}
  PROVE  \A r \in Party : LPart(r, Other(r))'
  <1> SUFFICES ASSUME NEW p \in Party, LUser(p) \/ LRuns(p) \/ LReceives(p)
               PROVE  \A r \in Party : LPart(r, Other(r))'
    BY DEF LNext
  <1>1. PICK q \in Party : q = Other(p) /\ p = Other(q) /\ q # p /\ Party = {p, q}
    BY OtherParty
  <1>2. LPart(p, q) /\ LPart(q, p)
    BY <1>1 DEF LInv, LNext
  <1>3. SUFFICES LPart(p, q)' /\ LPart(q, p)'
    BY <1>1
  <1>4. /\ lMain \in [Party -> {"off", "hello", "wait", "fork", "idle", "copy", "post"}]
        /\ lReceiver \in [Party -> {"none", "wait", "print"}]
        /\ lSem \in [Party -> Nat]
        /\ lAttached \in [Party -> Segment \cup {0}] /\ lSegment \in Segment \cup {0}
        /\ lBuffer \in [Segment -> Text \cup {TORN, VOID}]
        /\ lMessage \in [Party -> Text \cup {VOID}]
        /\ sent \in [Party -> Seq(Text)]
        /\ shown \in [Party -> Seq(Text \cup {TORN, VOID})]
    BY DEF LInv, LTypeOK, LChat
  <1>5. /\ Said(p) \in Nat /\ Said(q) \in Nat /\ Seen(p) \in Nat /\ Seen(q) \in Nat
        /\ lSem[p] \in Nat /\ lSem[q] \in Nat
        /\ Received(p) \in {0, 1} /\ Received(q) \in {0, 1}
        /\ Unposted(p) \in {0, 1} /\ Unposted(q) \in {0, 1}
        /\ Handshake(p, q) \in {0, 1} /\ Handshake(q, p) \in {0, 1}
    BY <1>4, Lengths DEF LInv, Received, Unposted, Handshake
  <1>6. /\ lReceiver[p] # "none" => lMain[p] \in {"idle", "copy", "post"}
        /\ lReceiver[q] # "none" => lMain[q] \in {"idle", "copy", "post"}
    BY DEF LInv, Attaches
  <1>7. CASE LRelease(p)
    <2>3. Receives(p, q)' /\ Receives(q, p)'
      BY <1>1, <1>2, <1>4, <1>6, <1>7 DEF LRelease, LPart, Receives, Connected, chatVars
    <2>4. Meets(p, q)' /\ Meets(q, p)'
      BY <1>1, <1>2, <1>4, <1>6, <1>7 DEF LRelease, LPart, Meets, Connected, chatVars
    <2>5. Shares(p, q)' /\ Shares(q, p)'
      BY <1>1, <1>2, <1>4, <1>6, <1>7 DEF LRelease, LPart, Shares, Connected, chatVars
    <2>6. LFollows(p, q)' /\ LFollows(q, p)'
      <3>1. UNCHANGED <<Behind(p, q), Behind(q, p), Said(p), Said(q), Seen(p), Seen(q)>>
        BY <1>7 DEF LRelease, Behind, Said, Seen, chatVars
      <3>2. QED
        BY <1>1, <1>2, <1>4, <1>6, <1>7, <3>1 DEF LRelease, LPart, LFollows, Connected, chatVars
    <2>7. LTokens(p, q)' /\ LTokens(q, p)'
      <3>1. lSem'[p] = lSem[p] + 1 /\ lSem'[q] = lSem[q]
        BY <1>1, <1>4, <1>7 DEF LRelease
      <3>2. Handshake(p, q)' = Handshake(p, q) + 1 /\ Handshake(q, p)' = Handshake(q, p)
        BY <1>1, <1>2, <1>4, <1>7 DEF LRelease, LPart, Meets, Handshake, Connected
      <3>3. Received(p)' = Received(p) /\ Received(q)' = Received(q)
        BY <1>1, <1>4, <1>6, <1>7 DEF LRelease, Received
      <3>4. Unposted(p)' = Unposted(p) /\ Unposted(q)' = Unposted(q)
        BY <1>1, <1>4, <1>7 DEF LRelease, Unposted
      <3>5. /\ Said(p)' = Said(p) /\ Said(q)' = Said(q)
            /\ Seen(p)' = Seen(p) /\ Seen(q)' = Seen(q)
        BY <1>1, <1>4, <1>7 DEF LRelease, Said, Seen, chatVars
      <3>6. LTokens(p, q) /\ LTokens(q, p)
        BY <1>2 DEF LPart
      <3>7. LTokens(p, q)'
        <4>1. lSem[p] + Received(p) + Unposted(q) + Seen(p) = Handshake(p, q) + Said(q)
          BY <3>6 DEF LTokens
        <4>2. (lSem[p] + 1) + Received(p) + Unposted(q) + Seen(p) = (Handshake(p, q) + 1) + Said(q)
          BY <1>5, <4>1
        <4>3. QED
          BY <3>1, <3>2, <3>3, <3>4, <3>5, <4>2 DEF LTokens
      <3>8. LTokens(q, p)'
        BY <1>5, <3>1, <3>2, <3>3, <3>4, <3>5, <3>6 DEF LTokens
      <3>9. QED
        BY <3>7, <3>8
    <2>8. QED
      BY <2>3, <2>4, <2>5, <2>6, <2>7 DEF LPart
  <1>8. CASE LTake(p)
    <2>1. lMain[q] \notin {"off", "hello"}
      <3>1. ASSUME lMain[q] \in {"off", "hello"} PROVE FALSE
        <4>1. ~Behind(q, p) /\ Handshake(q, p) = 0 /\ lSem[q] > 0 /\ Received(q) = 0 /\ Unposted(p) = 0
          BY <1>1, <1>2, <1>4, <1>6, <1>8, <3>1 DEF LTake, LPart, LFollows, Handshake, Received, Unposted
        <4>2. Said(p) = Seen(q)
          BY <1>2, <4>1 DEF LPart, LFollows
        <4>3. QED
          BY <1>2, <1>5, <4>1, <4>2 DEF LPart, LTokens
      <3>2. QED
        BY <3>1
    <2>3. Receives(p, q)' /\ Receives(q, p)'
      BY <1>1, <1>2, <1>4, <1>6, <1>8, <2>1 DEF LTake, LPart, Receives, Connected, chatVars
    <2>4. Meets(p, q)' /\ Meets(q, p)'
      BY <1>1, <1>2, <1>4, <1>6, <1>8, <2>1 DEF LTake, LPart, Meets, Connected, chatVars
    <2>5. Shares(p, q)' /\ Shares(q, p)'
      BY <1>1, <1>2, <1>4, <1>6, <1>8, <2>1 DEF LTake, LPart, Shares, Connected, chatVars
    <2>6. LFollows(p, q)' /\ LFollows(q, p)'
      <3>1. UNCHANGED <<Behind(p, q), Behind(q, p), Said(p), Said(q), Seen(p), Seen(q)>>
        BY <1>8 DEF LTake, Behind, Said, Seen, chatVars
      <3>2. QED
        BY <1>1, <1>2, <1>4, <1>6, <1>8, <3>1, <2>1 DEF LTake, LPart, LFollows, Connected, chatVars
    <2>7. LTokens(p, q)' /\ LTokens(q, p)'
      <3>1. lSem'[p] = lSem[p] /\ lSem'[q] = lSem[q] - 1
        BY <1>1, <1>4, <1>8 DEF LTake
      <3>2. Handshake(p, q)' = Handshake(p, q) /\ Handshake(q, p)' = Handshake(q, p) - 1
        BY <1>1, <1>2, <1>4, <1>8, <2>1 DEF LTake, LPart, Meets, Handshake, Connected
      <3>3. Received(p)' = Received(p) /\ Received(q)' = Received(q)
        BY <1>1, <1>4, <1>6, <1>8 DEF LTake, Received
      <3>4. Unposted(p)' = Unposted(p) /\ Unposted(q)' = Unposted(q)
        BY <1>1, <1>4, <1>8 DEF LTake, Unposted
      <3>5. /\ Said(p)' = Said(p) /\ Said(q)' = Said(q)
            /\ Seen(p)' = Seen(p) /\ Seen(q)' = Seen(q)
        BY <1>1, <1>4, <1>8, <2>1 DEF LTake, Said, Seen, chatVars
      <3>6. LTokens(p, q) /\ LTokens(q, p)
        BY <1>2 DEF LPart
      <3>7. LTokens(p, q)'
        BY <1>5, <3>1, <3>2, <3>3, <3>4, <3>5, <3>6 DEF LTokens
      <3>8. LTokens(q, p)'
        <4>1. lSem[q] + Received(q) + Unposted(p) + Seen(q) = Handshake(q, p) + Said(p)
          BY <3>6 DEF LTokens
        <4>2. (lSem[q] - 1) + Received(q) + Unposted(p) + Seen(q) = (Handshake(q, p) - 1) + Said(p)
          BY <1>5, <4>1
        <4>3. QED
          BY <3>1, <3>2, <3>3, <3>4, <3>5, <4>2 DEF LTokens
      <3>9. QED
        BY <3>7, <3>8
    <2>8. QED
      BY <2>3, <2>4, <2>5, <2>6, <2>7 DEF LPart
  <1>9. CASE LFork(p)
    <2>3. Receives(p, q)' /\ Receives(q, p)'
      BY <1>1, <1>2, <1>4, <1>6, <1>9 DEF LFork, LPart, Receives, Connected, chatVars
    <2>4. Meets(p, q)' /\ Meets(q, p)'
      BY <1>1, <1>2, <1>4, <1>6, <1>9 DEF LFork, LPart, Meets, Connected, chatVars
    <2>5. Shares(p, q)' /\ Shares(q, p)'
      BY <1>1, <1>2, <1>4, <1>6, <1>9 DEF LFork, LPart, Shares, Connected, chatVars
    <2>6. LFollows(p, q)' /\ LFollows(q, p)'
      <3>1. UNCHANGED <<Behind(p, q), Behind(q, p), Said(p), Said(q), Seen(p), Seen(q)>>
        BY <1>9 DEF LFork, Behind, Said, Seen, chatVars
      <3>2. QED
        BY <1>1, <1>2, <1>4, <1>6, <1>9, <3>1 DEF LFork, LPart, LFollows, Connected, chatVars
    <2>7. LTokens(p, q)' /\ LTokens(q, p)'
      <3>1. lSem'[p] = lSem[p] /\ lSem'[q] = lSem[q]
        BY <1>1, <1>4, <1>9 DEF LFork
      <3>2. Handshake(p, q)' = Handshake(p, q) /\ Handshake(q, p)' = Handshake(q, p)
        BY <1>1, <1>2, <1>4, <1>9 DEF LFork, LPart, Meets, Handshake, Connected
      <3>3. Received(p)' = Received(p) /\ Received(q)' = Received(q)
        BY <1>1, <1>4, <1>6, <1>9 DEF LFork, Received
      <3>4. Unposted(p)' = Unposted(p) /\ Unposted(q)' = Unposted(q)
        BY <1>1, <1>4, <1>9 DEF LFork, Unposted
      <3>5. /\ Said(p)' = Said(p) /\ Said(q)' = Said(q)
            /\ Seen(p)' = Seen(p) /\ Seen(q)' = Seen(q)
        BY <1>1, <1>4, <1>9 DEF LFork, Said, Seen, chatVars
      <3>6. LTokens(p, q) /\ LTokens(q, p)
        BY <1>2 DEF LPart
      <3>7. QED
        BY <1>5, <3>1, <3>2, <3>3, <3>4, <3>5, <3>6 DEF LTokens
    <2>8. QED
      BY <2>3, <2>4, <2>5, <2>6, <2>7 DEF LPart
  <1>10. CASE LForkFails(p)
    BY <1>10 DEF LForkFails
  <1>11. CASE LCopied(p)
    <2>3. Receives(p, q)' /\ Receives(q, p)'
      BY <1>1, <1>2, <1>4, <1>6, <1>11 DEF LCopied, LPart, Receives, Connected, chatVars
    <2>4. Meets(p, q)' /\ Meets(q, p)'
      BY <1>1, <1>2, <1>4, <1>6, <1>11 DEF LCopied, LPart, Meets, Connected, chatVars
    <2>5. Shares(p, q)' /\ Shares(q, p)'
      BY <1>1, <1>2, <1>4, <1>6, <1>11 DEF LCopied, LPart, Shares, Connected, chatVars
    <2>6. LFollows(p, q)' /\ LFollows(q, p)'
      <3>1. UNCHANGED <<Behind(p, q), Behind(q, p), Said(p), Said(q), Seen(p), Seen(q)>>
        BY <1>11 DEF LCopied, Behind, Said, Seen, chatVars
      <3>2. Behind(q, p) /\ ~Behind(p, q) /\ lMessage[p] = sent[p][Said(p)] /\ lMain[q] \notin {"off", "hello"}
        BY <1>2, <1>11 DEF LCopied, LPart, LFollows
      <3>3. lAttached[p] = lSegment /\ lSegment \in Segment
        BY <1>2, <1>4, <1>11, <3>2 DEF LCopied, LPart, Shares, Connected
      <3>4. lBuffer'[lSegment'] = sent'[p][Said(p)']
        BY <1>4, <1>11, <3>1, <3>2, <3>3 DEF LCopied, chatVars
      <3>5. lMain'[p] = "post" /\ lMain'[q] = lMain[q] /\ lMain[q] \notin {"copy", "post"}
        BY <1>1, <1>2, <1>4, <1>11, <3>2 DEF LCopied, LPart, LFollows
      <3>6. QED
        BY <1>2, <3>1, <3>2, <3>4, <3>5 DEF LPart, LFollows, Connected
    <2>7. LTokens(p, q)' /\ LTokens(q, p)'
      <3>1. lSem'[p] = lSem[p] /\ lSem'[q] = lSem[q]
        BY <1>1, <1>4, <1>11 DEF LCopied
      <3>2. Handshake(p, q)' = Handshake(p, q) /\ Handshake(q, p)' = Handshake(q, p)
        BY <1>1, <1>2, <1>4, <1>11 DEF LCopied, LPart, Meets, Handshake, Connected
      <3>3. Received(p)' = Received(p) /\ Received(q)' = Received(q)
        BY <1>1, <1>4, <1>6, <1>11 DEF LCopied, Received
      <3>4. Unposted(p)' = Unposted(p) /\ Unposted(q)' = Unposted(q)
        BY <1>1, <1>4, <1>11 DEF LCopied, Unposted
      <3>5. /\ Said(p)' = Said(p) /\ Said(q)' = Said(q)
            /\ Seen(p)' = Seen(p) /\ Seen(q)' = Seen(q)
        BY <1>1, <1>4, <1>11 DEF LCopied, Said, Seen, chatVars
      <3>6. LTokens(p, q) /\ LTokens(q, p)
        BY <1>2 DEF LPart
      <3>7. QED
        BY <1>5, <3>1, <3>2, <3>3, <3>4, <3>5, <3>6 DEF LTokens
    <2>8. QED
      BY <2>3, <2>4, <2>5, <2>6, <2>7 DEF LPart
  <1>12. CASE LPost(p)
    <2>3. Receives(p, q)' /\ Receives(q, p)'
      BY <1>1, <1>2, <1>4, <1>6, <1>12 DEF LPost, LPart, Receives, Connected, chatVars
    <2>4. Meets(p, q)' /\ Meets(q, p)'
      BY <1>1, <1>2, <1>4, <1>6, <1>12 DEF LPost, LPart, Meets, Connected, chatVars
    <2>5. Shares(p, q)' /\ Shares(q, p)'
      BY <1>1, <1>2, <1>4, <1>6, <1>12 DEF LPost, LPart, Shares, Connected, chatVars
    <2>6. LFollows(p, q)' /\ LFollows(q, p)'
      <3>1. UNCHANGED <<Behind(p, q), Behind(q, p), Said(p), Said(q), Seen(p), Seen(q)>>
        BY <1>12 DEF LPost, Behind, Said, Seen, chatVars
      <3>2. QED
        BY <1>1, <1>2, <1>4, <1>6, <1>12, <3>1 DEF LPost, LPart, LFollows, Connected, chatVars
    <2>7. LTokens(p, q)' /\ LTokens(q, p)'
      <3>1. lSem'[p] = lSem[p] /\ lSem'[q] = lSem[q] + 1
        BY <1>1, <1>4, <1>12 DEF LPost
      <3>2. Handshake(p, q)' = Handshake(p, q) /\ Handshake(q, p)' = Handshake(q, p)
        BY <1>1, <1>2, <1>4, <1>12 DEF LPost, LPart, Meets, Handshake, Connected
      <3>3. Received(p)' = Received(p) /\ Received(q)' = Received(q)
        BY <1>1, <1>4, <1>6, <1>12 DEF LPost, Received
      <3>4. Unposted(p)' = Unposted(p) - 1 /\ Unposted(q)' = Unposted(q)
        BY <1>1, <1>4, <1>12 DEF LPost, Unposted
      <3>5. /\ Said(p)' = Said(p) /\ Said(q)' = Said(q)
            /\ Seen(p)' = Seen(p) /\ Seen(q)' = Seen(q)
        BY <1>1, <1>4, <1>12 DEF LPost, Said, Seen, chatVars
      <3>6. LTokens(p, q) /\ LTokens(q, p)
        BY <1>2 DEF LPart
      <3>7. QED
        BY <1>5, <3>1, <3>2, <3>3, <3>4, <3>5, <3>6 DEF LTokens
    <2>8. QED
      BY <2>3, <2>4, <2>5, <2>6, <2>7 DEF LPart
  <1>13. CASE LReceive(p)
    <2>1. lMain[q] \notin {"off", "hello", "wait"}
      <3>1. lSem[p] \in Nat \ {0} /\ lReceiver[p] = "wait" /\ Connected(p)
        BY <1>4, <1>6, <1>13 DEF LReceive, Connected
      <3>2. lMain[q] # "hello" /\ lMain[q] # "wait"
        BY <1>1, <1>2, <1>13, <3>1 DEF LReceive, LPart, Meets
      <3>3. ASSUME lMain[q] = "off" PROVE FALSE
        <4>1. ~Behind(p, q) /\ Handshake(p, q) = 0
          BY <1>2, <3>1, <3>3 DEF LPart, LFollows, Handshake, Connected
        <4>2. Said(q) = Seen(p)
          BY <1>2, <4>1 DEF LPart, LFollows
        <4>3. QED
          BY <1>2, <1>5, <3>1, <4>1, <4>2 DEF LPart, LTokens
      <3>4. QED
        BY <3>2, <3>3
    <2>3. Receives(p, q)' /\ Receives(q, p)'
      BY <1>1, <1>2, <1>4, <1>6, <1>13, <2>1 DEF LReceive, LPart, Receives, Connected, chatVars
    <2>4. Meets(p, q)' /\ Meets(q, p)'
      BY <1>1, <1>2, <1>4, <1>6, <1>13, <2>1 DEF LReceive, LPart, Meets, Connected, chatVars
    <2>5. Shares(p, q)' /\ Shares(q, p)'
      BY <1>1, <1>2, <1>4, <1>6, <1>13, <2>1 DEF LReceive, LPart, Shares, Connected, chatVars
    <2>6. LFollows(p, q)' /\ LFollows(q, p)'
      <3>1. UNCHANGED <<Behind(p, q), Behind(q, p), Said(p), Said(q), Seen(p), Seen(q)>>
        BY <1>13 DEF LReceive, Behind, Said, Seen, chatVars
      <3>2. QED
        BY <1>1, <1>2, <1>4, <1>6, <1>13, <3>1, <2>1 DEF LReceive, LPart, LFollows, Connected, chatVars
    <2>7. LTokens(p, q)' /\ LTokens(q, p)'
      <3>1. lSem'[p] = lSem[p] - 1 /\ lSem'[q] = lSem[q]
        BY <1>1, <1>4, <1>13 DEF LReceive
      <3>2. Handshake(p, q)' = Handshake(p, q) /\ Handshake(q, p)' = Handshake(q, p)
        BY <1>1, <1>2, <1>4, <1>13, <2>1 DEF LReceive, LPart, Meets, Handshake, Connected
      <3>3. Received(p)' = Received(p) + 1 /\ Received(q)' = Received(q)
        BY <1>1, <1>4, <1>6, <1>13 DEF LReceive, Received
      <3>4. Unposted(p)' = Unposted(p) /\ Unposted(q)' = Unposted(q)
        BY <1>1, <1>4, <1>13 DEF LReceive, Unposted
      <3>5. /\ Said(p)' = Said(p) /\ Said(q)' = Said(q)
            /\ Seen(p)' = Seen(p) /\ Seen(q)' = Seen(q)
        BY <1>1, <1>4, <1>13, <2>1 DEF LReceive, Said, Seen, chatVars
      <3>6. LTokens(p, q) /\ LTokens(q, p)
        BY <1>2 DEF LPart
      <3>7. QED
        BY <1>5, <3>1, <3>2, <3>3, <3>4, <3>5, <3>6 DEF LTokens
    <2>8. QED
      BY <2>3, <2>4, <2>5, <2>6, <2>7 DEF LPart
  <1>14. CASE LCopy(p)
    <2>1. PICK m \in Text : /\ lMessage' = [lMessage EXCEPT ![p] = m]
                            /\ sent' = [sent EXCEPT ![p] = Append(@, m)]
      BY <1>14 DEF LCopy
    <2>2. /\ lMain[q] # "off" /\ ~Behind(p, q) /\ ~Behind(q, p)
          /\ Said(p)' = Said(p) + 1 /\ sent'[p][Said(p)'] = m
          /\ Said(q)' = Said(q) /\ lMessage'[p] = m
      <3>1. lMain[q] # "off" /\ ~Behind(p, q) /\ ~Behind(q, p)
        BY <1>1, <1>14 DEF LCopy, Unseen, Behind, Said, Seen
      <3>2. QED
        BY <1>1, <1>4, <2>1, <3>1 DEF Said
    <2>3. Receives(p, q)' /\ Receives(q, p)'
      BY <1>1, <1>2, <1>4, <1>6, <1>14, <2>2 DEF LCopy, LPart, Receives, Connected, chatVars
    <2>4. Meets(p, q)' /\ Meets(q, p)'
      BY <1>1, <1>2, <1>4, <1>6, <1>14, <2>2 DEF LCopy, LPart, Meets, Connected, chatVars
    <2>5. Shares(p, q)' /\ Shares(q, p)'
      BY <1>1, <1>2, <1>4, <1>6, <1>14, <2>2 DEF LCopy, LPart, Shares, Connected, chatVars
    <2>6. LFollows(p, q)' /\ LFollows(q, p)'
      <3>1. Seen(p)' = Seen(p) /\ Seen(q)' = Seen(q)
        BY <1>14 DEF LCopy, Seen
      <3>2. Said(p) = Seen(q) /\ Said(q) = Seen(p) /\ lMain[q] \notin {"copy", "post"}
        BY <1>2, <2>2 DEF LPart, LFollows
      <3>3. Behind(q, p)' /\ ~Behind(p, q)'
        BY <1>5, <2>2, <3>1, <3>2 DEF Behind
      <3>4. lMain[q] # "hello" /\ lMain'[q] = lMain[q] /\ lMain'[p] = "copy"
        BY <1>1, <1>2, <1>4, <1>14 DEF LCopy, LPart, Meets, Connected
      <3>5. QED
        BY <1>5, <2>2, <3>1, <3>2, <3>3, <3>4 DEF LFollows, Connected
    <2>7. LTokens(p, q)' /\ LTokens(q, p)'
      <3>1. lSem'[p] = lSem[p] /\ lSem'[q] = lSem[q]
        BY <1>1, <1>4, <1>14 DEF LCopy
      <3>2. Handshake(p, q)' = Handshake(p, q) /\ Handshake(q, p)' = Handshake(q, p)
        BY <1>1, <1>2, <1>4, <1>14, <2>2 DEF LCopy, LPart, Meets, Handshake, Connected
      <3>3. Received(p)' = Received(p) /\ Received(q)' = Received(q)
        BY <1>1, <1>4, <1>6, <1>14 DEF LCopy, Received
      <3>4. Unposted(p)' = Unposted(p) + 1 /\ Unposted(q)' = Unposted(q)
        BY <1>1, <1>4, <1>14 DEF LCopy, Unposted
      <3>5. /\ Said(p)' = Said(p) + 1 /\ Said(q)' = Said(q)
            /\ Seen(p)' = Seen(p) /\ Seen(q)' = Seen(q)
        BY <1>1, <1>4, <1>14, <2>2 DEF LCopy, Said, Seen, chatVars
      <3>6. LTokens(p, q) /\ LTokens(q, p)
        BY <1>2 DEF LPart
      <3>7. QED
        BY <1>5, <3>1, <3>2, <3>3, <3>4, <3>5, <3>6 DEF LTokens
    <2>8. QED
      BY <2>3, <2>4, <2>5, <2>6, <2>7 DEF LPart
  <1>15. CASE LPrint(p)
    <2>1. /\ lMain[q] \notin {"copy", "post"} /\ Behind(p, q) /\ ~Behind(q, p)
          /\ Said(q) = Seen(p) + 1 /\ lBuffer[lAttached[p]] \in Text
      BY <1>2, <1>15, PrintsNext
    <2>3. Receives(p, q)' /\ Receives(q, p)'
      BY <1>1, <1>2, <1>4, <1>6, <1>15, <2>1 DEF LPrint, LPart, Receives, Connected, chatVars
    <2>4. Meets(p, q)' /\ Meets(q, p)'
      BY <1>1, <1>2, <1>4, <1>6, <1>15, <2>1 DEF LPrint, LPart, Meets, Connected, chatVars
    <2>5. Shares(p, q)' /\ Shares(q, p)'
      BY <1>1, <1>2, <1>4, <1>6, <1>15, <2>1 DEF LPrint, LPart, Shares, Connected, chatVars
    <2>6. LFollows(p, q)' /\ LFollows(q, p)'
      <3>1. /\ Said(p)' = Said(p) /\ Said(q)' = Said(q)
            /\ Seen(p)' = Seen(p) + 1 /\ Seen(q)' = Seen(q)
        BY <1>1, <1>4, <1>15, <2>1 DEF LPrint, Said, Seen
      <3>2. ~Behind(p, q)' /\ ~Behind(q, p)'
        BY <1>5, <2>1, <3>1 DEF Behind
      <3>3. QED
        BY <1>2, <1>15, <2>1, <3>1, <3>2 DEF LPrint, LPart, LFollows
    <2>7. LTokens(p, q)' /\ LTokens(q, p)'
      <3>1. lSem'[p] = lSem[p] /\ lSem'[q] = lSem[q]
        BY <1>1, <1>4, <1>15 DEF LPrint
      <3>2. Handshake(p, q)' = Handshake(p, q) /\ Handshake(q, p)' = Handshake(q, p)
        BY <1>1, <1>2, <1>4, <1>15, <2>1 DEF LPrint, LPart, Meets, Handshake, Connected
      <3>3. Received(p)' = Received(p) - 1 /\ Received(q)' = Received(q)
        BY <1>1, <1>4, <1>6, <1>15 DEF LPrint, Received
      <3>4. Unposted(p)' = Unposted(p) /\ Unposted(q)' = Unposted(q)
        BY <1>1, <1>4, <1>15 DEF LPrint, Unposted
      <3>5. /\ Said(p)' = Said(p) /\ Said(q)' = Said(q)
            /\ Seen(p)' = Seen(p) + 1 /\ Seen(q)' = Seen(q)
        BY <1>1, <1>4, <1>15, <2>1 DEF LPrint, Said, Seen, chatVars
      <3>6. LTokens(p, q) /\ LTokens(q, p)
        BY <1>2 DEF LPart
      <3>7. QED
        BY <1>5, <3>1, <3>2, <3>3, <3>4, <3>5, <3>6 DEF LTokens
    <2>8. QED
      BY <2>3, <2>4, <2>5, <2>6, <2>7 DEF LPart
  <1>16. CASE LInterrupt(p)
    <2>1. /\ lSem[p] = 0 /\ lSem[q] = 0 /\ ~Behind(p, q) /\ ~Behind(q, p)
          /\ lReceiver[q] # "print" /\ lMain[q] \in {"off", "idle"}
      BY <1>1, <1>16 DEF LInterrupt, Quiet, Unseen, Behind, Said, Seen
    <2>2. /\ lMain'[p] = "off" /\ lMain'[q] = lMain[q]
          /\ lReceiver'[p] = "none" /\ lReceiver'[q] = lReceiver[q]
          /\ UNCHANGED <<lSem, sent, shown>>
      BY <1>1, <1>4, <1>16 DEF LInterrupt, chatVars
    <2>3. Said(p) = Seen(q) /\ Said(q) = Seen(p)
      BY <1>2, <2>1 DEF LPart, LFollows
    <2>4. /\ UNCHANGED <<Behind(p, q), Behind(q, p)>>
          /\ UNCHANGED <<Said(p), Said(q), Seen(p), Seen(q)>>
      BY <2>2 DEF Behind, Said, Seen
    <2>5. LFollows(p, q)' /\ LFollows(q, p)'
      BY <2>1, <2>2, <2>3, <2>4 DEF LFollows
    <2>6. LTokens(p, q)' /\ LTokens(q, p)'
      <3>1. /\ Handshake(p, q)' = 0 /\ Handshake(q, p)' = 0
            /\ Received(p)' = 0 /\ Received(q)' = 0 /\ Unposted(p)' = 0 /\ Unposted(q)' = 0
        BY <2>1, <2>2 DEF Handshake, Received, Unposted, Connected
      <3>2. QED
        BY <1>5, <2>1, <2>2, <2>3, <2>4, <3>1 DEF LTokens
    <2>7. QED
      BY <2>1, <2>2, <2>5, <2>6 DEF LPart, Receives, Meets, Shares, Connected
  <1>17. CASE LInitialize(p)
    <2>1. /\ lMain[p] = "off" /\ lReceiver[p] = "none"
          /\ lMain[q] \in {"off", "hello", "wait"} /\ lReceiver[q] = "none"
      BY <1>1, <1>4, <1>6, <1>17 DEF LInitialize, Connected
    <2>2. /\ lMain'[p] = "hello" /\ lMain'[q] = lMain[q]
          /\ lAttached'[p] = lSegment' /\ lAttached'[q] = lAttached[q]
          /\ UNCHANGED <<lReceiver, lSem>>
      BY <1>1, <1>4, <1>17 DEF LInitialize
    <2>3. Said(p) = Seen(q) /\ Said(q) = Seen(p)
      BY <1>2, <2>1 DEF LPart, LFollows, Connected
    <2>4. Said(p)' = Seen(q)' /\ Said(q)' = Seen(p)'
      BY <1>17, <2>3 DEF LInitialize, Again, Nothing, Said, Seen, chatVars
    <2>5. Said(p)' \in Nat /\ Said(q)' \in Nat
      BY DEF LChat, Said
    <2>6. Shares(p, q)' /\ Shares(q, p)'
      <3>1. lSegment' # 0
        BY <2>2 DEF Attaches
      <3>2. lMain[q] # "off" => lAttached[q] = lSegment /\ lSegment' = lSegment
        BY <1>2, <1>17, <2>1 DEF LInitialize, LPart, Shares, Connected
      <3>3. QED
        BY <2>2, <3>1, <3>2 DEF Shares, Connected
    <2>7. LFollows(p, q)' /\ LFollows(q, p)'
      <3>1. ~Behind(p, q)' /\ ~Behind(q, p)'
        BY <2>4, <2>5 DEF Behind
      <3>2. QED
        BY <2>1, <2>2, <2>4, <3>1 DEF LFollows
    <2>8. LTokens(p, q)' /\ LTokens(q, p)'
      <3>1. UNCHANGED <<Handshake(p, q), Handshake(q, p)>>
        BY <2>1, <2>2 DEF Handshake, Connected
      <3>2. /\ Received(p) = 0 /\ Received(q) = 0 /\ Unposted(p) = 0 /\ Unposted(q) = 0
            /\ Received(p)' = 0 /\ Received(q)' = 0 /\ Unposted(p)' = 0 /\ Unposted(q)' = 0
        BY <2>1, <2>2 DEF Received, Unposted
      <3>3. lSem[p] = Handshake(p, q) /\ lSem[q] = Handshake(q, p)
        BY <1>2, <1>5, <2>3, <3>2 DEF LPart, LTokens
      <3>4. QED
        BY <1>5, <2>2, <2>4, <2>5, <3>1, <3>2, <3>3 DEF LTokens
    <2>9. QED
      BY <2>1, <2>2, <2>6, <2>7, <2>8 DEF LPart, Receives, Meets, Connected
  <1>18. QED
    BY <1>7, <1>8, <1>9, <1>10, <1>11, <1>12, <1>13, <1>14, <1>15, <1>16, <1>17
       DEF LUser, LRuns, LReceives

(* Every step on Linux keeps the invariant of that half.                   *)
LEMMA LInvStep ==
  ASSUME LInv, LNext \/ UNCHANGED <<lVars, chatVars>>
  PROVE  LInv'
  <1>1. CASE LNext
    BY <1>1, LTypes, LPartStep DEF LInv
  <1>2. CASE UNCHANGED <<lVars, chatVars>>
    <2>1. LTypeOK' /\ LChat' /\ Attaches'
      BY <1>2 DEF LInv, LTypeOK, LChat, Attaches, lVars, chatVars
    <2>2. ASSUME NEW r \in Party, NEW o, LPart(r, o) PROVE LPart(r, o)'
      BY <1>2, <2>2 DEF lVars, chatVars, LPart, Receives, Meets, Shares, LFollows, LTokens,
                        Handshake, Behind, Connected, Said, Seen, Received, Unposted
    <2>3. lHist' = lHist
      BY <1>2 DEF lVars
    <2>4. QED
      BY <2>1, <2>2, <2>3 DEF LInv
  <1>3. QED
    BY <1>1, <1>2

(* The invariant of the Linux half holds at the start.                     *)
LEMMA LInvInit ==
  ASSUME LInit, CInit
  PROVE  LInv
  <1>1. LTypeOK /\ LChat /\ Attaches
    BY ChatBound DEF LInit, CInit, Nothing, LTypeOK, LChat, Attaches
  <1>2. ASSUME NEW r \in Party PROVE LPart(r, Other(r))
    <2>1. Other(r) \in Party
      BY OtherParty
    <2>2. QED
      BY <2>1 DEF LInit, CInit, Nothing, LPart, Receives, Meets, Shares, LFollows, LTokens,
                  Handshake, Behind, Connected, Said, Seen, Received, Unposted
  <1>3. QED
    BY <1>1, <1>2 DEF LInv

(* Tokens are messages once both parties are connected.                    *)
LEMMA LInvTokens ==
  ASSUME LInv
  PROVE  TokensAreMessages
  <1> SUFFICES ASSUME lHist = {}, NEW p \in Party
               PROVE  /\ lMain[p] \notin {"off", "hello"} /\ lMain[Other(p)] \notin {"off", "hello"}
                           => lAttached[p] = lAttached[Other(p)]
                      /\ Connected(p) /\ Connected(Other(p)) =>
                           lSem[p] + (IF lReceiver[p] = "print" THEN 1 ELSE 0)
                             = Len(sent[Other(p)]) - Len(shown[p])
                                 - (IF lMain[Other(p)] \in {"copy", "post"} THEN 1 ELSE 0)
    BY DEF TokensAreMessages
  <1>0. PICK q \in Party : q = Other(p) /\ p = Other(q)
    BY OtherParty
  <1>2. LPart(p, q) /\ LPart(q, p) /\ lSem[p] \in Nat
    BY <1>0 DEF LInv, LTypeOK
  <1>3. Said(q) \in Nat /\ Seen(p) \in Nat
    BY Lengths DEF LInv
  <1>4. Connected(p) /\ Connected(q) => Handshake(p, q) = 0
    BY DEF Handshake, Connected
  <1>5. lMain[p] \notin {"off", "hello"} /\ lMain[q] \notin {"off", "hello"}
          => lAttached[p] = lAttached[q]
    BY <1>2 DEF LPart, Shares
  <1>6. Connected(p) /\ Connected(q) =>
          lSem[p] + Received(p) = Said(q) - Seen(p) - Unposted(q)
    <2>1. Received(p) \in {0, 1} /\ Unposted(q) \in {0, 1}
      BY DEF Received, Unposted
    <2>2. QED
      BY <1>2, <1>3, <1>4, <2>1 DEF LPart, LTokens
  <1>7. QED
    BY <1>0, <1>5, <1>6 DEF Said, Seen, Received, Unposted

(* A step of the Linux half is one of the chat, or is not seen by it.      *)
LEMMA LImplements ==
  ASSUME LInv, LNext
  PROVE  CNext \/ UNCHANGED chatVars
  <1> SUFFICES ASSUME NEW p \in Party, LUser(p) \/ LRuns(p) \/ LReceives(p)
               PROVE  CNext \/ UNCHANGED chatVars
    BY DEF LNext
  <1>1. CASE LInitialize(p)
    BY <1>1 DEF LInitialize, CNext
  <1>2. CASE LCopy(p)
    BY <1>2 DEF LCopy, CNext, Type
  <1>3. CASE LPrint(p)
    <2>1. LPart(p, Other(p)) /\ Other(p) \in Party
      BY OtherParty DEF LInv, LNext
    <2>2. Show(p)
      BY <1>3, <2>1, PrintsNext DEF LPrint, Show, Unseen, Behind, Said, Seen
    <2>3. QED
      BY <2>2 DEF CNext
  <1>4. CASE LRelease(p) \/ LTake(p) \/ LFork(p) \/ LForkFails(p)
    BY <1>4 DEF LRelease, LTake, LFork, LForkFails
  <1>5. CASE LCopied(p) \/ LPost(p) \/ LReceive(p) \/ LInterrupt(p)
    BY <1>5 DEF LCopied, LPost, LReceive, LInterrupt
  <1>6. QED
    BY <1>1, <1>2, <1>3, <1>4, <1>5 DEF LUser, LRuns, LReceives

-----------------------------------------------------------------------------
(***************************************************************************)
(* Proofs about the messenger of lab3 on Windows, for any messages and any *)
(* number of them and any number of starts.  While nothing happens that    *)
(* the code is not made for, the semaphores have the tokens of the         *)
(* handshake until both parties talk (WGreets), a message is in exactly    *)
(* one place until it is answered (WAnswers), and what was sent is what    *)
(* was shown and what is in the pipe (WPipes).                             *)
(***************************************************************************)

(* Nobody talks before the other party has its listener, and who talks     *)
(* with somebody that is gone waits for its user.                          *)
WMeets(r, o) ==
  /\ wMain[r] = "off" => wMain[o] \in {"off", "hello", "wait", "idle"}
  /\ wMain[r] = "hello" => wMain[o] \in {"off", "hello", "wait"}
  /\ wMain[r] \in {"wait", "event", "spawn"} => wMain[o] \notin Talking
  /\ wMain[r] \in {"event", "spawn", "connect"} => wMain[o] \notin {"off", "hello"}

(* A listener that reads has found the event of the other party.           *)
WHears(r, o) ==
  /\ wListener[r] \in {"open", "wait", "read", "accept"} => r \in wOpened
  /\ r \in wOpened => wMain[r] # "off"
  /\ wMain[r] \in Talking => wMain[o] = "off" \/ wListener[o] \in {"wait", "read", "accept"}

(* No conversation begins with the event of the one before.                *)
WEvents(r, o) ==
  /\ wMain[r] \in {"hello", "wait", "event"} => wEvent[r] = "none"
  /\ wMain[r] = "off" /\ wMain[o] # "idle" => wEvent[r] = "none"

(* Until a party talks, the semaphore of the other one has the token of    *)
(* the handshake and no other.                                             *)
WGreets(r, o) ==
  wMain[o] \notin Talking =>
    (wSem[r] = 1 <=> /\ wMain[r] \in {"off", "hello", "wait"}
                     /\ wMain[o] \in {"wait", "event", "spawn", "connect"})

(* The message of r is with o, as the token, the listener or the event     *)
(* says, while r awaits the answer.                                        *)
WAnswers(r, o) ==
  /\ wMain[r] \in {"idle", "release", "reset"} => wSem[o] = 0
  /\ wMain[r] # "await" => wListener[o] \notin {"read", "accept"}
  /\ wMain[r] \notin {"off", "await", "reset"} => wEvent[r] # "set"
  /\ wMain[r] = "reset" => wEvent[r] = "set"
  /\ wMain[r] = "await" => \/ wSem[o] = 1 /\ wListener[o] \notin {"read", "accept"} /\ wEvent[r] # "set"
                           \/ wSem[o] = 0 /\ wListener[o] \in {"read", "accept"} /\ wEvent[r] # "set"
                           \/ wSem[o] = 0 /\ wListener[o] \notin {"read", "accept"} /\ wEvent[r] = "set"

(* A pipe holds the message until it is read, and what was sent is what    *)
(* was shown and what is in the pipe.                                      *)
Filled(r, o) ==
  \/ wMain[r] = "release"
  \/ wMain[r] = "await" /\ (wSem[o] = 1 \/ wListener[o] = "read")

WPipes(r, o) ==
  /\ IF Filled(r, o) THEN Len(wPipe[r]) = 1 ELSE wPipe[r] = <<>>
  /\ sent[r] = shown[o] \o wPipe[r]

WPart(r, o) ==
  WMeets(r, o) /\ WHears(r, o) /\ WEvents(r, o) /\ WGreets(r, o) /\ WAnswers(r, o) /\ WPipes(r, o)

WChat == sent \in [Party -> Seq(Text)] /\ shown \in [Party -> Seq(Text)]

(* A listener runs while its party does.                                   *)
WTypes ==
  /\ WTypeOK /\ wPipe \in [Party -> Seq(Text)]
  /\ \A p \in Party : wListener[p] # "none" => wMain[p] \in {"connect"} \cup Talking

WInv == /\ WTypes /\ WChat
        /\ wHist = {} => \A r \in Party : WPart(r, Other(r))

(* One of the two parties, p, takes a step that is no hazard; q is the     *)
(* other one.                                                              *)
LEMMA WPartStep ==
  ASSUME WInv, WTypes', WChat', WNext, wHist' = {}
  PROVE  \A r \in Party : WPart(r, Other(r))'
  <1> SUFFICES ASSUME NEW p \in Party, WUser(p) \/ WRuns(p) \/ WListens(p)
               PROVE  \A r \in Party : WPart(r, Other(r))'
    BY DEF WNext
  <1>1. PICK q \in Party : q = Other(p) /\ p = Other(q) /\ q # p /\ Party = {p, q}
    BY OtherParty
  <1>2. WPart(p, q) /\ WPart(q, p)
    BY <1>1 DEF WInv, WNext
  <1>3. SUFFICES WPart(p, q)' /\ WPart(q, p)'
    BY <1>1
  <1>4. /\ wMain \in [Party -> {"off", "hello", "wait", "event", "spawn", "connect"} \cup Talking]
        /\ wListener \in [Party -> {"none", "boot", "open", "wait", "read", "accept"}]
        /\ wSem \in [Party -> 0 .. 1]
        /\ wEvent \in [Party -> {"none", "reset", "set"}]
        /\ wPipe \in [Party -> Seq(Text)] /\ wOpened \subseteq Party
        /\ sent \in [Party -> Seq(Text)]
        /\ shown \in [Party -> Seq(Text)]
    BY DEF WInv, WTypes, WTypeOK, WChat
  <1>5. /\ wListener[p] # "none" => wMain[p] \in {"connect"} \cup Talking
        /\ wListener[q] # "none" => wMain[q] \in {"connect"} \cup Talking
    BY DEF WInv, WTypes
  <1>6. CASE WInitialize(p)
    <2>1. WMeets(p, q)' /\ WMeets(q, p)'
      BY <1>1, <1>2, <1>4, <1>5, <1>6 DEF WInitialize, WPart, WMeets, WHears, WGreets, Talking
    <2>2. WHears(p, q)' /\ WHears(q, p)'
      BY <1>1, <1>2, <1>4, <1>5, <1>6 DEF WInitialize, WPart, WMeets, WHears, Talking
    <2>3. WEvents(p, q)' /\ WEvents(q, p)'
      BY <1>1, <1>2, <1>4, <1>5, <1>6 DEF WInitialize, WPart, WMeets, WHears, WEvents, WAnswers, Talking
    <2>4. WGreets(p, q)' /\ WGreets(q, p)'
      BY <1>1, <1>2, <1>4, <1>5, <1>6 DEF WInitialize, WPart, WMeets, WGreets, Talking, Released
    <2>5. WAnswers(p, q)' /\ WAnswers(q, p)'
      BY <1>1, <1>2, <1>4, <1>5, <1>6 DEF WInitialize, WPart, WMeets, WHears, WGreets, WAnswers, WEvents, Talking, Released
    <2>6. WPipes(p, q)' /\ WPipes(q, p)'
      <3>1. ~Filled(p, q) /\ ~Filled(q, p) /\ ~Filled(p, q)' /\ ~Filled(q, p)'
        BY <1>1, <1>4, <1>6 DEF WInitialize, Filled, Talking
      <3>2. wPipe[p] = <<>> /\ wPipe[q] = <<>> /\ wPipe' = wPipe
        BY <1>2, <1>6, <3>1 DEF WInitialize, WPart, WPipes
      <3>3. CASE Again
        BY <3>1, <3>2, <3>3 DEF WPipes, Again, Nothing
      <3>4. CASE UNCHANGED chatVars
        BY <1>2, <3>1, <3>2, <3>4 DEF WPart, WPipes, chatVars
      <3>5. QED
        BY <1>6, <3>3, <3>4 DEF WInitialize
    <2>7. QED
      BY <2>1, <2>2, <2>3, <2>4, <2>5, <2>6 DEF WPart
  <1>7. CASE WRelease(p)
    <2>1. WMeets(p, q)' /\ WMeets(q, p)'
      BY <1>1, <1>2, <1>4, <1>5, <1>7 DEF WRelease, WPart, WMeets, WHears, WGreets, Talking
    <2>2. WHears(p, q)' /\ WHears(q, p)'
      BY <1>1, <1>2, <1>4, <1>5, <1>7 DEF WRelease, WPart, WMeets, WHears, Talking
    <2>3. WEvents(p, q)' /\ WEvents(q, p)'
      BY <1>1, <1>2, <1>4, <1>5, <1>7 DEF WRelease, WPart, WMeets, WHears, WEvents, WAnswers, Talking
    <2>4. WGreets(p, q)' /\ WGreets(q, p)'
      BY <1>1, <1>2, <1>4, <1>5, <1>7 DEF WRelease, WPart, WMeets, WGreets, Talking, Released
    <2>5. WAnswers(p, q)' /\ WAnswers(q, p)'
      BY <1>1, <1>2, <1>4, <1>5, <1>7 DEF WRelease, WPart, WMeets, WHears, WGreets, WAnswers, WEvents, Talking, Released
    <2>6. WPipes(p, q)' /\ WPipes(q, p)'
      BY <1>1, <1>2, <1>4, <1>5, <1>7 DEF WRelease, WPart, WMeets, WGreets, WAnswers, WPipes, Filled, Talking, Released, chatVars
    <2>7. QED
      BY <2>1, <2>2, <2>3, <2>4, <2>5, <2>6 DEF WPart
  <1>8. CASE WTake(p)
    <2>1. WMeets(p, q)' /\ WMeets(q, p)'
      BY <1>1, <1>2, <1>4, <1>5, <1>8 DEF WTake, WPart, WMeets, WHears, WGreets, Talking
    <2>2. WHears(p, q)' /\ WHears(q, p)'
      BY <1>1, <1>2, <1>4, <1>5, <1>8 DEF WTake, WPart, WMeets, WHears, Talking
    <2>3. WEvents(p, q)' /\ WEvents(q, p)'
      BY <1>1, <1>2, <1>4, <1>5, <1>8 DEF WTake, WPart, WMeets, WHears, WEvents, WAnswers, Talking
    <2>4. WGreets(p, q)' /\ WGreets(q, p)'
      BY <1>1, <1>2, <1>4, <1>5, <1>8 DEF WTake, WPart, WMeets, WGreets, Talking, Released
    <2>5. WAnswers(p, q)' /\ WAnswers(q, p)'
      BY <1>1, <1>2, <1>4, <1>5, <1>8 DEF WTake, WPart, WMeets, WHears, WGreets, WAnswers, WEvents, Talking, Released
    <2>6. WPipes(p, q)' /\ WPipes(q, p)'
      BY <1>1, <1>2, <1>4, <1>5, <1>8 DEF WTake, WPart, WMeets, WGreets, WAnswers, WPipes, Filled, Talking, Released, chatVars
    <2>7. QED
      BY <2>1, <2>2, <2>3, <2>4, <2>5, <2>6 DEF WPart
  <1>9. CASE WCreateEvent(p)
    <2>1. WMeets(p, q)' /\ WMeets(q, p)'
      BY <1>1, <1>2, <1>4, <1>5, <1>9 DEF WCreateEvent, WPart, WMeets, WHears, WGreets, Talking
    <2>2. WHears(p, q)' /\ WHears(q, p)'
      BY <1>1, <1>2, <1>4, <1>5, <1>9 DEF WCreateEvent, WPart, WMeets, WHears, Talking
    <2>3. WEvents(p, q)' /\ WEvents(q, p)'
      BY <1>1, <1>2, <1>4, <1>5, <1>9 DEF WCreateEvent, WPart, WMeets, WHears, WEvents, WAnswers, Talking
    <2>4. WGreets(p, q)' /\ WGreets(q, p)'
      BY <1>1, <1>2, <1>4, <1>5, <1>9 DEF WCreateEvent, WPart, WMeets, WGreets, Talking, Released
    <2>5. WAnswers(p, q)' /\ WAnswers(q, p)'
      BY <1>1, <1>2, <1>4, <1>5, <1>9 DEF WCreateEvent, WPart, WMeets, WHears, WGreets, WAnswers, WEvents, Talking, Released
    <2>6. WPipes(p, q)' /\ WPipes(q, p)'
      BY <1>1, <1>2, <1>4, <1>5, <1>9 DEF WCreateEvent, WPart, WMeets, WGreets, WAnswers, WPipes, Filled, Talking, Released, chatVars
    <2>7. QED
      BY <2>1, <2>2, <2>3, <2>4, <2>5, <2>6 DEF WPart
  <1>10. CASE WSpawn(p)
    <2>1. WMeets(p, q)' /\ WMeets(q, p)'
      BY <1>1, <1>2, <1>4, <1>5, <1>10 DEF WSpawn, WPart, WMeets, WHears, WGreets, Talking
    <2>2. WHears(p, q)' /\ WHears(q, p)'
      BY <1>1, <1>2, <1>4, <1>5, <1>10 DEF WSpawn, WPart, WMeets, WHears, Talking
    <2>3. WEvents(p, q)' /\ WEvents(q, p)'
      BY <1>1, <1>2, <1>4, <1>5, <1>10 DEF WSpawn, WPart, WMeets, WHears, WEvents, WAnswers, Talking
    <2>4. WGreets(p, q)' /\ WGreets(q, p)'
      BY <1>1, <1>2, <1>4, <1>5, <1>10 DEF WSpawn, WPart, WMeets, WGreets, Talking, Released
    <2>5. WAnswers(p, q)' /\ WAnswers(q, p)'
      BY <1>1, <1>2, <1>4, <1>5, <1>10 DEF WSpawn, WPart, WMeets, WHears, WGreets, WAnswers, WEvents, Talking, Released
    <2>6. WPipes(p, q)' /\ WPipes(q, p)'
      BY <1>1, <1>2, <1>4, <1>5, <1>10 DEF WSpawn, WPart, WMeets, WGreets, WAnswers, WPipes, Filled, Talking, Released, chatVars
    <2>7. QED
      BY <2>1, <2>2, <2>3, <2>4, <2>5, <2>6 DEF WPart
  <1>11. CASE WConnect(p)
    <2>1. WMeets(p, q)' /\ WMeets(q, p)'
      BY <1>1, <1>2, <1>4, <1>5, <1>11 DEF WConnect, WPart, WMeets, WHears, WGreets, Talking
    <2>2. WHears(p, q)' /\ WHears(q, p)'
      BY <1>1, <1>2, <1>4, <1>5, <1>11 DEF WConnect, WPart, WMeets, WHears, Talking
    <2>3. WEvents(p, q)' /\ WEvents(q, p)'
      BY <1>1, <1>2, <1>4, <1>5, <1>11 DEF WConnect, WPart, WMeets, WHears, WEvents, WAnswers, Talking
    <2>4. WGreets(p, q)' /\ WGreets(q, p)'
      BY <1>1, <1>2, <1>4, <1>5, <1>11 DEF WConnect, WPart, WMeets, WGreets, Talking, Released
    <2>5. WAnswers(p, q)' /\ WAnswers(q, p)'
      BY <1>1, <1>2, <1>4, <1>5, <1>11 DEF WConnect, WPart, WMeets, WHears, WGreets, WAnswers, WEvents, Talking, Released
    <2>6. WPipes(p, q)' /\ WPipes(q, p)'
      BY <1>1, <1>2, <1>4, <1>5, <1>11 DEF WConnect, WPart, WMeets, WGreets, WAnswers, WPipes, Filled, Talking, Released, chatVars
    <2>7. QED
      BY <2>1, <2>2, <2>3, <2>4, <2>5, <2>6 DEF WPart
  <1>12. CASE WWrite(p)
    <2>1. WMeets(p, q)' /\ WMeets(q, p)'
      BY <1>1, <1>2, <1>4, <1>5, <1>12 DEF WWrite, WPart, WMeets, WHears, WGreets, Talking
    <2>2. WHears(p, q)' /\ WHears(q, p)'
      BY <1>1, <1>2, <1>4, <1>5, <1>12 DEF WWrite, WPart, WMeets, WHears, Talking
    <2>3. WEvents(p, q)' /\ WEvents(q, p)'
      BY <1>1, <1>2, <1>4, <1>5, <1>12 DEF WWrite, WPart, WMeets, WHears, WEvents, WAnswers, Talking
    <2>4. WGreets(p, q)' /\ WGreets(q, p)'
      BY <1>1, <1>2, <1>4, <1>5, <1>12 DEF WWrite, WPart, WMeets, WGreets, Talking, Released
    <2>5. WAnswers(p, q)' /\ WAnswers(q, p)'
      BY <1>1, <1>2, <1>4, <1>5, <1>12 DEF WWrite, WPart, WMeets, WHears, WGreets, WAnswers, WEvents, Talking, Released
    <2>6. WPipes(p, q)' /\ WPipes(q, p)'
      <3>1. PICK m \in Text : /\ wPipe' = [wPipe EXCEPT ![p] = Append(@, m)]
                              /\ sent' = [sent EXCEPT ![p] = Append(@, m)]
        BY <1>12 DEF WWrite
      <3>0. /\ wMain[p] = "idle" /\ wMain'[p] = "release" /\ wMain'[q] = wMain[q]
            /\ wSem' = wSem /\ wListener' = wListener /\ shown' = shown
        BY <1>1, <1>4, <1>12 DEF WWrite
      <3>2. ~Filled(p, q) /\ Filled(p, q)' /\ UNCHANGED Filled(q, p)
        BY <3>0 DEF Filled
      <3>3. wPipe[p] = <<>> /\ wPipe'[p] = <<m>> /\ wPipe'[q] = wPipe[q] /\ sent'[q] = sent[q]
        BY <1>1, <1>2, <1>4, <3>1, <3>2 DEF WPart, WPipes
      <3>4. sent'[p] = Append(sent[p], m) /\ sent[p] = shown[q] \o <<>>
        BY <1>2, <1>4, <3>1, <3>3 DEF WPart, WPipes
      <3>5. sent'[p] = shown[q] \o <<m>>
        BY <1>4, <3>4
      <3>6. WPipes(p, q)'
        BY <3>0, <3>2, <3>3, <3>5 DEF WPipes
      <3>7. WPipes(q, p)'
        BY <1>2, <3>0, <3>2, <3>3 DEF WPart, WPipes
      <3>8. QED
        BY <3>6, <3>7
    <2>7. QED
      BY <2>1, <2>2, <2>3, <2>4, <2>5, <2>6 DEF WPart
  <1>13. CASE WPost(p)
    <2>1. WMeets(p, q)' /\ WMeets(q, p)'
      BY <1>1, <1>2, <1>4, <1>5, <1>13 DEF WPost, WPart, WMeets, WHears, WGreets, Talking
    <2>2. WHears(p, q)' /\ WHears(q, p)'
      BY <1>1, <1>2, <1>4, <1>5, <1>13 DEF WPost, WPart, WMeets, WHears, Talking
    <2>3. WEvents(p, q)' /\ WEvents(q, p)'
      BY <1>1, <1>2, <1>4, <1>5, <1>13 DEF WPost, WPart, WMeets, WHears, WEvents, WAnswers, Talking
    <2>4. WGreets(p, q)' /\ WGreets(q, p)'
      BY <1>1, <1>2, <1>4, <1>5, <1>13 DEF WPost, WPart, WMeets, WGreets, Talking, Released
    <2>5. WAnswers(p, q)' /\ WAnswers(q, p)'
      BY <1>1, <1>2, <1>4, <1>5, <1>13 DEF WPost, WPart, WMeets, WHears, WGreets, WAnswers, WEvents, Talking, Released
    <2>6. WPipes(p, q)' /\ WPipes(q, p)'
      <3>0. /\ wMain'[q] = wMain[q] /\ wSem'[p] = wSem[p] /\ wSem'[q] = 1
            /\ wMain[p] = "release" /\ wMain'[p] = "await" /\ wListener' = wListener
        BY <1>1, <1>4, <1>13 DEF WPost, Released
      <3>1. Filled(p, q) /\ Filled(p, q)'
        BY <3>0 DEF Filled
      <3>3. UNCHANGED Filled(q, p)
        BY <3>0 DEF Filled
      <3>2. QED
        BY <1>2, <1>13, <3>1, <3>3 DEF WPost, WPart, WPipes, chatVars
    <2>7. QED
      BY <2>1, <2>2, <2>3, <2>4, <2>5, <2>6 DEF WPart
  <1>14. CASE WAccepted(p)
    <2>1. WMeets(p, q)' /\ WMeets(q, p)'
      BY <1>1, <1>2, <1>4, <1>5, <1>14 DEF WAccepted, WPart, WMeets, WHears, WGreets, Talking
    <2>2. WHears(p, q)' /\ WHears(q, p)'
      BY <1>1, <1>2, <1>4, <1>5, <1>14 DEF WAccepted, WPart, WMeets, WHears, Talking
    <2>3. WEvents(p, q)' /\ WEvents(q, p)'
      BY <1>1, <1>2, <1>4, <1>5, <1>14 DEF WAccepted, WPart, WMeets, WHears, WEvents, WAnswers, Talking
    <2>4. WGreets(p, q)' /\ WGreets(q, p)'
      BY <1>1, <1>2, <1>4, <1>5, <1>14 DEF WAccepted, WPart, WMeets, WGreets, Talking, Released
    <2>5. WAnswers(p, q)' /\ WAnswers(q, p)'
      BY <1>1, <1>2, <1>4, <1>5, <1>14 DEF WAccepted, WPart, WMeets, WHears, WGreets, WAnswers, WEvents, Talking, Released
    <2>6. WPipes(p, q)' /\ WPipes(q, p)'
      <3>1. Filled(p, q)' = Filled(p, q) /\ Filled(q, p)' = Filled(q, p)
        BY <1>1, <1>2, <1>4, <1>14 DEF WAccepted, Filled, Released, WPart, WAnswers, WGreets, Talking
      <3>2. QED
        BY <1>2, <1>14, <3>1 DEF WAccepted, WPart, WPipes, chatVars
    <2>7. QED
      BY <2>1, <2>2, <2>3, <2>4, <2>5, <2>6 DEF WPart
  <1>15. CASE WReset(p)
    <2>1. WMeets(p, q)' /\ WMeets(q, p)'
      BY <1>1, <1>2, <1>4, <1>5, <1>15 DEF WReset, WPart, WMeets, WHears, WGreets, Talking
    <2>2. WHears(p, q)' /\ WHears(q, p)'
      BY <1>1, <1>2, <1>4, <1>5, <1>15 DEF WReset, WPart, WMeets, WHears, Talking
    <2>3. WEvents(p, q)' /\ WEvents(q, p)'
      BY <1>1, <1>2, <1>4, <1>5, <1>15 DEF WReset, WPart, WMeets, WHears, WEvents, WAnswers, Talking
    <2>4. WGreets(p, q)' /\ WGreets(q, p)'
      BY <1>1, <1>2, <1>4, <1>5, <1>15 DEF WReset, WPart, WMeets, WGreets, Talking, Released
    <2>5. WAnswers(p, q)' /\ WAnswers(q, p)'
      BY <1>1, <1>2, <1>4, <1>5, <1>15 DEF WReset, WPart, WMeets, WHears, WGreets, WAnswers, WEvents, Talking, Released
    <2>6. WPipes(p, q)' /\ WPipes(q, p)'
      BY <1>1, <1>2, <1>4, <1>5, <1>15 DEF WReset, WPart, WMeets, WGreets, WAnswers, WPipes, Filled, Talking, Released, chatVars
    <2>7. QED
      BY <2>1, <2>2, <2>3, <2>4, <2>5, <2>6 DEF WPart
  <1>16. CASE WOpenEvent(p)
    <2>1. WMeets(p, q)' /\ WMeets(q, p)'
      BY <1>1, <1>2, <1>4, <1>5, <1>16 DEF WOpenEvent, WPart, WMeets, WHears, WGreets, Talking
    <2>2. WHears(p, q)' /\ WHears(q, p)'
      BY <1>1, <1>2, <1>4, <1>5, <1>16 DEF WOpenEvent, WPart, WMeets, WHears, Talking
    <2>3. WEvents(p, q)' /\ WEvents(q, p)'
      BY <1>1, <1>2, <1>4, <1>5, <1>16 DEF WOpenEvent, WPart, WMeets, WHears, WEvents, WAnswers, Talking
    <2>4. WGreets(p, q)' /\ WGreets(q, p)'
      BY <1>1, <1>2, <1>4, <1>5, <1>16 DEF WOpenEvent, WPart, WMeets, WGreets, Talking, Released
    <2>5. WAnswers(p, q)' /\ WAnswers(q, p)'
      BY <1>1, <1>2, <1>4, <1>5, <1>16 DEF WOpenEvent, WPart, WMeets, WHears, WGreets, WAnswers, WEvents, Talking, Released
    <2>6. WPipes(p, q)' /\ WPipes(q, p)'
      BY <1>1, <1>2, <1>4, <1>5, <1>16 DEF WOpenEvent, WPart, WMeets, WGreets, WAnswers, WPipes, Filled, Talking, Released, chatVars
    <2>7. QED
      BY <2>1, <2>2, <2>3, <2>4, <2>5, <2>6 DEF WPart
  <1>17. CASE WOpenPipe(p)
    <2>1. WMeets(p, q)' /\ WMeets(q, p)'
      BY <1>1, <1>2, <1>4, <1>5, <1>17 DEF WOpenPipe, WPart, WMeets, WHears, WGreets, Talking
    <2>2. WHears(p, q)' /\ WHears(q, p)'
      BY <1>1, <1>2, <1>4, <1>5, <1>17 DEF WOpenPipe, WPart, WMeets, WHears, Talking
    <2>3. WEvents(p, q)' /\ WEvents(q, p)'
      BY <1>1, <1>2, <1>4, <1>5, <1>17 DEF WOpenPipe, WPart, WMeets, WHears, WEvents, WAnswers, Talking
    <2>4. WGreets(p, q)' /\ WGreets(q, p)'
      BY <1>1, <1>2, <1>4, <1>5, <1>17 DEF WOpenPipe, WPart, WMeets, WGreets, Talking, Released
    <2>5. WAnswers(p, q)' /\ WAnswers(q, p)'
      BY <1>1, <1>2, <1>4, <1>5, <1>17 DEF WOpenPipe, WPart, WMeets, WHears, WGreets, WAnswers, WEvents, Talking, Released
    <2>6. WPipes(p, q)' /\ WPipes(q, p)'
      BY <1>1, <1>2, <1>4, <1>5, <1>17 DEF WOpenPipe, WPart, WMeets, WGreets, WAnswers, WPipes, Filled, Talking, Released, chatVars
    <2>7. QED
      BY <2>1, <2>2, <2>3, <2>4, <2>5, <2>6 DEF WPart
  <1>18. CASE WListen(p)
    <2>1. WMeets(p, q)' /\ WMeets(q, p)'
      BY <1>1, <1>2, <1>4, <1>5, <1>18 DEF WListen, WPart, WMeets, WHears, WGreets, Talking
    <2>2. WHears(p, q)' /\ WHears(q, p)'
      BY <1>1, <1>2, <1>4, <1>5, <1>18 DEF WListen, WPart, WMeets, WHears, Talking
    <2>3. WEvents(p, q)' /\ WEvents(q, p)'
      BY <1>1, <1>2, <1>4, <1>5, <1>18 DEF WListen, WPart, WMeets, WHears, WEvents, WAnswers, Talking
    <2>4. WGreets(p, q)' /\ WGreets(q, p)'
      BY <1>1, <1>2, <1>4, <1>5, <1>18 DEF WListen, WPart, WMeets, WGreets, Talking, Released
    <2>5. WAnswers(p, q)' /\ WAnswers(q, p)'
      BY <1>1, <1>2, <1>4, <1>5, <1>18 DEF WListen, WPart, WMeets, WHears, WGreets, WAnswers, WEvents, Talking, Released
    <2>6. WPipes(p, q)' /\ WPipes(q, p)'
      BY <1>1, <1>2, <1>4, <1>5, <1>18 DEF WListen, WPart, WMeets, WGreets, WAnswers, WPipes, Filled, Talking, Released, chatVars
    <2>7. QED
      BY <2>1, <2>2, <2>3, <2>4, <2>5, <2>6 DEF WPart
  <1>19. CASE WRead(p)
    <2>1. WMeets(p, q)' /\ WMeets(q, p)'
      BY <1>1, <1>2, <1>4, <1>5, <1>19 DEF WRead, WPart, WMeets, WHears, WGreets, Talking
    <2>2. WHears(p, q)' /\ WHears(q, p)'
      BY <1>1, <1>2, <1>4, <1>5, <1>19 DEF WRead, WPart, WMeets, WHears, Talking
    <2>3. WEvents(p, q)' /\ WEvents(q, p)'
      BY <1>1, <1>2, <1>4, <1>5, <1>19 DEF WRead, WPart, WMeets, WHears, WEvents, WAnswers, Talking
    <2>4. WGreets(p, q)' /\ WGreets(q, p)'
      BY <1>1, <1>2, <1>4, <1>5, <1>19 DEF WRead, WPart, WMeets, WGreets, Talking, Released
    <2>5. WAnswers(p, q)' /\ WAnswers(q, p)'
      BY <1>1, <1>2, <1>4, <1>5, <1>19 DEF WRead, WPart, WMeets, WHears, WGreets, WAnswers, WEvents, Talking, Released
    <2>6. WPipes(p, q)' /\ WPipes(q, p)'
      <3>1. /\ wMain[q] = "await" /\ Filled(q, p)
            /\ ~Filled(q, p)' /\ Filled(p, q)' = Filled(p, q)
        BY <1>1, <1>2, <1>4, <1>19 DEF WRead, WPart, WAnswers, Filled
      <3>2. Len(wPipe[q]) = 1 /\ sent[q] = shown[p] \o wPipe[q]
        BY <1>2, <3>1 DEF WPart, WPipes
      <3>3. PICK m \in Text : wPipe[q] = <<m>>
        <4>1. wPipe[q] \in Seq(Text) /\ 1 \in 1 .. Len(wPipe[q])
          BY <1>4, <3>2
        <4>2. wPipe[q][1] \in Text
          BY <4>1
        <4>3. <<wPipe[q][1]>> \in Seq(Text) /\ Len(<<wPipe[q][1]>>) = 1
          BY <4>2
        <4>4. wPipe[q] = <<wPipe[q][1]>>
          BY <3>2, <4>1, <4>3, SeqEqual
        <4>5. QED
          BY <4>2, <4>4
      <3>4. /\ shown' = [shown EXCEPT ![p] = Append(@, Head(wPipe[q]))]
            /\ wPipe' = [wPipe EXCEPT ![q] = Tail(@)] /\ sent' = sent
        BY <1>1, <1>19, <3>3 DEF WRead
      <3>5. /\ shown'[p] = Append(shown[p], m) /\ shown'[q] = shown[q]
            /\ wPipe'[q] = <<>> /\ wPipe'[p] = wPipe[p]
        BY <1>1, <1>4, <3>3, <3>4
      <3>6. sent[q] = Append(shown[p], m) \o <<>>
        BY <1>4, <3>2, <3>3
      <3>7. WPipes(q, p)'
        BY <3>1, <3>4, <3>5, <3>6 DEF WPipes
      <3>8. WPipes(p, q)'
        BY <1>2, <3>1, <3>4, <3>5 DEF WPart, WPipes
      <3>9. QED
        BY <3>7, <3>8
    <2>7. QED
      BY <2>1, <2>2, <2>3, <2>4, <2>5, <2>6 DEF WPart
  <1>20. CASE WAccept(p)
    <2>1. WMeets(p, q)' /\ WMeets(q, p)'
      BY <1>1, <1>2, <1>4, <1>5, <1>20 DEF WAccept, WPart, WMeets, WHears, WGreets, Talking
    <2>2. WHears(p, q)' /\ WHears(q, p)'
      BY <1>1, <1>2, <1>4, <1>5, <1>20 DEF WAccept, WPart, WMeets, WHears, Talking
    <2>3. WEvents(p, q)' /\ WEvents(q, p)'
      BY <1>1, <1>2, <1>4, <1>5, <1>20 DEF WAccept, WPart, WMeets, WHears, WEvents, WAnswers, Talking
    <2>4. WGreets(p, q)' /\ WGreets(q, p)'
      BY <1>1, <1>2, <1>4, <1>5, <1>20 DEF WAccept, WPart, WMeets, WGreets, Talking, Released
    <2>5. WAnswers(p, q)' /\ WAnswers(q, p)'
      BY <1>1, <1>2, <1>4, <1>5, <1>20 DEF WAccept, WPart, WMeets, WHears, WGreets, WAnswers, WEvents, Talking, Released
    <2>6. WPipes(p, q)' /\ WPipes(q, p)'
      BY <1>1, <1>2, <1>4, <1>5, <1>20 DEF WAccept, WPart, WMeets, WGreets, WAnswers, WPipes, Filled, Talking, Released, chatVars
    <2>7. QED
      BY <2>1, <2>2, <2>3, <2>4, <2>5, <2>6 DEF WPart
  <1>21. CASE WInterrupt(p)
    <2>0. /\ wSem[p] = 0 /\ wSem[q] = 0 /\ wPipe[p] = <<>> /\ wPipe[q] = <<>>
          /\ wListener[p] # "accept" /\ wListener[q] # "accept" /\ wMain[q] \in {"off", "idle"}
      BY <1>1, <1>21 DEF WInterrupt, Peace
    <2>10. /\ wMain'[p] = "off" /\ wMain'[q] = wMain[q]
           /\ wListener'[p] = "none" /\ wListener'[q] = wListener[q]
           /\ wSem'[p] = 0 /\ wSem'[q] = 0 /\ wPipe'[p] = <<>> /\ wPipe'[q] = <<>>
           /\ wOpened' = wOpened \ {p} /\ sent' = sent /\ shown' = shown
      BY <1>1, <1>4, <1>21, <2>0 DEF WInterrupt, chatVars
    <2>11. wMain[q] # "off" => wEvent'[q] = wEvent[q]
      BY <1>1, <1>21, <2>10 DEF WInterrupt
    <2>12. ~Filled(p, q) /\ ~Filled(q, p)
      <3>1. Len(<<>>) # 1
        OBVIOUS
      <3>2. QED
        BY <1>2, <2>0, <3>1 DEF WPart, WPipes
    <2>1. WMeets(p, q)' /\ WMeets(q, p)'
      BY <1>1, <1>2, <1>4, <1>5, <1>21 DEF WInterrupt, WPart, WMeets, WHears, WGreets, Talking
    <2>2. WHears(p, q)' /\ WHears(q, p)'
      BY <1>1, <1>2, <1>4, <1>5, <1>21 DEF WInterrupt, WPart, WMeets, WHears, Talking
    <2>3. WEvents(p, q)' /\ WEvents(q, p)'
      BY <1>1, <1>2, <1>4, <1>5, <1>21 DEF WInterrupt, WPart, WMeets, WHears, WEvents, WAnswers, Talking
    <2>4. WGreets(p, q)' /\ WGreets(q, p)'
      BY <2>0, <2>10 DEF WGreets, Talking
    <2>5. WAnswers(p, q)' /\ WAnswers(q, p)'
      <3>1. wListener[q] # "read"
        BY <1>2, <2>0, <2>12 DEF WPart, WAnswers, Filled
      <3>2. WAnswers(p, q)'
        BY <2>0, <2>10, <3>1 DEF WAnswers
      <3>3. WAnswers(q, p)'
        BY <1>2, <2>0, <2>10, <2>11 DEF WAnswers, WPart
      <3>4. QED
        BY <3>2, <3>3
    <2>6. WPipes(p, q)' /\ WPipes(q, p)'
      <3>1. ~Filled(p, q)' /\ ~Filled(q, p)'
        BY <2>0, <2>10 DEF Filled
      <3>2. QED
        BY <1>2, <2>0, <2>10, <3>1 DEF WPart, WPipes
    <2>7. QED
      BY <2>1, <2>2, <2>3, <2>4, <2>5, <2>6 DEF WPart
  <1>22. QED
    BY <1>6, <1>7, <1>8, <1>9, <1>10, <1>11, <1>12, <1>13, <1>14, <1>15, <1>16, <1>17, <1>18, <1>19, <1>20, <1>21
       DEF WUser, WRuns, WListens

(* Every step on Windows keeps the types and the conversation well formed. *)
LEMMA WTypesStep ==
  ASSUME WInv, WNext
  PROVE  WTypes' /\ WChat'
  <1> SUFFICES ASSUME NEW p \in Party, WUser(p) \/ WRuns(p) \/ WListens(p)
               PROVE  WTypes' /\ WChat'
    BY DEF WNext
  <1>0. PICK q \in Party : q = Other(p) /\ p = Other(q) /\ q # p /\ Party = {p, q}
    BY OtherParty
  <1> USE <1>0 DEF chatVars
  <1>1. WTypes /\ WChat /\ WPart(p, q) /\ WPart(q, p)
    BY DEF WInv, WNext
  <1>2. CASE WInitialize(p)
    <2>1. WChat'
      <3>1. Again => WChat'
        BY DEF Again, Nothing, WChat
      <3>2. QED
        BY <1>1, <1>2, <3>1 DEF WInitialize, WChat
    <2>2. QED
      BY <1>1, <1>2, <2>1, ChatBound DEF WInitialize, WTypes, WTypeOK, Talking
  <1>3. CASE WWrite(p)
    <2>1. PICK m \in Text : /\ wPipe' = [wPipe EXCEPT ![p] = Append(@, m)]
                            /\ sent' = [sent EXCEPT ![p] = Append(@, m)]
      BY <1>3 DEF WWrite
    <2>2. wPipe[p] = <<>>
      BY <1>1, <1>3 DEF WWrite, WPart, WPipes, Filled
    <2>3. /\ wPipe'[p] = <<m>> /\ wPipe'[q] = wPipe[q]
          /\ wPipe' \in [Party -> Seq(Text)] /\ sent' \in [Party -> Seq(Text)]
      BY <1>1, <2>1, <2>2 DEF WTypes, WChat
    <2>4. WChat'
      BY <1>1, <1>3, <2>3 DEF WWrite, WChat
    <2>5. \A r \in Party : Len(wPipe'[r]) < 2 /\ \A i \in DOMAIN wPipe'[r] : wPipe'[r][i] \in Text
      <3>1. Len(<<m>>) < 2 /\ \A i \in DOMAIN <<m>> : <<m>>[i] \in Text
        OBVIOUS
      <3>2. QED
        BY <1>1, <2>3, <3>1 DEF WTypes, WTypeOK
    <2>6. wHist' \subseteq {"deaf", "broken"}
      BY <1>1, <1>3 DEF WWrite, WTypes, WTypeOK
    <2>7. /\ wMain' \in [Party -> {"off", "hello", "wait", "event", "spawn", "connect"} \cup Talking]
          /\ \A r \in Party : wListener'[r] # "none" => wMain'[r] \in {"connect"} \cup Talking
      BY <1>1, <1>3 DEF WWrite, WTypes, WTypeOK, Talking
    <2>8. QED
      BY <1>1, <1>3, <2>3, <2>4, <2>5, <2>6, <2>7 DEF WWrite, WTypes, WTypeOK
  <1>4. CASE WRead(p)
    <2>1. wMain[q] = "await" /\ wPipe[q] # <<>>
      BY <1>1, <1>4 DEF WRead, WPart, WAnswers, WPipes, Filled
    <2>2. /\ shown' = [shown EXCEPT ![p] = Append(@, Head(wPipe[q]))]
          /\ wPipe' = [wPipe EXCEPT ![q] = Tail(@)] /\ sent' = sent
      BY <1>4, <2>1 DEF WRead
    <2>3. /\ Head(wPipe[q]) \in Text /\ Tail(wPipe[q]) = <<>>
      <3>1. wPipe[q] \in Seq(Text) /\ Len(wPipe[q]) = 1
        BY <1>1, <1>4, <2>1 DEF WRead, WTypes, WPart, WPipes, Filled
      <3>2. Tail(wPipe[q]) \in Seq(Text) /\ Len(Tail(wPipe[q])) = 0 /\ Head(wPipe[q]) \in Text
        BY <2>1, <3>1, HeadTailProperties
      <3>3. QED
        BY <3>2, EmptySeq
    <2>4. WChat' /\ wPipe' \in [Party -> Seq(Text)]
      <3>1. Append(shown[p], Head(wPipe[q])) \in Seq(Text)
        BY <1>1, <2>3 DEF WChat
      <3>2. WChat'
        BY <1>1, <2>2, <3>1 DEF WChat
      <3>3. <<>> \in Seq(Text)
        OBVIOUS
      <3>4. QED
        BY <1>1, <2>2, <2>3, <3>2, <3>3 DEF WTypes
    <2>5. wPipe'[q] = <<>> /\ wPipe'[p] = wPipe[p]
      BY <1>1, <2>2, <2>3 DEF WTypes
    <2>6. \A r \in Party : Len(wPipe'[r]) < 2 /\ \A i \in DOMAIN wPipe'[r] : wPipe'[r][i] \in Text
      BY <1>1, <2>5 DEF WTypes, WTypeOK
    <2>7. wHist' \subseteq {"deaf", "broken"}
      BY <1>1, <1>4 DEF WRead, WTypes, WTypeOK
    <2>8. wListener' \in [Party -> {"none", "boot", "open", "wait", "read", "accept"}]
            /\ \A r \in Party : wListener'[r] # "none" => wListener[r] # "none"
      BY <1>1, <1>4 DEF WRead, WTypes, WTypeOK
    <2>9. QED
      BY <1>1, <1>4, <2>4, <2>6, <2>7, <2>8 DEF WRead, WTypes, WTypeOK
  <1>5. CASE WRelease(p)
    BY <1>1, <1>5 DEF WRelease, WTypes, WTypeOK, WChat, Talking, Released
  <1>6. CASE WTake(p)
    BY <1>1, <1>6 DEF WTake, WTypes, WTypeOK, WChat, Talking, Released
  <1>7. CASE WCreateEvent(p)
    BY <1>1, <1>7 DEF WCreateEvent, WTypes, WTypeOK, WChat, Talking, Released
  <1>8. CASE WSpawn(p)
    <2>1. /\ wListener' \in [Party -> {"none", "boot", "open", "wait", "read", "accept"}]
          /\ wHist' \subseteq {"deaf", "broken"}
      BY <1>1, <1>8 DEF WSpawn, WTypes, WTypeOK
    <2>2. wMain' \in [Party -> {"off", "hello", "wait", "event", "spawn", "connect"} \cup Talking]
      BY <1>1, <1>8 DEF WSpawn, WTypes, WTypeOK
    <2>3. \A r \in Party : wListener'[r] # "none" => wMain'[r] \in {"connect"} \cup Talking
      <3>1. wListener[p] = "none"
        BY <1>1, <1>8 DEF WSpawn, WTypes, Talking
      <3>2. /\ wListener'[q] = wListener[q] /\ wMain'[q] = wMain[q]
            /\ wListener'[p] = "none" \/ wMain'[p] = "connect"
        BY <1>1, <1>8, <3>1 DEF WSpawn, WTypes, WTypeOK
      <3>3. QED
        BY <1>1, <3>2 DEF WTypes
    <2>4. QED
      BY <1>1, <1>8, <2>1, <2>2, <2>3 DEF WSpawn, WTypes, WTypeOK, WChat
  <1>9. CASE WConnect(p)
    BY <1>1, <1>9 DEF WConnect, WTypes, WTypeOK, WChat, Talking, Released
  <1>10. CASE WPost(p)
    BY <1>1, <1>10 DEF WPost, WTypes, WTypeOK, WChat, Talking, Released
  <1>11. CASE WAccepted(p)
    BY <1>1, <1>11 DEF WAccepted, WTypes, WTypeOK, WChat, Talking, Released
  <1>12. CASE WReset(p)
    BY <1>1, <1>12 DEF WReset, WTypes, WTypeOK, WChat, Talking, Released
  <1>13. CASE WOpenEvent(p)
    <2>1. wOpened' \subseteq Party /\ wHist' \subseteq {"deaf", "broken"}
      <3>1. wOpened \subseteq Party /\ wHist \subseteq {"deaf", "broken"}
        BY <1>1 DEF WTypes, WTypeOK
      <3>2. \/ wHist' = wHist \cup {"deaf"} /\ wOpened' = wOpened
            \/ wOpened' = wOpened \cup {p} /\ wHist' = wHist
        BY <1>13 DEF WOpenEvent
      <3>3. QED
        BY <3>1, <3>2
    <2>2. QED
      BY <1>1, <1>13, <2>1 DEF WOpenEvent, WTypes, WTypeOK, WChat
  <1>14. CASE WOpenPipe(p)
    <2>1. /\ wListener' \in [Party -> {"none", "boot", "open", "wait", "read", "accept"}]
          /\ wHist' \subseteq {"deaf", "broken"}
      BY <1>1, <1>14 DEF WOpenPipe, WTypes, WTypeOK
    <2>2. \A r \in Party : wListener'[r] # "none" => wListener[r] # "none"
      BY <1>1, <1>14 DEF WOpenPipe, WTypes, WTypeOK
    <2>3. QED
      BY <1>1, <1>14, <2>1, <2>2 DEF WOpenPipe, WTypes, WTypeOK, WChat
  <1>15. CASE WListen(p)
    BY <1>1, <1>15 DEF WListen, WTypes, WTypeOK, WChat, Talking, Released
  <1>16. CASE WAccept(p)
    BY <1>1, <1>16 DEF WAccept, WTypes, WTypeOK, WChat, Talking, Released
  <1>17. CASE WInterrupt(p)
    BY <1>1, <1>17 DEF WInterrupt, WTypes, WTypeOK, WChat, Talking, Released
  <1>18. QED
    BY <1>2, <1>3, <1>4, <1>5, <1>6, <1>7, <1>8, <1>9, <1>10, <1>11, <1>12, <1>13, <1>14, <1>15, <1>16, <1>17
       DEF WUser, WRuns, WListens

(* Every step on Windows keeps the invariant of that half.                 *)
LEMMA WInvStep ==
  ASSUME WInv, WNext \/ UNCHANGED <<wVars, chatVars>>
  PROVE  WInv'
  <1>1. CASE WNext
    BY <1>1, WTypesStep, WPartStep DEF WInv
  <1>2. CASE UNCHANGED <<wVars, chatVars>>
    <2>1. WTypes' /\ WChat'
      BY <1>2 DEF WInv, WTypes, WTypeOK, WChat, wVars, chatVars
    <2>2. ASSUME NEW r \in Party, NEW o, WPart(r, o) PROVE WPart(r, o)'
      BY <1>2, <2>2 DEF wVars, chatVars, WPart, WMeets, WHears, WEvents, WGreets, WAnswers,
                        WPipes, Filled
    <2>3. wHist' = wHist
      BY <1>2 DEF wVars
    <2>4. QED
      BY <2>1, <2>2, <2>3 DEF WInv
  <1>3. QED
    BY <1>1, <1>2

(* The invariant of the Windows half holds at the start.                   *)
LEMMA WInvInit ==
  ASSUME WInit, CInit
  PROVE  WInv
  <1>1. WTypes /\ WChat
    BY ChatBound DEF WInit, CInit, Nothing, WTypes, WTypeOK, WChat, Talking
  <1>2. ASSUME NEW r \in Party PROVE WPart(r, Other(r))
    <2>1. Other(r) \in Party
      BY OtherParty
    <2>2. WMeets(r, Other(r)) /\ WHears(r, Other(r)) /\ WEvents(r, Other(r))
      BY <2>1 DEF WInit, WMeets, WHears, WEvents, Talking
    <2>3. WGreets(r, Other(r)) /\ WAnswers(r, Other(r))
      BY <2>1 DEF WInit, WGreets, WAnswers
    <2>4. WPipes(r, Other(r))
      BY <2>1 DEF WInit, CInit, Nothing, WPipes, Filled
    <2>5. QED
      BY <2>2, <2>3, <2>4 DEF WPart
  <1>3. QED
    BY <1>1, <1>2 DEF WInv

(* One answer is under way to a party that awaits one, and none to another.*)
LEMMA WInvAnswer ==
  ASSUME WInv
  PROVE  OneAnswerUnderWay
  <1> SUFFICES ASSUME wHist = {}, NEW p \in Party, wMain[p] # "off"
               PROVE  Cardinality({i \in 1 .. 4 :
                        \/ i = 1 /\ wMain[p] \in Talking /\ wSem[Other(p)] = 1
                        \/ i = 2 /\ wListener[Other(p)] = "read"
                        \/ i = 3 /\ wListener[Other(p)] = "accept"
                        \/ i = 4 /\ wEvent[p] = "set"})
                          = (IF wMain[p] \in {"await", "reset"} THEN 1 ELSE 0)
    BY DEF OneAnswerUnderWay
  <1>1. PICK q \in Party : q = Other(p)
    BY OtherParty
  <1>2. WAnswers(p, q)
    BY <1>1 DEF WInv, WPart
  <1> DEFINE Way == {i \in 1 .. 4 :
                      \/ i = 1 /\ wMain[p] \in Talking /\ wSem[q] = 1
                      \/ i = 2 /\ wListener[q] = "read"
                      \/ i = 3 /\ wListener[q] = "accept"
                      \/ i = 4 /\ wEvent[p] = "set"}
  <1>3. CASE wMain[p] \in {"await", "reset"}
    <2>1. \E w \in 1 .. 4 : Way = {w}
      <3>1. CASE wSem[q] = 1
        <4>1. Way = {1}
          BY <1>2, <1>3, <3>1 DEF WAnswers, Talking
        <4>2. QED
          BY <4>1
      <3>2. CASE wListener[q] = "read"
        <4>1. Way = {2}
          BY <1>2, <1>3, <3>2 DEF WAnswers, Talking
        <4>2. QED
          BY <4>1
      <3>3. CASE wListener[q] = "accept"
        <4>1. Way = {3}
          BY <1>2, <1>3, <3>3 DEF WAnswers, Talking
        <4>2. QED
          BY <4>1
      <3>4. CASE wEvent[p] = "set"
        <4>1. Way = {4}
          BY <1>2, <1>3, <3>4 DEF WAnswers, Talking
        <4>2. QED
          BY <4>1
      <3>5. QED
        BY <1>2, <1>3, <3>1, <3>2, <3>3, <3>4 DEF WAnswers
    <2>2. Cardinality(Way) = 1
      BY <2>1, FS_Singleton
    <2>3. QED
      BY <1>1, <1>3, <2>2
  <1>4. CASE wMain[p] \notin {"await", "reset"}
    <2>1. Way = {}
      BY <1>2, <1>4 DEF WAnswers, Talking
    <2>2. Cardinality(Way) = 0
      BY <2>1, FS_EmptySet
    <2>3. QED
      BY <1>1, <1>4, <2>2
  <1>5. QED
    BY <1>3, <1>4

(* A step of the Windows half is one of the chat, or is not seen by it.    *)
LEMMA WImplements ==
  ASSUME WInv, WNext
  PROVE  CNext \/ UNCHANGED chatVars
  <1> SUFFICES ASSUME NEW p \in Party, WUser(p) \/ WRuns(p) \/ WListens(p)
               PROVE  CNext \/ UNCHANGED chatVars
    BY DEF WNext
  <1>1. CASE WInitialize(p)
    BY <1>1 DEF WInitialize, CNext
  <1>2. CASE WWrite(p)
    BY <1>2 DEF WWrite, CNext, Type
  <1>3. CASE WRead(p)
    <2>1. PICK q \in Party : q = Other(p) /\ p = Other(q)
      BY OtherParty
    <2>2. WPart(q, p)
      BY <2>1 DEF WInv, WNext
    <2>3. /\ wPipe[q] \in Seq(Text) /\ Len(wPipe[q]) = 1
          /\ sent[q] = shown[p] \o wPipe[q] /\ shown[p] \in Seq(Text)
      BY <1>3, <2>2, <2>1 DEF WRead, WInv, WTypes, WChat, WPart, WAnswers, WPipes, Filled
    <2>4. shown' = [shown EXCEPT ![p] = Append(@, Head(wPipe[q]))] /\ sent' = sent
      BY <1>3, <2>1, <2>3 DEF WRead
    <2>5. Len(sent[q]) = Len(shown[p]) + 1 /\ sent[q][Len(shown[p]) + 1] = Head(wPipe[q])
      <3>1. wPipe[q] \in Seq(Text)
        BY <2>3
      <3>2. /\ Len(shown[p] \o wPipe[q]) = Len(shown[p]) + 1
            /\ (shown[p] \o wPipe[q])[Len(shown[p]) + 1] = Head(wPipe[q])
        BY <2>3, <3>1, OneMore, Zenon
      <3>3. QED
        BY <2>3, <3>2, Zenon
    <2>6. Unseen(p)
      BY <2>1, <2>3, <2>5 DEF Unseen
    <2>7. Show(p)
      BY <2>1, <2>4, <2>5, <2>6 DEF Show
    <2>8. QED
      BY <2>7 DEF CNext
  <1>4. CASE WRelease(p) \/ WTake(p) \/ WCreateEvent(p) \/ WSpawn(p) \/ WConnect(p)
    BY <1>4 DEF WRelease, WTake, WCreateEvent, WSpawn, WConnect
  <1>5. CASE WPost(p) \/ WAccepted(p) \/ WReset(p) \/ WInterrupt(p)
    BY <1>5 DEF WPost, WAccepted, WReset, WInterrupt
  <1>6. CASE WOpenEvent(p) \/ WOpenPipe(p) \/ WListen(p) \/ WAccept(p)
    BY <1>6 DEF WOpenEvent, WOpenPipe, WListen, WAccept
  <1>7. QED
    BY <1>1, <1>2, <1>3, <1>4, <1>5, <1>6 DEF WUser, WRuns, WListens

-----------------------------------------------------------------------------
(***************************************************************************)
(* The program, which is one half or the other.                            *)
(***************************************************************************)

(* The half that is not built stays as it was.                             *)
Inv ==
  /\ os \in {"lin", "win"}
  /\ os = "lin" => LInv /\ WInit
  /\ os = "win" => WInv /\ LInit

(* A step of the program is a step of the half that is built, and leaves   *)
(* the other one alone.                                                    *)
LEMMA NextIsOneHalf ==
  ASSUME Next
  PROVE  \/ os = "lin" /\ LNext /\ UNCHANGED <<os, wVars>>
         \/ os = "win" /\ WNext /\ UNCHANGED <<os, lVars>>
  <1> PICK p \in Party : Main(p) \/ Receiver(p) \/ ctrlCHandler(p)
    BY DEF Next
  <1>1. CASE initialize(p) \/ ctrlCHandler(p)
    BY <1>1 DEF initialize, ctrlCHandler, Lin, Win, LNext, WNext, LUser, WUser
  <1>2. CASE establishConnection(p)
    BY <1>2 DEF establishConnection, Lin, Win, LNext, WNext, LRuns, LUser, WRuns
  <1>3. CASE sendMessage(p)
    BY <1>3 DEF sendMessage, Lin, Win, LNext, WNext, LRuns, LUser, WRuns, WUser
  <1>4. CASE Receiver(p)
    BY <1>4 DEF Receiver, Lin, Win, LNext, WNext
  <1>5. QED
    BY <1>1, <1>2, <1>3, <1>4 DEF Main

(* The invariants of both halves hold at the start.                        *)
LEMMA InvInit == Init => Inv
  BY LInvInit, WInvInit DEF Init, Inv

(* Every step of the program keeps the invariants of both halves.          *)
LEMMA InvStep == Inv /\ [Next]_vars => Inv'
  <1> SUFFICES ASSUME Inv, [Next]_vars PROVE Inv'
    OBVIOUS
  <1>1. CASE os = "lin" /\ LNext /\ UNCHANGED <<os, wVars>>
    <2>1. LInv'
      BY <1>1, LInvStep DEF Inv
    <2>2. WInit'
      BY <1>1 DEF Inv, WInit, wVars
    <2>3. QED
      BY <1>1, <2>1, <2>2 DEF Inv
  <1>2. CASE os = "win" /\ WNext /\ UNCHANGED <<os, lVars>>
    <2>1. WInv'
      BY <1>2, WInvStep DEF Inv
    <2>2. LInit'
      BY <1>2 DEF Inv, LInit, lVars
    <2>3. QED
      BY <1>2, <2>1, <2>2 DEF Inv
  <1>3. CASE UNCHANGED vars
    <2>1. os = "lin" => LInv'
      BY <1>3, LInvStep DEF Inv, vars
    <2>2. os = "win" => WInv'
      BY <1>3, WInvStep DEF Inv, vars
    <2>3. (WInit => WInit') /\ (LInit => LInit')
      BY <1>3 DEF vars, wVars, lVars, WInit, LInit
    <2>4. QED
      BY <1>3, <2>1, <2>2, <2>3 DEF Inv, vars
  <1>4. QED
    BY <1>1, <1>2, <1>3, NextIsOneHalf

(* The invariants of both halves always hold.                              *)
LEMMA InvHolds == Spec => []Inv
  BY InvInit, InvStep, PTL DEF Spec

(* Types of both halves, and that the one that is not built is idle.       *)
THEOREM TypesHold == Spec => []TypeOK
  <1>1. Inv => TypeOK
    <2>1. LInit => LTypeOK /\ \A p \in Party : lMain[p] = "off"
      BY ChatBound DEF LInit, LTypeOK
    <2>2. WInit => WTypeOK /\ \A p \in Party : wMain[p] = "off"
      BY ChatBound DEF WInit, WTypeOK, Nothing
    <2>3. (LInv => LTypeOK) /\ (WInv => WTypeOK)
      BY DEF LInv, WInv, WTypes
    <2>4. QED
      BY <2>1, <2>2, <2>3 DEF Inv, TypeOK
  <1>2. QED
    BY <1>1, InvHolds, PTL

(* Tokens are messages on the way and messages are tokens, and a sender on *)
(* Windows that awaits an answer has one under way.                        *)
THEOREM TokensStayAccounted == Spec => []TokensAccounted
  <1>1. Inv => TokensAccounted
    <2>1. LInit => TokensAreMessages
      BY OtherParty DEF LInit, TokensAreMessages, Connected
    <2>2. WInit => OneAnswerUnderWay
      BY DEF WInit, OneAnswerUnderWay
    <2>3. QED
      BY <2>1, <2>2, LInvTokens, WInvAnswer DEF Inv, TokensAccounted
  <1>2. QED
    BY <1>1, InvHolds, PTL

(* The messenger implements the chat on both systems, until something      *)
(* happens that the code is not made for.                                  *)
THEOREM MessagerImplementsChat == Spec => ImplementsChat
  <1>1. Inv /\ [Next]_vars => [Hazard' = {} => CNext]_chatVars
    <2> SUFFICES ASSUME Inv, [Next]_vars PROVE CNext \/ UNCHANGED chatVars
      OBVIOUS
    <2>1. CASE os = "lin" /\ LNext
      BY <2>1, LImplements DEF Inv
    <2>2. CASE os = "win" /\ WNext
      BY <2>2, WImplements DEF Inv
    <2>3. CASE UNCHANGED vars
      BY <2>3 DEF vars
    <2>4. QED
      BY <2>1, <2>2, <2>3, NextIsOneHalf
  <1>2. QED
    BY <1>1, InvHolds, PTL DEF Spec, ImplementsChat
=============================================================================
