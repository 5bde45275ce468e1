---------------------------- MODULE HeapProofs ----------------------------
(***************************************************************************)
(* Proofs about the heap of lab6, for any sizes asked for and any letters  *)
(* written.  A block has no length and no entry in a table: that the walk  *)
(* over end markers finds the blocks rests on a fact about bytes.          *)
(*                                                                         *)
(* Laid is that fact: the heap begins with a mark and ends with an end     *)
(* marker, and wherever the first three bytes of an end marker are the     *)
(* fourth is too, and after it a mark or the end of the heap.  Two markers *)
(* then never overlap and blocks begin where markers end; a client cannot  *)
(* break it, for its one letter repeated does not make three bytes of a    *)
(* marker.  Held says whose the used blocks are.  Each call of heap_block.c*)
(* keeps both: a mark changed, a marker taken away (Joined), a block put   *)
(* into a gap (PutInside) or at the end of the heap (PutAtEnd).            *)
(***************************************************************************)
EXTENDS Heap, Iteration, SequenceTheorems, TLAPS

-----------------------------------------------------------------------------
(* What a byte of the heap may be, and what begins a block.                *)
Byte == {USED, FREE, NUL, "esc", "bar"} \cup Letter
Mark == {USED, FREE}

(* A heap of B bytes.                                                      *)
OfBytes(h, B) == B \in Nat /\ h \in [0 .. B - 1 -> Byte]

(* The bytes of an end marker differ from each other and from the marks.   *)
LEMMA BytesDiffer ==
  /\ "esc" # "bar" /\ "esc" \notin Mark /\ "bar" \notin Mark
  /\ NUL \notin {"esc", "bar"} /\ USED # FREE
  BY DEF Mark, USED, FREE, NUL

(* Their number and addresses.                                             *)
LEMMA BytesAre ==
  ASSUME NEW h, NEW B, OfBytes(h, B)
  PROVE  Bytes(h) = B /\ DOMAIN h = 0 .. B - 1
  <1>1. DOMAIN h = 0 .. B - 1 /\ B \in Nat
    BY DEF OfBytes
  <1>2. Cardinality(0 .. B - 1) = B
    BY <1>1, FS_Interval
  <1>3. QED
    BY <1>1, <1>2 DEF Bytes

(* g is h with s written at at.                                            *)
Written(g, h, B, at, s) ==
  /\ OfBytes(g, B)
  /\ \A i \in 0 .. B - 1 : g[i] = IF i \in at .. at + Len(s) - 1 THEN s[i - at + 1] ELSE h[i]

(* What the code writes.                                                   *)
LEMMA WriteIs ==
  ASSUME NEW h, NEW B, OfBytes(h, B), NEW at \in Nat, NEW s \in Seq(Byte)
  PROVE  Written(Write(h, at, s), h, B, at, s)
  <1> DEFINE g == Write(h, at, s)
  <1>1. DOMAIN h = 0 .. B - 1 /\ B \in Nat /\ \A i \in 0 .. B - 1 : h[i] \in Byte
    BY DEF OfBytes
  <1>4. g = [i \in 0 .. B - 1 |-> IF i \in at .. at + Len(s) - 1 THEN s[i - at + 1] ELSE h[i]]
    BY <1>1 DEF Write
  <1>5. \A i \in at .. at + Len(s) - 1 : s[i - at + 1] \in Byte
    <2> SUFFICES ASSUME NEW i \in at .. at + Len(s) - 1 PROVE s[i - at + 1] \in Byte
      OBVIOUS
    <2>1. Len(s) \in Nat
      OBVIOUS
    <2>2. i - at + 1 \in 1 .. Len(s)
      BY <2>1
    <2>3. QED
      BY <2>2, ElementOfSeq
  <1> HIDE DEF g
  <1>6. QED
    BY <1>1, <1>4, <1>5 DEF OfBytes, g, Written

-----------------------------------------------------------------------------
(***************************************************************************)
(* Heaps of blocks, and what searching for end markers finds in them.      *)
(***************************************************************************)

(* An end marker begins at e, as far as its first three bytes tell.        *)
Tri(h, e) == h[e] = "esc" /\ h[e + 1] = "bar" /\ h[e + 2] = "bar"

(* A heap of blocks: it begins with a mark and ends with an end marker, and*)
(* wherever three bytes look like an end marker one is, which another block*)
(* follows.                                                                *)
Laid(h, B) ==
  /\ OfBytes(h, B) /\ B >= 5
  /\ h[0] \in Mark
  /\ Tri(h, B - 4)
  /\ \A e \in 0 .. B - 3 : Tri(h, e) => /\ e + 3 < B /\ h[e + 3] = "esc"
                                        /\ e + 4 < B => h[e + 4] \in Mark

(* Where blocks begin, and where end markers do.                           *)
Start(h, B, o) == o \in 0 .. B - 1 /\ (o = 0 \/ (o >= 4 /\ Tri(h, o - 4)))
Mk(h, B, e) == e \in 0 .. B - 4 /\ Tri(h, e)

(* The end markers.                                                        *)
LEMMA EndsAre ==
  ASSUME NEW h, NEW B, Laid(h, B)
  PROVE  \A e : e \in Ends(h) <=> Mk(h, B, e)
  <1>1. B \in Nat /\ B >= 5 /\ Bytes(h) = B
    BY BytesAre DEF Laid, OfBytes
  <1>2. Len(EOB) = 4 /\ EOB[1] = "esc" /\ EOB[2] = "bar" /\ EOB[3] = "bar" /\ EOB[4] = "esc"
    BY DEF EOB
  <1>3. 1 .. Len(EOB) = {1, 2, 3, 4}
    BY <1>2
  <1>4. Ends(h) = {e \in 0 .. B - 4 : \A i \in {1, 2, 3, 4} : h[e + i - 1] = EOB[i]}
    BY <1>1, <1>2, <1>3 DEF Ends
  <1>5. ASSUME NEW e \in 0 .. B - 4
        PROVE  (\A i \in {1, 2, 3, 4} : h[e + i - 1] = EOB[i]) <=> Tri(h, e)
    <2>1. e \in Int /\ e \in 0 .. B - 3
      BY <1>1
    <2>2. e + 1 - 1 = e /\ e + 2 - 1 = e + 1 /\ e + 3 - 1 = e + 2 /\ e + 4 - 1 = e + 3
      BY <2>1
    <2>3. (\A i \in {1, 2, 3, 4} : h[e + i - 1] = EOB[i]) <=>
            /\ h[e + 1 - 1] = EOB[1] /\ h[e + 2 - 1] = EOB[2]
            /\ h[e + 3 - 1] = EOB[3] /\ h[e + 4 - 1] = EOB[4]
      OBVIOUS
    <2>4. Tri(h, e) => h[e + 3] = "esc"
      BY <2>1 DEF Laid
    <2>5. QED
      BY <1>2, <2>2, <2>3, <2>4 DEF Tri
  <1>6. QED
    BY <1>4, <1>5 DEF Mk

(* How far apart markers and blocks are.                                   *)
LEMMA Apart ==
  ASSUME NEW h, NEW B, Laid(h, B)
  PROVE  /\ B \in Nat /\ B >= 5 /\ Mk(h, B, B - 4)
         /\ \A e : Mk(h, B, e) => e \in Nat /\ e >= 1 /\ e + 4 <= B
         /\ \A e, f : Mk(h, B, e) /\ Mk(h, B, f) /\ e < f => f >= e + 5
         /\ \A o : Start(h, B, o) => o \in Nat /\ o <= B - 5 /\ h[o] \in Mark
         /\ \A o, e : Start(h, B, o) /\ Mk(h, B, e) => e > o \/ e + 4 <= o
  <1>1. B \in Nat /\ B >= 5
    BY DEF Laid, OfBytes
  <1>2. "esc" # "bar" /\ "esc" \notin Mark /\ "bar" \notin Mark
    BY BytesDiffer
  <1>3. ASSUME NEW e, Mk(h, B, e)
        PROVE  /\ e \in Nat /\ e >= 1 /\ e + 4 <= B /\ Tri(h, e) /\ h[e + 3] = "esc"
               /\ e + 4 < B => h[e + 4] \in Mark
    <2>1. e \in 0 .. B - 4 /\ e \in 0 .. B - 3 /\ Tri(h, e)
      BY <1>1, <1>3 DEF Mk
    <2>2. /\ e + 3 < B /\ h[e + 3] = "esc"
          /\ e + 4 < B => h[e + 4] \in Mark
      BY <2>1 DEF Laid
    <2>3. e # 0
      BY <1>2, <2>1 DEF Laid, Tri
    <2>4. QED
      BY <1>1, <2>1, <2>2, <2>3
  <1>4. ASSUME NEW e, NEW f, Mk(h, B, e), Mk(h, B, f), e < f PROVE f >= e + 5
    <2>1. e \in Nat /\ f \in Nat /\ f + 4 <= B /\ e + 4 < B /\ e + 4 <= B
      BY <1>1, <1>3, <1>4
    <2>2. /\ h[e] = "esc" /\ h[e + 1] = "bar" /\ h[e + 2] = "bar" /\ h[e + 3] = "esc"
          /\ h[e + 4] \in Mark
      BY <1>3, <1>4, <2>1 DEF Tri
    <2>3. h[f] = "esc" /\ h[f + 1] = "bar"
      BY <1>3, <1>4 DEF Tri
    <2>4. f # e + 1 /\ f # e + 2 /\ f # e + 4
      BY <1>2, <2>2, <2>3
    <2>5. f # e + 3
      <3>1. f = e + 3 => f + 1 = e + 4
        BY <2>1
      <3>2. QED
        BY <1>2, <2>2, <2>3, <3>1
    <2>6. QED
      BY <1>4, <2>1, <2>4, <2>5
  <1>5. ASSUME NEW o, Start(h, B, o) PROVE o \in Nat /\ o <= B - 5 /\ h[o] \in Mark
    <2>1. o \in 0 .. B - 1 /\ (o = 0 \/ (o >= 4 /\ Tri(h, o - 4)))
      BY <1>5 DEF Start
    <2>2. h[o] \in Mark
      <3>1. CASE o = 0
        BY <3>1 DEF Laid
      <3>2. CASE o >= 4 /\ Tri(h, o - 4)
        <4>1. o - 4 \in 0 .. B - 4 /\ (o - 4) + 4 < B /\ (o - 4) + 4 = o
          BY <1>1, <2>1, <3>2
        <4>2. Mk(h, B, o - 4)
          BY <3>2, <4>1 DEF Mk
        <4>3. QED
          BY <1>3, <4>1, <4>2
      <3>3. QED
        BY <2>1, <3>1, <3>2
    <2>3. h[B - 4] = "esc" /\ h[(B - 4) + 1] = "bar" /\ h[(B - 4) + 2] = "bar" /\ h[(B - 4) + 3] = "esc"
      <3>1. B - 4 \in 0 .. B - 3
        BY <1>1
      <3>2. QED
        BY <3>1 DEF Laid, Tri
    <2>4. o # B - 4 /\ o # (B - 4) + 1 /\ o # (B - 4) + 2 /\ o # (B - 4) + 3
      BY <1>2, <2>2, <2>3
    <2>5. QED
      BY <1>1, <2>1, <2>2, <2>4
  <1>6. ASSUME NEW o, NEW e, Start(h, B, o), Mk(h, B, e) PROVE e > o \/ e + 4 <= o
    <2>1. o \in Nat /\ h[o] \in Mark /\ e \in Nat
      BY <1>3, <1>5, <1>6
    <2>2. h[e] = "esc" /\ h[e + 1] = "bar" /\ h[e + 2] = "bar" /\ h[e + 3] = "esc"
      BY <1>3, <1>6 DEF Tri
    <2>3. o # e /\ o # e + 1 /\ o # e + 2 /\ o # e + 3
      BY <1>2, <2>1, <2>2
    <2>4. QED
      BY <2>1, <2>3
  <1>7. Mk(h, B, B - 4)
    BY <1>1 DEF Mk, Laid
  <1>8. QED
    BY <1>1, <1>3, <1>4, <1>5, <1>6, <1>7

(* The first end marker after o: where block o ends.                       *)
FirstAfter(h, B, o, e) == Mk(h, B, e) /\ e > o /\ \A f : Mk(h, B, f) /\ f > o => f >= e

(* There is one after every block.                                         *)
LEMMA FirstExists ==
  ASSUME NEW h, NEW B, Laid(h, B), NEW o \in Nat, o <= B - 5
  PROVE  \E e : FirstAfter(h, B, o, e)
  <1> DEFINE S == {e \in Nat : Mk(h, B, e) /\ e > o}
  <1>1. B - 4 \in S
    BY Apart
  <1>2. PICK e \in S : \A f \in S : e <= f
    BY <1>1, LeastNat
  <1>3. QED
    BY <1>2, Apart DEF FirstAfter

(* What the code finds there.                                              *)
LEMMA SearchIs ==
  ASSUME NEW h, NEW B, Laid(h, B), NEW o \in Nat, NEW e, FirstAfter(h, B, o, e)
  PROVE  /\ get_next_block(h, o) = e + 4 /\ calculate_block_size(h, o) = e - o
         /\ HasEnd(h, o) /\ e \in Nat /\ e >= 1 /\ e + 4 <= B
  <1> DEFINE later == {x \in Ends(h) : x > o}
  <1>1. e \in later /\ \A x \in later : e <= x /\ x \in Int
    BY EndsAre, Apart DEF FirstAfter
  <1>2. Min(later) = e
    <2> HIDE DEF later
    <2>1. QED
      BY <1>1 DEF Min
  <1>3. later # {} /\ HasEnd(h, o)
    BY <1>1 DEF HasEnd
  <1>4. Len(EOB) = 4
    BY DEF EOB
  <1>5. e \in Nat /\ e >= 1 /\ e + 4 <= B
    BY Apart DEF FirstAfter
  <1>6. QED
    BY <1>2, <1>3, <1>4, <1>5 DEF get_next_block, calculate_block_size

(* After the last marker there is none.                                    *)
LEMMA SearchFails ==
  ASSUME NEW h, NEW B, Laid(h, B), NEW o \in Nat, \A e : ~(Mk(h, B, e) /\ e > o)
  PROVE  get_next_block(h, o) >= B /\ get_next_block(h, o) \in Nat
  <1>1. {x \in Ends(h) : x > o} = {}
    BY EndsAre
  <1>2. Bytes(h) = B /\ B \in Nat
    BY BytesAre DEF Laid, OfBytes
  <1>3. get_next_block(h, o) = Max({B, o + 4})
    BY <1>1, <1>2 DEF get_next_block, EOB
  <1>4. B >= o + 4 => Max({B, o + 4}) = B
    BY <1>2 DEF Max
  <1>5. B < o + 4 => Max({B, o + 4}) = o + 4
    BY <1>2 DEF Max
  <1>6. QED
    BY <1>2, <1>3, <1>4, <1>5

(* The walk of the code over end markers meets the blocks.                 *)
LEMMA BlocksAre ==
  ASSUME NEW h, NEW B, Laid(h, B)
  PROVE  \A o : o \in Blocks(h) <=> Start(h, B, o)
  <1>1. B \in Nat /\ B >= 5 /\ Bytes(h) = B
    BY BytesAre DEF Laid, OfBytes
  <1> DEFINE n(o) == get_next_block(h, o)
             After(o) == {p \in 0 .. B - 1 : p >= 4 /\ Tri(h, p - 4) /\ p - 4 > o}
             F == [o \in 0 .. B |-> {o} \cup After(o)]
             IsWalk(f) == f = [o \in 0 .. B |-> {o} \cup IF n(o) < B THEN f[n(o)] ELSE {}]
             W == CHOOSE f : IsWalk(f)
  <1>2. Blocks(h) = W[0]
    BY <1>1 DEF Blocks
  <1>3. ASSUME NEW o \in 0 .. B
        PROVE  /\ (n(o) \in Nat /\ n(o) > o) \/ n(o) >= B
               /\ After(o) = IF n(o) < B THEN {n(o)} \cup After(n(o)) ELSE {}
    <2>1. o \in Nat
      BY <1>1
    <2>2. CASE \A e : ~(Mk(h, B, e) /\ e > o)
      <3>1. n(o) >= B /\ n(o) \in Nat
        BY <2>1, <2>2, SearchFails
      <3>2. After(o) = {}
        BY <1>1, <2>2 DEF Mk
      <3>3. QED
        BY <1>1, <3>1, <3>2
    <2>3. CASE \E e : Mk(h, B, e) /\ e > o
      <3>1. PICK e : FirstAfter(h, B, o, e)
        <4>1. o <= B - 5
          BY <1>1, <2>1, <2>3, Apart
        <4>2. QED
          BY <2>1, <4>1, FirstExists
      <3>2. n(o) = e + 4 /\ e \in Nat /\ e >= 1 /\ e + 4 <= B
        BY <2>1, <3>1, SearchIs
      <3>3. Mk(h, B, e) /\ e > o /\ \A f : Mk(h, B, f) /\ f > o => f >= e
        BY <3>1 DEF FirstAfter
      <3>4. ASSUME NEW p \in 0 .. B - 1, p >= 4
            PROVE  Tri(h, p - 4) /\ p - 4 > o <=>
                     p = e + 4 \/ (e + 4 < B /\ Tri(h, p - 4) /\ p - 4 > e + 4)
        <4>1. p - 4 \in 0 .. B - 4 /\ (p = e + 4 <=> p - 4 = e)
          BY <1>1, <3>2, <3>4
        <4>2. Tri(h, p - 4) <=> Mk(h, B, p - 4)
          BY <4>1 DEF Mk
        <4>3. Mk(h, B, p - 4) /\ p - 4 > e => p - 4 >= e + 5
          BY <3>3, Apart
        <4>4. Mk(h, B, p - 4) /\ p - 4 > o => p - 4 >= e
          BY <3>3
        <4>5. p - 4 > e + 4 => e + 4 < B /\ p - 4 > o
          BY <1>1, <2>1, <3>2, <3>3, <3>4
        <4>6. QED
          BY <2>1, <3>2, <3>3, <3>4, <4>1, <4>2, <4>3, <4>4, <4>5
      <3>5. CASE e + 4 < B
        <4>1. e + 4 \in 0 .. B - 1 /\ e + 4 >= 4
          BY <1>1, <3>2, <3>5
        <4>2. After(o) = {e + 4} \cup After(e + 4)
          BY <3>4, <3>5, <4>1
        <4>3. QED
          BY <1>1, <2>1, <3>2, <3>3, <3>5, <4>2
      <3>6. CASE e + 4 = B
        <4>1. After(o) = {}
          BY <1>1, <3>2, <3>4, <3>6
        <4>2. QED
          BY <1>1, <3>2, <3>6, <4>1
      <3>7. QED
        BY <1>1, <3>2, <3>5, <3>6
    <2>4. QED
      BY <2>2, <2>3
  <1> HIDE DEF n
  <1>4. IsWalk(F)
    <2>1. ASSUME NEW o \in 0 .. B
          PROVE  {o} \cup After(o) = {o} \cup IF n(o) < B THEN F[n(o)] ELSE {}
      <3>1. CASE n(o) < B
        <4>1. n(o) \in 0 .. B
          BY <1>1, <1>3, <3>1
        <4>2. F[n(o)] = {n(o)} \cup After(n(o))
          BY <4>1
        <4> HIDE DEF F, After
        <4>3. QED
          BY <1>3, <3>1, <4>2
      <3>2. CASE ~(n(o) < B)
        <4> HIDE DEF F, After
        <4>1. QED
          BY <1>3, <3>2
      <3>3. QED
        BY <3>1, <3>2
    <2>2. F = [o \in 0 .. B |-> {o} \cup After(o)]
      OBVIOUS
    <2> HIDE DEF F, After
    <2>3. [o \in 0 .. B |-> {o} \cup After(o)] =
            [o \in 0 .. B |-> {o} \cup IF n(o) < B THEN F[n(o)] ELSE {}]
      BY <2>1
    <2>4. QED
      BY <2>2, <2>3
  <1>5. IsWalk(W)
    <2> HIDE DEF IsWalk, F
    <2>1. QED
      BY <1>4
  <1> HIDE DEF W
  <1>6. W[0] = F[0]
    <2> DEFINE S == {k \in Nat : \A o \in 0 .. B : o >= B - k => W[o] = F[o]}
    <2>1. /\ \A o \in 0 .. B : W[o] = {o} \cup IF n(o) < B THEN W[n(o)] ELSE {}
          /\ \A o \in 0 .. B : F[o] = {o} \cup IF n(o) < B THEN F[n(o)] ELSE {}
      <3> HIDE DEF F
      <3>1. QED
        BY <1>4, <1>5
    <2>2. \A o \in 0 .. B : n(o) < B => n(o) \in 0 .. B /\ n(o) > o
      BY <1>1, <1>3
    <2> HIDE DEF IsWalk, F, After
    <2>3. 0 \in S
      BY <1>1, <2>1, <2>2
    <2>4. ASSUME NEW k \in Nat, k \in S PROVE k + 1 \in S
      <3>1. SUFFICES ASSUME NEW o \in 0 .. B, o >= B - (k + 1) PROVE W[o] = F[o]
        OBVIOUS
      <3>2. n(o) < B => n(o) \in 0 .. B /\ n(o) >= B - k
        BY <1>1, <2>2, <3>1
      <3>3. n(o) < B => W[n(o)] = F[n(o)]
        BY <2>4, <3>2
      <3>4. QED
        BY <2>1, <3>3
    <2>5. B \in S
      <3> HIDE DEF S
      <3>1. QED
        BY <1>1, <2>3, <2>4, NatSet
    <2>6. QED
      BY <1>1, <2>5
  <1>7. F[0] = {0} \cup After(0)
    BY <1>1
  <1>8. ASSUME NEW o PROVE o \in {0} \cup After(0) <=> Start(h, B, o)
    <2>1. o \in 0 .. B - 1 /\ o >= 4 /\ Tri(h, o - 4) => o - 4 > 0
      <3>1. ASSUME o \in 0 .. B - 1, o >= 4, Tri(h, o - 4) PROVE o - 4 > 0
        <4>1. Mk(h, B, o - 4)
          BY <1>1, <3>1 DEF Mk
        <4>2. QED
          BY <4>1, Apart
      <3>2. QED
        BY <3>1
    <2>2. 0 \in 0 .. B - 1
      BY <1>1
    <2>3. QED
      BY <2>1, <2>2 DEF Start
  <1>9. QED
    BY <1>2, <1>6, <1>7, <1>8

-----------------------------------------------------------------------------
(***************************************************************************)
(* What the writes of heap_block.c do to the bytes and to the blocks.      *)
(***************************************************************************)

(* What is written: a mark, an end marker, NULs, a client's letters.       *)
LEMMA WrittenAre ==
  /\ \A x \in Byte : <<x>> \in Seq(Byte) /\ Len(<<x>>) = 1 /\ <<x>>[1] = x
  /\ EOB \in Seq(Byte) /\ Len(EOB) = 4 /\ BLOCK_OVERHEAD = 5
  /\ EOB[1] = "esc" /\ EOB[2] = "bar" /\ EOB[3] = "bar" /\ EOB[4] = "esc"
  /\ \A x \in Byte, n \in Nat : /\ Fill(x, n) \in Seq(Byte) /\ Len(Fill(x, n)) = n
                                /\ \A i \in 1 .. n : Fill(x, n)[i] = x
  <1>1. \A x \in Byte : <<x>> \in Seq(Byte) /\ Len(<<x>>) = 1 /\ <<x>>[1] = x
    OBVIOUS
  <1>2. EOB \in Seq(Byte) /\ Len(EOB) = 4 /\ BLOCK_OVERHEAD = 5
    BY DEF EOB, Byte, BLOCK_OVERHEAD
  <1>3. EOB[1] = "esc" /\ EOB[2] = "bar" /\ EOB[3] = "bar" /\ EOB[4] = "esc"
    BY DEF EOB
  <1>4. ASSUME NEW x \in Byte, NEW n \in Nat
        PROVE  /\ Fill(x, n) \in Seq(Byte) /\ Len(Fill(x, n)) = n
               /\ \A i \in 1 .. n : Fill(x, n)[i] = x
    BY <1>4 DEF Fill
  <1>5. QED
    BY <1>1, <1>2, <1>3, <1>4

(* The bytes of marks and the end marker.                                  *)
LEMMA BytesHold == Mark \subseteq Byte /\ USED \in Mark /\ FREE \in Mark /\ NUL \in Byte
                   /\ Letter \subseteq Byte
  BY DEF Mark, Byte

(* One byte written.                                                       *)
LEMMA ByteWritten ==
  ASSUME NEW h, NEW B, OfBytes(h, B), NEW at \in Nat, NEW x \in Byte
  PROVE  /\ OfBytes(Write(h, at, <<x>>), B)
         /\ \A i \in 0 .. B - 1 : Write(h, at, <<x>>)[i] = IF i = at THEN x ELSE h[i]
  <1> DEFINE s == <<x>>
  <1>1. s \in Seq(Byte) /\ Len(s) = 1 /\ s[1] = x
    BY WrittenAre
  <1> HIDE DEF s
  <1>2. /\ OfBytes(Write(h, at, s), B)
        /\ \A i \in 0 .. B - 1 :
             Write(h, at, s)[i] = IF i \in at .. at + Len(s) - 1 THEN s[i - at + 1] ELSE h[i]
    <2>1. Written(Write(h, at, s), h, B, at, s)
      BY <1>1, WriteIs
    <2>2. QED
      BY <2>1 DEF Written
  <1>3. ASSUME NEW i \in 0 .. B - 1
        PROVE  Write(h, at, s)[i] = IF i = at THEN x ELSE h[i]
    <2>1. (i \in at .. at + Len(s) - 1 <=> i = at) /\ at - at + 1 = 1
      BY <1>1, <1>3 DEF OfBytes
    <2>2. QED
      BY <1>1, <1>2, <2>1
  <1>4. QED
    BY <1>2, <1>3 DEF s

(* One byte written many times.                                            *)
LEMMA ByteFilled ==
  ASSUME NEW h, NEW B, OfBytes(h, B), NEW at \in Nat, NEW x \in Byte, NEW n \in Nat
  PROVE  /\ OfBytes(Write(h, at, Fill(x, n)), B)
         /\ \A i \in 0 .. B - 1 :
              Write(h, at, Fill(x, n))[i] = IF i \in at .. at + n - 1 THEN x ELSE h[i]
  <1> DEFINE s == Fill(x, n)
  <1>1. s \in Seq(Byte) /\ Len(s) = n /\ \A i \in 1 .. n : s[i] = x
    BY WrittenAre
  <1> HIDE DEF s
  <1>2. /\ OfBytes(Write(h, at, s), B)
        /\ \A i \in 0 .. B - 1 :
             Write(h, at, s)[i] = IF i \in at .. at + Len(s) - 1 THEN s[i - at + 1] ELSE h[i]
    <2>1. Written(Write(h, at, s), h, B, at, s)
      BY <1>1, WriteIs
    <2>2. QED
      BY <2>1 DEF Written
  <1>3. ASSUME NEW i \in 0 .. B - 1
        PROVE  Write(h, at, s)[i] = IF i \in at .. at + n - 1 THEN x ELSE h[i]
    <2>1. i \in at .. at + n - 1 => i - at + 1 \in 1 .. n
      BY <1>3 DEF OfBytes
    <2>2. QED
      BY <1>1, <1>2, <2>1
  <1>4. QED
    BY <1>2, <1>3 DEF s

(* g is h but for an end marker at at.                                     *)
Ended(g, h, B, at) ==
  /\ OfBytes(g, B)
  /\ \A i \in 0 .. B - 1 : /\ i = at \/ i = at + 3 => g[i] = "esc"
                           /\ i = at + 1 \/ i = at + 2 => g[i] = "bar"
                           /\ i < at \/ i > at + 3 => g[i] = h[i]

(* An end marker written.                                                  *)
LEMMA EndWritten ==
  ASSUME NEW h, NEW B, OfBytes(h, B), NEW at \in Nat
  PROVE  Ended(Write(h, at, EOB), h, B, at)
  <1>1. /\ EOB \in Seq(Byte) /\ Len(EOB) = 4
        /\ EOB[1] = "esc" /\ EOB[2] = "bar" /\ EOB[3] = "bar" /\ EOB[4] = "esc"
    BY WrittenAre
  <1>2. /\ OfBytes(Write(h, at, EOB), B)
        /\ \A i \in 0 .. B - 1 :
             Write(h, at, EOB)[i] = IF i \in at .. at + Len(EOB) - 1 THEN EOB[i - at + 1] ELSE h[i]
    <2>1. Written(Write(h, at, EOB), h, B, at, EOB)
      BY <1>1, WriteIs
    <2>2. QED
      BY <2>1 DEF Written
  <1>3. ASSUME NEW i \in 0 .. B - 1
        PROVE  /\ i = at \/ i = at + 3 => Write(h, at, EOB)[i] = "esc"
               /\ i = at + 1 \/ i = at + 2 => Write(h, at, EOB)[i] = "bar"
               /\ i < at \/ i > at + 3 => Write(h, at, EOB)[i] = h[i]
    <2>0. i \in Int
      BY <1>3 DEF OfBytes
    <2>1. i < at \/ i > at + 3 => Write(h, at, EOB)[i] = h[i]
      BY <1>1, <1>2, <2>0
    <2>2. ASSUME NEW k \in 1 .. 4, i = at + k - 1 PROVE Write(h, at, EOB)[i] = EOB[k]
      <3>1. i - at + 1 = k /\ i \in at .. at + Len(EOB) - 1
        BY <1>1, <2>2
      <3>2. QED
        BY <1>2, <3>1
    <2>3. /\ i = at => Write(h, at, EOB)[i] = EOB[1]
          /\ i = at + 1 => Write(h, at, EOB)[i] = EOB[2]
          /\ i = at + 2 => Write(h, at, EOB)[i] = EOB[3]
          /\ i = at + 3 => Write(h, at, EOB)[i] = EOB[4]
      <3>1. at = at + 1 - 1 /\ at + 1 = at + 2 - 1 /\ at + 2 = at + 3 - 1 /\ at + 3 = at + 4 - 1
        OBVIOUS
      <3>2. 1 \in 1 .. 4 /\ 2 \in 1 .. 4 /\ 3 \in 1 .. 4 /\ 4 \in 1 .. 4
        OBVIOUS
      <3>3. QED
        BY <2>2, <3>1, <3>2
    <2>4. QED
      BY <1>1, <2>1, <2>3
  <1>4. QED
    BY <1>2, <1>3 DEF Ended

(* A marker taken away.                                                    *)
LEMMA JoinedLaid ==
  ASSUME NEW h, NEW B, Laid(h, B), NEW m, Mk(h, B, m), m + 4 < B,
         NEW g, g = Joined(h, m + 4)
  PROVE  /\ Laid(g, B)
         /\ \A e : Mk(g, B, e) <=> Mk(h, B, e) /\ e # m
         /\ \A o : Start(g, B, o) <=> Start(h, B, o) /\ o # m + 4
         /\ \A i \in 0 .. B - 1 : g[i] = IF i \in m .. m + 3 THEN NUL ELSE h[i]
  <1>1. /\ B \in Nat /\ B >= 5 /\ m \in Nat /\ m >= 1 /\ m + 4 <= B - 1
        /\ OfBytes(h, B)
    BY Apart DEF Laid
  <1>2. /\ OfBytes(g, B)
        /\ \A i \in 0 .. B - 1 : g[i] = IF i \in m .. m + 3 THEN NUL ELSE h[i]
    <2>1. g = Write(h, m, Fill(NUL, 4))
      BY <1>1, WrittenAre DEF Joined
    <2>2. /\ OfBytes(Write(h, m, Fill(NUL, 4)), B)
          /\ \A i \in 0 .. B - 1 :
               Write(h, m, Fill(NUL, 4))[i] = IF i \in m .. m + 4 - 1 THEN NUL ELSE h[i]
      BY <1>1, BytesHold, ByteFilled
    <2>3. m + 4 - 1 = m + 3
      BY <1>1
    <2>4. QED
      BY <2>1, <2>2, <2>3
  <1>3. /\ h[m] = "esc" /\ h[m + 1] = "bar" /\ h[m + 2] = "bar" /\ h[m + 3] = "esc"
        /\ h[m + 4] \in Mark
    <2>1. m \in 0 .. B - 3
      BY <1>1
    <2>2. QED
      BY <1>1, <2>1 DEF Laid, Mk, Tri
  <1>4. "esc" # "bar" /\ "esc" \notin Mark /\ "bar" \notin Mark /\ NUL # "esc" /\ NUL # "bar"
    BY BytesDiffer
  <1>5. ASSUME NEW e \in 0 .. B - 3
        PROVE  Tri(g, e) <=> Tri(h, e) /\ e # m
    <2>1. e \in 0 .. B - 1 /\ e + 1 \in 0 .. B - 1 /\ e + 2 \in 0 .. B - 1 /\ m \in 0 .. B - 1
          /\ m + 1 \in 0 .. B - 1 /\ m + 2 \in 0 .. B - 1 /\ m + 3 \in 0 .. B - 1
      BY <1>1
    <2>2. CASE e + 2 < m \/ e > m + 3
      <3>1. g[e] = h[e] /\ g[e + 1] = h[e + 1] /\ g[e + 2] = h[e + 2] /\ e # m
        BY <1>1, <1>2, <2>1, <2>2
      <3>2. QED
        BY <3>1 DEF Tri
    <2>3. CASE ~(e + 2 < m \/ e > m + 3)
      <3>1. g[m] = NUL /\ g[m + 1] = NUL /\ g[m + 2] = NUL /\ g[m + 3] = NUL
        BY <1>1, <1>2, <2>1
      <3>2. \/ e + 2 = m \/ e + 1 = m \/ e = m \/ e = m + 1 \/ e = m + 2 \/ e = m + 3
        BY <1>1, <2>3
      <3>3. ~Tri(g, e)
        BY <1>4, <3>1, <3>2 DEF Tri
      <3>4. Tri(h, e) => e = m
        <4>1. e = m + 3 => e + 1 = m + 4
          BY <1>1
        <4>2. QED
          BY <1>3, <1>4, <3>2, <4>1 DEF Tri
      <3>5. QED
        BY <3>3, <3>4
    <2>4. QED
      BY <2>2, <2>3
  <1>6. \A e : Mk(g, B, e) <=> Mk(h, B, e) /\ e # m
    <2>1. \A e : e \in 0 .. B - 4 => e \in 0 .. B - 3
      BY <1>1
    <2>2. QED
      BY <1>5, <2>1 DEF Mk
  <1>7. \A o : Start(g, B, o) <=> Start(h, B, o) /\ o # m + 4
    <2>1. ASSUME NEW o \in 0 .. B - 1, o >= 4
          PROVE  Tri(g, o - 4) <=> Tri(h, o - 4) /\ o # m + 4
      <3>1. o - 4 \in 0 .. B - 3 /\ (o - 4 = m <=> o = m + 4)
        BY <1>1, <2>1
      <3>2. QED
        BY <1>5, <3>1
    <2>2. m + 4 # 0
      BY <1>1
    <2>3. QED
      BY <2>1, <2>2 DEF Start
  <1>8. Laid(g, B)
    <2>1. g[0] = h[0] /\ g[0] \in Mark
      <3>1. 0 \in 0 .. B - 1 /\ 0 \notin m .. m + 3
        BY <1>1
      <3>2. QED
        BY <1>2, <3>1 DEF Laid
    <2>2. Tri(g, B - 4)
      <3>1. B - 4 # m /\ B - 4 \in 0 .. B - 3
        BY <1>1
      <3>2. QED
        BY <1>5, <3>1 DEF Laid
    <2>3. ASSUME NEW e \in 0 .. B - 3, Tri(g, e)
          PROVE  /\ e + 3 < B /\ g[e + 3] = "esc"
                 /\ e + 4 < B => g[e + 4] \in Mark
      <3>1. Tri(h, e) /\ e # m
        BY <1>5, <2>3
      <3>2. /\ e + 3 < B /\ h[e + 3] = "esc"
            /\ e + 4 < B => h[e + 4] \in Mark
        BY <3>1 DEF Laid
      <3>3. e + 3 \notin m .. m + 3
        <4>1. Mk(h, B, e)
          BY <1>1, <3>1, <3>2 DEF Mk
        <4>2. e < m => m >= e + 5
          BY <4>1, Apart
        <4>3. QED
          BY <1>1, <3>1, <4>2
      <3>4. e + 4 < B => e + 4 \notin m .. m + 3
        <4>1. e + 4 < B => h[e + 4] \in Mark
          BY <3>2
        <4>2. \A i \in m .. m + 3 : h[i] \notin Mark
          BY <1>1, <1>3, <1>4
        <4>3. QED
          BY <4>1, <4>2
      <3>5. e + 3 \in 0 .. B - 1 /\ (e + 4 < B => e + 4 \in 0 .. B - 1)
        BY <1>1, <3>2
      <3>6. g[e + 3] = h[e + 3] /\ (e + 4 < B => g[e + 4] = h[e + 4])
        BY <1>2, <3>3, <3>4, <3>5
      <3>7. QED
        BY <3>2, <3>6
    <2>4. QED
      BY <1>1, <1>2, <2>1, <2>2, <2>3 DEF Laid
  <1>9. QED
    BY <1>2, <1>6, <1>7, <1>8

(* A mark changed.                                                         *)
LEMMA MarkedLaid ==
  ASSUME NEW h, NEW B, Laid(h, B), NEW o, Start(h, B, o), NEW x \in Mark,
         NEW g, g = Write(h, o, <<x>>)
  PROVE  /\ Laid(g, B)
         /\ \A e : Mk(g, B, e) <=> Mk(h, B, e)
         /\ \A p : Start(g, B, p) <=> Start(h, B, p)
         /\ \A i \in 0 .. B - 1 : g[i] = IF i = o THEN x ELSE h[i]
  <1>1. B \in Nat /\ B >= 5 /\ o \in Nat /\ o <= B - 5 /\ h[o] \in Mark /\ OfBytes(h, B)
    BY Apart DEF Laid
  <1>2. /\ OfBytes(g, B)
        /\ \A i \in 0 .. B - 1 : g[i] = IF i = o THEN x ELSE h[i]
    BY <1>1, BytesHold, ByteWritten
  <1>3. "esc" \notin Mark /\ "bar" \notin Mark
    BY BytesDiffer
  <1>4. ASSUME NEW e \in 0 .. B - 3 PROVE Tri(g, e) <=> Tri(h, e)
    <2>1. e \in 0 .. B - 1 /\ e + 1 \in 0 .. B - 1 /\ e + 2 \in 0 .. B - 1
      BY <1>1
    <2>2. QED
      BY <1>1, <1>2, <1>3, <2>1 DEF Tri
  <1>5. \A e : Mk(g, B, e) <=> Mk(h, B, e)
    <2>1. \A e : e \in 0 .. B - 4 => e \in 0 .. B - 3
      BY <1>1
    <2>2. QED
      BY <1>4, <2>1 DEF Mk
  <1>6. \A p : Start(g, B, p) <=> Start(h, B, p)
    <2>1. \A p \in 0 .. B - 1 : p >= 4 => p - 4 \in 0 .. B - 3
      BY <1>1
    <2>2. QED
      BY <1>4, <2>1 DEF Start
  <1>7. Laid(g, B)
    <2>1. g[0] \in Mark
      <3>1. 0 \in 0 .. B - 1
        BY <1>1
      <3>2. QED
        BY <1>2, <3>1 DEF Laid
    <2>2. Tri(g, B - 4)
      <3>1. B - 4 \in 0 .. B - 3
        BY <1>1
      <3>2. QED
        BY <1>4, <3>1 DEF Laid
    <2>3. ASSUME NEW e \in 0 .. B - 3, Tri(g, e)
          PROVE  /\ e + 3 < B /\ g[e + 3] = "esc"
                 /\ e + 4 < B => g[e + 4] \in Mark
      <3>1. /\ e + 3 < B /\ h[e + 3] = "esc"
            /\ e + 4 < B => h[e + 4] \in Mark
        BY <1>4, <2>3 DEF Laid
      <3>2. e + 3 \in 0 .. B - 1 /\ (e + 4 < B => e + 4 \in 0 .. B - 1)
        BY <1>1, <3>1
      <3>3. e + 3 # o
        BY <1>1, <1>3, <3>1
      <3>4. QED
        BY <1>2, <3>1, <3>2, <3>3
    <2>4. QED
      BY <1>1, <1>2, <2>1, <2>2, <2>3 DEF Laid
  <1>8. QED
    BY <1>2, <1>5, <1>6, <1>7

-----------------------------------------------------------------------------
(***************************************************************************)
(* A block put into a heap.                                                *)
(***************************************************************************)

(* A used block at o of s bytes x, and its end marker.                     *)
Block(g, o, s, x) ==
  /\ g[o] = USED
  /\ \A i \in o + 1 .. o + s : g[i] = x
  /\ Tri(g, o + s + 1) /\ g[o + s + 4] = "esc"

(* Its bytes are taken for no other marker.                                *)
LEMMA OneEnd ==
  ASSUME NEW g, NEW o \in Nat, NEW s \in Nat, NEW x, Block(g, o, s, x),
         NEW e \in Int, e + 2 >= o, e <= o + s + 3, Tri(g, e)
  PROVE  e = o + s + 1
  <1>1. "esc" # "bar" /\ g[o] # "esc" /\ g[o] # "bar"
    BY BytesDiffer, BytesHold DEF Block
  <1>2. /\ g[o + s + 1] = "esc" /\ g[o + s + 2] = "bar" /\ g[o + s + 3] = "bar" /\ g[o + s + 4] = "esc"
    <2>1. (o + s + 1) + 1 = o + s + 2 /\ (o + s + 1) + 2 = o + s + 3
      OBVIOUS
    <2>2. QED
      BY <2>1 DEF Block, Tri
  <1>3. g[e] = "esc" /\ g[e + 1] = "bar" /\ g[e + 2] = "bar"
    BY DEF Tri
  <1>4. e # o /\ e + 1 # o /\ e + 2 # o
    BY <1>1, <1>3
  <1>5. e # o + s + 2 /\ e # o + s + 3
    <2>1. e # o + s + 2
      BY <1>1, <1>2, <1>3
    <2>2. e # o + s + 3
      BY <1>1, <1>2, <1>3
    <2>3. QED
      BY <2>1, <2>2
  <1>6. ~(e \in o + 1 .. o + s)
    <2>1. SUFFICES ASSUME e \in o + 1 .. o + s PROVE FALSE
      OBVIOUS
    <2>2. g[e] = x
      BY <2>1 DEF Block
    <2>3. CASE e + 1 \in o + 1 .. o + s
      <3>1. g[e + 1] = x
        BY <2>3 DEF Block
      <3>2. QED
        BY <1>1, <1>3, <2>2, <3>1
    <2>4. CASE e + 1 = o + s + 1
      BY <1>1, <1>2, <1>3, <2>4
    <2>5. QED
      BY <2>1, <2>3, <2>4
  <1>7. QED
    BY <1>4, <1>5, <1>6

(* A block at the end of heap g: after what is left of h, if anything is.  *)
AtEnd(h, B, o, s, x, g, C) ==
  /\ C = o + s + 5 /\ o \in Nat /\ s \in Nat
  /\ o = 0 \/ (Laid(h, B) /\ o <= B /\ o >= 4 /\ Mk(h, B, o - 4))
  /\ OfBytes(g, C) /\ Block(g, o, s, x)
  /\ \A i \in 0 .. o - 1 : g[i] = h[i]

(* Such a heap.                                                            *)
LEMMA PutAtEnd ==
  ASSUME NEW h, NEW B, NEW o, NEW s, NEW x, NEW g, NEW C, AtEnd(h, B, o, s, x, g, C)
  PROVE  /\ Laid(g, C)
         /\ \A e : Mk(g, C, e) <=> (o # 0 /\ Mk(h, B, e) /\ e + 4 <= o) \/ e = o + s + 1
         /\ \A p : Start(g, C, p) <=> p = o \/ (o # 0 /\ Start(h, B, p) /\ p < o)
  <1> USE DEF AtEnd
  <1>1. C \in Nat /\ C >= 5 /\ g[o] \in Mark
    BY BytesHold DEF Block
  <1>2. o # 0 => B \in Nat /\ B >= 5 /\ o >= 5 /\ Laid(h, B) /\ Mk(h, B, o - 4)
    BY Apart
  <1>3. ASSUME NEW e \in 0 .. C - 3
        PROVE  Tri(g, e) <=> (o # 0 /\ Mk(h, B, e) /\ e + 4 <= o) \/ e = o + s + 1
    <2>1. e \in Int /\ e <= o + s + 2 /\ e >= 0
      BY <1>1
    <2>2. Tri(g, o + s + 1)
      BY DEF Block
    <2>3. CASE e + 2 >= o
      <3>1. Tri(g, e) => e = o + s + 1
        BY <2>1, <2>3, OneEnd
      <3>2. ~(Mk(h, B, e) /\ e + 4 <= o)
        BY <2>1, <2>3
      <3>3. QED
        BY <2>2, <3>1, <3>2
    <2>4. CASE e + 2 < o
      <3>1. e \in 0 .. o - 1 /\ e + 1 \in 0 .. o - 1 /\ e + 2 \in 0 .. o - 1 /\ e # o + s + 1 /\ o # 0
        BY <2>1, <2>4
      <3>2. Tri(g, e) <=> Tri(h, e)
        BY <3>1 DEF Tri
      <3>3. Tri(h, e) <=> Mk(h, B, e)
        <4>1. Tri(h, e) => e + 3 < B
          <5>1. e \in 0 .. B - 3
            BY <1>2, <2>1, <2>4, <3>1
          <5>2. QED
            BY <1>2, <3>1, <5>1 DEF Laid
        <4>2. QED
          BY <1>2, <2>1, <3>1, <4>1 DEF Mk
      <3>4. Mk(h, B, e) => e + 4 <= o
        <4>1. e > o - 4 => (Mk(h, B, e) => e >= (o - 4) + 5)
          BY <1>2, <3>1, Apart
        <4>2. QED
          BY <2>1, <2>4, <4>1
      <3>5. QED
        BY <3>1, <3>2, <3>3, <3>4
    <2>5. QED
      BY <2>1, <2>3, <2>4
  <1>4. \A e : Mk(g, C, e) <=> (o # 0 /\ Mk(h, B, e) /\ e + 4 <= o) \/ e = o + s + 1
    <2>1. ASSUME NEW e, (o # 0 /\ Mk(h, B, e) /\ e + 4 <= o) \/ e = o + s + 1 PROVE e \in 0 .. C - 4
      <3>1. CASE o # 0 /\ Mk(h, B, e) /\ e + 4 <= o
        BY <1>1, <1>2, <3>1 DEF Mk
      <3>2. CASE e = o + s + 1
        BY <3>2
      <3>3. QED
        BY <2>1, <3>1, <3>2
    <2>2. \A e : e \in 0 .. C - 4 => e \in 0 .. C - 3
      BY <1>1
    <2>3. QED
      BY <1>3, <2>1, <2>2 DEF Mk
  <1>5. ASSUME NEW p
        PROVE  Start(g, C, p) <=> p = o \/ (o # 0 /\ Start(h, B, p) /\ p < o)
    <2>1. CASE p = 0
      <3>1. Start(g, C, p)
        BY <1>1, <2>1 DEF Start
      <3>2. o # 0 => Start(h, B, p) /\ p < o
        BY <1>2, <2>1 DEF Start
      <3>3. QED
        BY <2>1, <3>1, <3>2
    <2>2. CASE p # 0 /\ p \in 0 .. C - 1 /\ p >= 4
      <3>1. p \in Nat /\ p - 4 \in 0 .. C - 3 /\ p < C
        BY <1>1, <2>2
      <3>2. Start(g, C, p) <=> Tri(g, p - 4)
        BY <2>2 DEF Start
      <3>3. Tri(g, p - 4) <=> (o # 0 /\ Mk(h, B, p - 4) /\ (p - 4) + 4 <= o) \/ p - 4 = o + s + 1
        BY <1>3, <3>1
      <3>4. p - 4 # o + s + 1 /\ (p - 4) + 4 = p
        BY <3>1
      <3>5. o # 0 /\ p < o => (Start(h, B, p) <=> Mk(h, B, p - 4))
        <4>1. SUFFICES ASSUME o # 0, p < o PROVE Start(h, B, p) <=> Mk(h, B, p - 4)
          OBVIOUS
        <4>2. p \in 0 .. B - 1 /\ p - 4 \in 0 .. B - 4
          BY <1>2, <2>2, <3>1, <4>1
        <4>3. QED
          BY <2>2, <4>2 DEF Start, Mk
      <3>6. p = o => o # 0 /\ Mk(h, B, p - 4)
        BY <1>2, <2>2
      <3>7. QED
        BY <3>1, <3>2, <3>3, <3>4, <3>5, <3>6
    <2>3. CASE p # 0 /\ ~(p \in 0 .. C - 1 /\ p >= 4)
      <3>1. ~Start(g, C, p)
        BY <2>3 DEF Start
      <3>2. p # o
        BY <1>1, <1>2, <2>3
      <3>3. ~(o # 0 /\ Start(h, B, p) /\ p < o)
        <4>1. SUFFICES ASSUME o # 0, Start(h, B, p), p < o PROVE FALSE
          OBVIOUS
        <4>2. p \in 0 .. B - 1 /\ p >= 4
          BY <2>3, <4>1 DEF Start
        <4>3. p \in 0 .. C - 1
          BY <1>1, <1>2, <4>1, <4>2
        <4>4. QED
          BY <2>3, <4>2, <4>3
      <3>4. QED
        BY <3>1, <3>2, <3>3
    <2>4. QED
      BY <2>1, <2>2, <2>3
  <1>6. Laid(g, C)
    <2>1. g[0] \in Mark
      <3>1. CASE o = 0
        BY <1>1, <3>1
      <3>2. CASE o # 0
        <4>1. 0 \in 0 .. o - 1
          BY <3>2
        <4>2. QED
          BY <1>2, <3>2, <4>1 DEF Laid
      <3>3. QED
        BY <3>1, <3>2
    <2>2. Tri(g, C - 4)
      <3>1. C - 4 = o + s + 1
        OBVIOUS
      <3>2. QED
        BY <3>1 DEF Block
    <2>3. ASSUME NEW e \in 0 .. C - 3, Tri(g, e)
          PROVE  /\ e + 3 < C /\ g[e + 3] = "esc"
                 /\ e + 4 < C => g[e + 4] \in Mark
      <3>1. CASE e = o + s + 1
        <4>1. e + 3 = o + s + 4 /\ ~(e + 4 < C) /\ e + 3 < C
          BY <3>1
        <4>2. QED
          BY <4>1 DEF Block
      <3>2. CASE o # 0 /\ Mk(h, B, e) /\ e + 4 <= o
        <4>1. e \in 0 .. B - 3 /\ e + 4 <= B /\ Tri(h, e) /\ e \in Nat
          BY <1>2, <3>2 DEF Mk
        <4>2. h[e + 3] = "esc" /\ (e + 4 < B => h[e + 4] \in Mark)
          BY <1>2, <3>2, <4>1 DEF Laid
        <4>3. e + 3 \in 0 .. o - 1 /\ e + 3 < C
          BY <3>2, <4>1
        <4>4. CASE e + 4 = o
          BY <1>1, <4>2, <4>3, <4>4
        <4>5. CASE e + 4 # o
          <5>1. e + 4 \in 0 .. o - 1 /\ e + 4 < B
            BY <1>2, <3>2, <4>1, <4>5
          <5>2. QED
            BY <4>2, <4>3, <5>1
        <4>6. QED
          BY <4>4, <4>5
      <3>3. QED
        BY <1>3, <2>3, <3>1, <3>2
    <2>4. QED
      BY <1>1, <2>1, <2>2, <2>3 DEF Laid
  <1>7. QED
    BY <1>4, <1>5, <1>6

(* A block in the free block at o, which is longer: the rest of that is a  *)
(* free block.                                                             *)
LEMMA PutInside ==
  ASSUME NEW h, NEW B, Laid(h, B), NEW o, Start(h, B, o), NEW z, FirstAfter(h, B, o, z),
         NEW s \in Nat, o + s + 5 < z, NEW x, NEW g,
         OfBytes(g, B), Block(g, o, s, x), g[o + s + 5] = FREE,
         \A i \in 0 .. B - 1 : i < o \/ i > o + s + 5 => g[i] = h[i]
  PROVE  /\ Laid(g, B)
         /\ \A e : Mk(g, B, e) <=> Mk(h, B, e) \/ e = o + s + 1
         /\ \A p : Start(g, B, p) <=> Start(h, B, p) \/ p = o + s + 5
  <1> DEFINE n == o + s + 5
  <1>1. /\ B \in Nat /\ B >= 5 /\ o \in Nat /\ z \in Nat /\ z + 4 <= B /\ g[o] \in Mark
        /\ n \in Nat /\ n < z /\ g[n] \in Mark /\ h[o] \in Mark
    BY Apart, BytesHold DEF Block, FirstAfter
  <1>2. "esc" # "bar" /\ "esc" \notin Mark /\ "bar" \notin Mark
    BY BytesDiffer
  <1>3. ASSUME NEW e, Mk(h, B, e) PROVE e + 4 <= o \/ e > n
    <2>1. e > o \/ e + 4 <= o
      BY <1>3, Apart
    <2>2. e > o => e >= z
      BY <1>3 DEF FirstAfter
    <2>3. e \in Nat
      BY <1>3, Apart
    <2>4. QED
      BY <1>1, <2>1, <2>2, <2>3
  <1>4. ASSUME NEW e \in 0 .. B - 3
        PROVE  Tri(g, e) <=> Tri(h, e) \/ e = o + s + 1
    <2>1. e \in Int /\ e >= 0 /\ e \in 0 .. B - 1 /\ e + 1 \in 0 .. B - 1 /\ e + 2 \in 0 .. B - 1
      BY <1>1
    <2>2. CASE e + 2 < o \/ e > n
      <3>1. g[e] = h[e] /\ g[e + 1] = h[e + 1] /\ g[e + 2] = h[e + 2] /\ e # o + s + 1
        BY <1>1, <2>1, <2>2
      <3>2. QED
        BY <3>1 DEF Tri
    <2>3. CASE e + 2 >= o /\ e <= n
      <3>1. Tri(g, o + s + 1)
        BY DEF Block
      <3>2. Tri(g, e) => e = o + s + 1
        <4>1. e <= o + s + 3 => (Tri(g, e) => e = o + s + 1)
          BY <1>1, <2>1, <2>3, OneEnd
        <4>2. e = o + s + 4 => ~Tri(g, e)
          <5>1. e = o + s + 4 => e + 1 = n
            BY <1>1
          <5>2. QED
            BY <1>1, <1>2, <5>1 DEF Tri
        <4>3. e = n => ~Tri(g, e)
          BY <1>1, <1>2 DEF Tri
        <4>4. QED
          BY <1>1, <2>1, <2>3, <4>1, <4>2, <4>3
      <3>3. ~Tri(h, e)
        <4>1. SUFFICES ASSUME Tri(h, e) PROVE FALSE
          OBVIOUS
        <4>2. e + 3 < B
          BY <4>1 DEF Laid
        <4>3. Mk(h, B, e)
          BY <1>1, <2>1, <4>1, <4>2 DEF Mk
        <4>4. QED
          BY <1>1, <1>3, <2>1, <2>3, <4>3
      <3>4. QED
        BY <3>1, <3>2, <3>3
    <2>4. QED
      BY <1>1, <2>1, <2>2, <2>3
  <1>5. \A e : Mk(g, B, e) <=> Mk(h, B, e) \/ e = o + s + 1
    <2>1. o + s + 1 \in 0 .. B - 4 /\ \A e : e \in 0 .. B - 4 => e \in 0 .. B - 3
      BY <1>1
    <2>2. QED
      BY <1>4, <2>1 DEF Mk
  <1>6. \A p : Start(g, B, p) <=> Start(h, B, p) \/ p = o + s + 5
    <2>1. ASSUME NEW p \in 0 .. B - 1, p >= 4
          PROVE  Tri(g, p - 4) <=> Tri(h, p - 4) \/ p = n
      <3>1. p - 4 \in 0 .. B - 3 /\ (p - 4 = o + s + 1 <=> p = n)
        BY <1>1, <2>1
      <3>2. QED
        BY <1>4, <3>1
    <2>2. n \in 0 .. B - 1 /\ n >= 4
      BY <1>1
    <2>3. QED
      BY <2>1, <2>2 DEF Start
  <1>7. Laid(g, B)
    <2>1. g[0] \in Mark
      <3>1. CASE o = 0
        BY <1>1, <3>1
      <3>2. CASE o # 0
        <4>1. 0 \in 0 .. B - 1 /\ 0 < o
          BY <1>1, <3>2
        <4>2. QED
          BY <4>1 DEF Laid
      <3>3. QED
        BY <3>1, <3>2
    <2>2. Tri(g, B - 4)
      <3>1. B - 4 \in 0 .. B - 3
        BY <1>1
      <3>2. QED
        BY <1>4, <3>1 DEF Laid
    <2>3. ASSUME NEW e \in 0 .. B - 3, Tri(g, e)
          PROVE  /\ e + 3 < B /\ g[e + 3] = "esc"
                 /\ e + 4 < B => g[e + 4] \in Mark
      <3>1. CASE e = o + s + 1
        <4>1. e + 3 = o + s + 4 /\ e + 4 = n /\ e + 3 < B
          BY <1>1, <3>1
        <4>2. g[o + s + 4] = "esc"
          BY DEF Block
        <4>3. QED
          BY <1>1, <4>1, <4>2
      <3>2. CASE Tri(h, e)
        <4>1. /\ e + 3 < B /\ h[e + 3] = "esc"
              /\ e + 4 < B => h[e + 4] \in Mark
          BY <3>2 DEF Laid
        <4>2. Mk(h, B, e) /\ e \in Nat
          BY <1>1, <3>2, <4>1 DEF Mk
        <4>3. e + 4 <= o \/ e > n
          BY <1>3, <4>2
        <4>4. g[e + 3] = h[e + 3]
          <5>1. e + 3 \in 0 .. B - 1 /\ (e + 3 < o \/ e + 3 > o + s + 5)
            BY <1>1, <4>1, <4>2, <4>3
          <5>2. QED
            BY <5>1
        <4>5. e + 4 < B => g[e + 4] \in Mark
          <5>1. CASE e + 4 = o
            BY <1>1, <5>1
          <5>2. CASE e + 4 # o
            <6>1. e + 4 < B => e + 4 \in 0 .. B - 1 /\ (e + 4 < o \/ e + 4 > o + s + 5)
              BY <1>1, <4>2, <4>3, <5>2
            <6>2. QED
              BY <4>1, <6>1
          <5>3. QED
            BY <5>1, <5>2
        <4>6. QED
          BY <4>1, <4>4, <4>5
      <3>3. QED
        BY <1>4, <2>3, <3>1, <3>2
    <2>4. QED
      BY <1>1, <2>1, <2>2, <2>3 DEF Laid
  <1>8. QED
    BY <1>5, <1>6, <1>7

-----------------------------------------------------------------------------
(***************************************************************************)
(* What clients hold, and what a call does to it.                          *)
(***************************************************************************)

(* The used blocks of h are those of L, with room for what clients wrote,  *)
(* which is there.                                                         *)
Held(h, B, L) ==
  /\ \A b \in L : /\ b.ptr \in Nat /\ b.size \in Request \cup {0} /\ b.letter \in Letter
                  /\ Start(h, B, b.ptr - 1) /\ h[b.ptr - 1] = USED
  /\ \A b \in L : \A e : Mk(h, B, e) /\ e >= b.ptr => e >= b.ptr + b.size
  /\ \A b \in L : \A i \in b.ptr .. b.ptr + b.size - 1 : h[i] = b.letter
  /\ \A o : Start(h, B, o) /\ h[o] = USED => \E b \in L : b.ptr = o + 1
  /\ \A b, c \in L : b.ptr = c.ptr => b = c

(* Sizes are numbers.                                                      *)
LEMMA SizesAre == \A n \in Request \cup {0} : n \in Nat
  BY RequestsAreSizes

(* Where a client's bytes are: inside its block, away from other blocks.   *)
LEMMA Away ==
  ASSUME NEW h, NEW B, NEW L, Laid(h, B), Held(h, B, L), NEW b \in L,
         NEW i \in b.ptr .. b.ptr + b.size - 1
  PROVE  /\ b.ptr \in Nat /\ b.ptr >= 1 /\ b.size \in Nat /\ i \in Nat /\ i >= b.ptr /\ i < B - 4
         /\ \A e : Mk(h, B, e) => i < e \/ i > e + 3
         /\ \A o : Start(h, B, o) /\ o > b.ptr - 1 => i < o - 4
         /\ \A o, z : Start(h, B, o) /\ o < b.ptr - 1 /\ FirstAfter(h, B, o, z) => i > z + 4
  <1> DEFINE p == b.ptr - 1
  <1>1. b.ptr \in Nat /\ b.size \in Nat /\ Start(h, B, p)
    <2>1. b.ptr \in Nat /\ b.size \in Request \cup {0} /\ Start(h, B, p)
      BY DEF Held
    <2>2. QED
      BY <2>1, SizesAre
  <1>2. B \in Nat /\ B >= 5 /\ p \in Nat /\ p <= B - 5 /\ Mk(h, B, B - 4)
    BY <1>1, Apart
  <1>3. \A e : Mk(h, B, e) /\ e >= b.ptr => e >= b.ptr + b.size
    BY DEF Held
  <1>4. i \in Nat /\ i >= b.ptr /\ i < B - 4
    <2>1. i \in Nat /\ i >= b.ptr /\ i < b.ptr + b.size
      BY <1>1
    <2>2. B - 4 >= b.ptr
      BY <1>1, <1>2
    <2>3. B - 4 >= b.ptr + b.size
      BY <1>2, <1>3, <2>2
    <2>4. QED
      BY <1>1, <1>2, <2>1, <2>3
  <1>5. ASSUME NEW e, Mk(h, B, e) PROVE i < e \/ i > e + 3
    <2>1. e \in Nat /\ (e > p \/ e + 4 <= p)
      BY <1>1, <1>5, Apart
    <2>2. e > p => e >= b.ptr + b.size
      BY <1>1, <1>3, <1>5, <2>1
    <2>3. QED
      BY <1>1, <1>4, <2>1, <2>2
  <1>6. ASSUME NEW o, Start(h, B, o), o > p PROVE i < o - 4
    <2>1. o \in Nat /\ o <= B - 5 /\ o # 0
      BY <1>2, <1>6, Apart
    <2>2. o >= 4 /\ Tri(h, o - 4)
      BY <1>6, <2>1 DEF Start
    <2>3. Mk(h, B, o - 4)
      BY <1>2, <2>1, <2>2 DEF Mk
    <2>4. o - 4 > p \/ (o - 4) + 4 <= p
      BY <1>1, <2>3, Apart
    <2>5. o - 4 >= b.ptr
      BY <1>1, <1>2, <1>6, <2>1, <2>4
    <2>6. o - 4 >= b.ptr + b.size
      BY <1>3, <2>3, <2>5
    <2>7. QED
      BY <1>1, <2>1, <2>6
  <1>7. ASSUME NEW o, NEW z, Start(h, B, o), o < p, FirstAfter(h, B, o, z) PROVE i > z + 4
    <2>1. o \in Nat /\ z \in Nat
      BY <1>7, Apart DEF FirstAfter
    <2>2. p >= 4 /\ Tri(h, p - 4)
      BY <1>1, <1>2, <1>7, <2>1 DEF Start
    <2>3. Mk(h, B, p - 4)
      BY <1>2, <2>2 DEF Mk
    <2>4. p - 4 > o \/ (p - 4) + 4 <= o
      BY <1>7, <2>3, Apart
    <2>5. p - 4 > o
      BY <1>2, <1>7, <2>1, <2>4
    <2>6. p - 4 >= z
      BY <1>7, <2>3, <2>5 DEF FirstAfter
    <2>7. QED
      BY <1>1, <1>2, <1>4, <2>1, <2>6
  <1>8. QED
    BY <1>1, <1>2, <1>4, <1>5, <1>6, <1>7

(* A block freed.                                                          *)
LEMMA FreedHeld ==
  ASSUME NEW h, NEW B, NEW L, Laid(h, B), Held(h, B, L), NEW b \in L,
         NEW g, g = Write(h, b.ptr - 1, <<FREE>>)
  PROVE  Held(g, B, L \ {b})
  <1> DEFINE o == b.ptr - 1
  <1>1. b.ptr \in Nat /\ Start(h, B, o) /\ h[o] = USED
    BY DEF Held
  <1>2. /\ Laid(g, B)
        /\ \A e : Mk(g, B, e) <=> Mk(h, B, e)
        /\ \A p : Start(g, B, p) <=> Start(h, B, p)
        /\ \A i \in 0 .. B - 1 : g[i] = IF i = o THEN FREE ELSE h[i]
    BY <1>1, BytesHold, MarkedLaid
  <1>3. \A p : Start(h, B, p) => p \in 0 .. B - 1
    BY DEF Start
  <1>4. ASSUME NEW c \in L \ {b}
        PROVE  /\ c.ptr \in Nat /\ c.size \in Request \cup {0} /\ c.letter \in Letter
               /\ Start(g, B, c.ptr - 1) /\ g[c.ptr - 1] = USED
               /\ \A e : Mk(g, B, e) /\ e >= c.ptr => e >= c.ptr + c.size
               /\ \A i \in c.ptr .. c.ptr + c.size - 1 : g[i] = c.letter
    <2>1. /\ c.ptr \in Nat /\ c.size \in Request \cup {0} /\ c.letter \in Letter
          /\ Start(h, B, c.ptr - 1) /\ h[c.ptr - 1] = USED /\ c.ptr # b.ptr
          /\ \A e : Mk(h, B, e) /\ e >= c.ptr => e >= c.ptr + c.size
          /\ \A i \in c.ptr .. c.ptr + c.size - 1 : h[i] = c.letter
      BY DEF Held
    <2>2. c.ptr - 1 # o
      BY <1>1, <2>1
    <2>3. g[c.ptr - 1] = USED
      BY <1>2, <1>3, <2>1, <2>2
    <2>4. ASSUME NEW i \in c.ptr .. c.ptr + c.size - 1 PROVE g[i] = c.letter
      <3>1. i \in Nat /\ i < B - 4 /\ i >= c.ptr
        BY Away
      <3>2. i # o
        <4>1. o > c.ptr - 1 => i < o - 4
          BY <1>1, Away
        <4>2. QED
          BY <1>1, <2>1, <2>2, <3>1, <4>1
      <3>3. i \in 0 .. B - 1
        BY <3>1, Apart
      <3>4. QED
        BY <1>2, <2>1, <3>2, <3>3
    <2>5. QED
      BY <1>2, <2>1, <2>3, <2>4
  <1>5. ASSUME NEW p, Start(g, B, p), g[p] = USED PROVE \E c \in L \ {b} : c.ptr = p + 1
    <2>1. Start(h, B, p) /\ p \in 0 .. B - 1 /\ p # o /\ h[p] = USED /\ p \in Nat
      BY <1>2, <1>3, <1>5, BytesDiffer, Apart
    <2>2. PICK c \in L : c.ptr = p + 1
      BY <2>1 DEF Held
    <2>3. c # b
      BY <1>1, <2>1, <2>2
    <2>4. QED
      BY <2>2, <2>3
  <1>6. \A c, d \in L \ {b} : c.ptr = d.ptr => c = d
    BY DEF Held
  <1>7. QED
    BY <1>4, <1>5, <1>6 DEF Held

(* A free block joined to the one before it.                               *)
LEMMA JoinedHeld ==
  ASSUME NEW h, NEW B, NEW L, Laid(h, B), Held(h, B, L), NEW m, Mk(h, B, m), m + 4 < B,
         h[m + 4] = FREE, NEW g, g = Joined(h, m + 4)
  PROVE  Held(g, B, L)
  <1>1. /\ Laid(g, B)
        /\ \A e : Mk(g, B, e) <=> Mk(h, B, e) /\ e # m
        /\ \A o : Start(g, B, o) <=> Start(h, B, o) /\ o # m + 4
        /\ \A i \in 0 .. B - 1 : g[i] = IF i \in m .. m + 3 THEN NUL ELSE h[i]
    BY JoinedLaid
  <1>2. m \in Nat /\ B \in Nat /\ USED # FREE
    BY Apart, BytesDiffer
  <1>3. ASSUME NEW o, Start(h, B, o) PROVE o \in 0 .. B - 1 /\ o \notin m .. m + 3
    <2>1. o \in Nat /\ o <= B - 5 /\ (m > o \/ m + 4 <= o)
      BY <1>3, Apart
    <2>2. QED
      BY <1>2, <2>1
  <1>4. ASSUME NEW c \in L
        PROVE  /\ c.ptr \in Nat /\ c.size \in Request \cup {0} /\ c.letter \in Letter
               /\ Start(g, B, c.ptr - 1) /\ g[c.ptr - 1] = USED
               /\ \A e : Mk(g, B, e) /\ e >= c.ptr => e >= c.ptr + c.size
               /\ \A i \in c.ptr .. c.ptr + c.size - 1 : g[i] = c.letter
    <2>1. /\ c.ptr \in Nat /\ c.size \in Request \cup {0} /\ c.letter \in Letter
          /\ Start(h, B, c.ptr - 1) /\ h[c.ptr - 1] = USED
          /\ \A e : Mk(h, B, e) /\ e >= c.ptr => e >= c.ptr + c.size
          /\ \A i \in c.ptr .. c.ptr + c.size - 1 : h[i] = c.letter
      BY DEF Held
    <2>2. c.ptr - 1 # m + 4
      BY <1>2, <2>1
    <2>3. g[c.ptr - 1] = USED
      BY <1>1, <1>3, <2>1
    <2>4. ASSUME NEW i \in c.ptr .. c.ptr + c.size - 1 PROVE g[i] = c.letter
      <3>1. i \in Nat /\ i < B - 4 /\ (i < m \/ i > m + 3)
        BY Away
      <3>2. i \in 0 .. B - 1 /\ i \notin m .. m + 3
        BY <1>2, <3>1
      <3>3. QED
        BY <1>1, <2>1, <3>2
    <2>5. QED
      BY <1>1, <2>1, <2>2, <2>3, <2>4
  <1>5. ASSUME NEW o, Start(g, B, o), g[o] = USED PROVE \E c \in L : c.ptr = o + 1
    <2>1. Start(h, B, o) /\ h[o] = USED
      BY <1>1, <1>3, <1>5
    <2>2. QED
      BY <2>1 DEF Held
  <1>6. \A c, d \in L : c.ptr = d.ptr => c = d
    BY DEF Held
  <1>7. QED
    BY <1>4, <1>5, <1>6 DEF Held

(* A block put in the gap.                                                 *)
LEMMA InsideHeld ==
  ASSUME NEW h, NEW B, NEW L, Laid(h, B), Held(h, B, L),
         NEW o, Start(h, B, o), h[o] = FREE, NEW z, FirstAfter(h, B, o, z),
         NEW s \in Request \cup {0}, o + s + 5 < z, NEW x \in Letter, NEW g,
         OfBytes(g, B), Block(g, o, s, x), g[o + s + 5] = FREE,
         \A i \in 0 .. B - 1 : i < o \/ i > o + s + 5 => g[i] = h[i]
  PROVE  Held(g, B, L \cup {[ptr |-> o + 1, size |-> s, letter |-> x]})
  <1> DEFINE new == [ptr |-> o + 1, size |-> s, letter |-> x]
  <1>1. s \in Nat
    BY SizesAre
  <1>2. /\ Laid(g, B)
        /\ \A e : Mk(g, B, e) <=> Mk(h, B, e) \/ e = o + s + 1
        /\ \A p : Start(g, B, p) <=> Start(h, B, p) \/ p = o + s + 5
    BY <1>1, PutInside
  <1>3. B \in Nat /\ o \in Nat /\ z \in Nat /\ z + 4 <= B /\ USED # FREE
    BY Apart, BytesDiffer DEF FirstAfter
  <1>4. ASSUME NEW p, Start(h, B, p) PROVE p \in 0 .. B - 1 /\ (p < o \/ p = o \/ p > o + s + 5)
    <2>1. p \in Nat /\ p <= B - 5
      BY <1>4, Apart
    <2>2. CASE p > o
      <3>1. p >= 4 /\ Mk(h, B, p - 4)
        BY <1>3, <1>4, <2>1, <2>2 DEF Start, Mk
      <3>2. p - 4 > o \/ (p - 4) + 4 <= o
        BY <3>1, Apart
      <3>3. p - 4 >= z
        BY <1>3, <2>1, <2>2, <3>1, <3>2 DEF FirstAfter
      <3>4. QED
        BY <1>1, <1>3, <2>1, <3>3
    <2>3. QED
      BY <1>3, <2>1, <2>2
  <1>5. ASSUME NEW c \in L
        PROVE  /\ c.ptr \in Nat /\ c.size \in Request \cup {0} /\ c.letter \in Letter
               /\ Start(g, B, c.ptr - 1) /\ g[c.ptr - 1] = USED /\ c.ptr # o + 1
               /\ \A e : Mk(g, B, e) /\ e >= c.ptr => e >= c.ptr + c.size
               /\ \A i \in c.ptr .. c.ptr + c.size - 1 : g[i] = c.letter
    <2>1. /\ c.ptr \in Nat /\ c.size \in Request \cup {0} /\ c.letter \in Letter
          /\ Start(h, B, c.ptr - 1) /\ h[c.ptr - 1] = USED
          /\ \A e : Mk(h, B, e) /\ e >= c.ptr => e >= c.ptr + c.size
          /\ \A i \in c.ptr .. c.ptr + c.size - 1 : h[i] = c.letter
      BY DEF Held
    <2>2. c.ptr - 1 # o /\ c.ptr # o + 1
      BY <1>3, <2>1
    <2>3. g[c.ptr - 1] = USED
      BY <1>4, <2>1, <2>2
    <2>4. ASSUME o + s + 1 >= c.ptr PROVE o + s + 1 >= c.ptr + c.size
      <3>1. c.size \in Nat /\ c.ptr - 1 < o
        <4>1. c.ptr - 1 < o
          BY <1>1, <1>3, <1>4, <2>1, <2>2, <2>4
        <4>2. QED
          BY <2>1, <4>1, SizesAre
      <3>2. CASE c.size = 0
        BY <2>1, <2>4, <3>2
      <3>3. CASE c.size # 0
        <4>1. c.ptr + c.size - 1 \in c.ptr .. c.ptr + c.size - 1
          BY <2>1, <3>1, <3>3
        <4>2. c.ptr + c.size - 1 < o - 4
          BY <3>1, <4>1, Away
        <4>3. QED
          BY <1>1, <1>3, <2>1, <3>1, <4>2
      <3>4. QED
        BY <3>2, <3>3
    <2>5. ASSUME NEW i \in c.ptr .. c.ptr + c.size - 1 PROVE g[i] = c.letter
      <3>1. i \in Nat /\ i < B - 4
        BY Away
      <3>2. i < o \/ i > o + s + 5
        <4>1. o > c.ptr - 1 => i < o - 4
          BY Away
        <4>2. o < c.ptr - 1 => i > z + 4
          BY Away
        <4>3. QED
          BY <1>1, <1>3, <2>1, <2>2, <3>1, <4>1, <4>2
      <3>3. i \in 0 .. B - 1
        BY <1>3, <3>1
      <3>4. QED
        BY <2>1, <3>2, <3>3
    <2>6. QED
      BY <1>2, <2>1, <2>2, <2>3, <2>4, <2>5
  <1>6. /\ new.ptr \in Nat /\ new.size \in Request \cup {0} /\ new.letter \in Letter
        /\ Start(g, B, new.ptr - 1) /\ g[new.ptr - 1] = USED /\ new.ptr = o + 1
        /\ \A e : Mk(g, B, e) /\ e >= new.ptr => e >= new.ptr + new.size
        /\ \A i \in new.ptr .. new.ptr + new.size - 1 : g[i] = new.letter
    <2>1. new.ptr = o + 1 /\ new.size = s /\ new.letter = x /\ (o + 1) - 1 = o
      BY <1>3
    <2> HIDE DEF new
    <2>2. ASSUME NEW e, Mk(g, B, e), e >= o + 1 PROVE e >= o + 1 + s
      <3>1. CASE Mk(h, B, e)
        <4>1. e \in Nat /\ e > o
          BY <1>3, <2>2, <3>1, Apart
        <4>2. e >= z
          BY <3>1, <4>1 DEF FirstAfter
        <4>3. QED
          BY <1>1, <1>3, <4>1, <4>2
      <3>2. CASE e = o + s + 1
        BY <1>1, <1>3, <3>2
      <3>3. QED
        BY <1>2, <2>2, <3>1, <3>2
    <2>3. \A i \in o + 1 .. o + 1 + s - 1 : g[i] = x
      <3>1. o + 1 + s - 1 = o + s
        BY <1>1, <1>3
      <3>2. QED
        BY <3>1 DEF Block
    <2>4. g[o] = USED /\ Start(g, B, o)
      BY <1>2 DEF Block
    <2>5. QED
      BY <1>3, <2>1, <2>2, <2>3, <2>4
  <1>7. ASSUME NEW p, Start(g, B, p), g[p] = USED PROVE \E c \in L \cup {new} : c.ptr = p + 1
    <2>1. CASE p = o
      BY <1>6, <2>1
    <2>2. CASE p # o
      <3>1. Start(h, B, p)
        BY <1>2, <1>3, <1>7
      <3>2. h[p] = USED
        BY <1>4, <1>7, <2>2, <3>1
      <3>3. QED
        BY <3>1, <3>2 DEF Held
    <2>3. QED
      BY <2>1, <2>2
  <1>8. \A c, d \in L \cup {new} : c.ptr = d.ptr => c = d
    <2>1. \A c, d \in L : c.ptr = d.ptr => c = d
      BY DEF Held
    <2>2. new.ptr = o + 1 /\ \A c \in L : c.ptr # o + 1
      BY <1>5, <1>6
    <2> HIDE DEF new
    <2>3. QED
      BY <2>1, <2>2
  <1>9. QED
    <2> HIDE DEF new
    <2>1. Held(g, B, L \cup {new})
      BY <1>5, <1>6, <1>7, <1>8 DEF Held
    <2>2. QED
      BY <2>1 DEF new

(* A block put at the end.                                                 *)
LEMMA EndHeld ==
  ASSUME NEW h, NEW B, NEW L, NEW o, NEW s \in Request \cup {0}, NEW x \in Letter,
         NEW g, NEW C, AtEnd(h, B, o, s, x, g, C),
         o = 0 => L = {}, o # 0 => Held(h, B, L),
         o # 0 => \A p : Start(h, B, p) /\ h[p] = USED => p < o
  PROVE  Held(g, C, L \cup {[ptr |-> o + 1, size |-> s, letter |-> x]})
  <1> DEFINE new == [ptr |-> o + 1, size |-> s, letter |-> x]
  <1>1. s \in Nat
    BY SizesAre
  <1>2. /\ Laid(g, C)
        /\ \A e : Mk(g, C, e) <=> (o # 0 /\ Mk(h, B, e) /\ e + 4 <= o) \/ e = o + s + 1
        /\ \A p : Start(g, C, p) <=> p = o \/ (o # 0 /\ Start(h, B, p) /\ p < o)
    BY PutAtEnd
  <1> USE DEF AtEnd
  <1>4. ASSUME NEW p, o # 0, Start(h, B, p), p < o PROVE p \in 0 .. o - 1
    <2>1. p \in Nat
      BY <1>4, Apart
    <2>2. QED
      BY <1>4, <2>1
  <1>5. ASSUME NEW c \in L
        PROVE  /\ c.ptr \in Nat /\ c.size \in Request \cup {0} /\ c.letter \in Letter
               /\ Start(g, C, c.ptr - 1) /\ g[c.ptr - 1] = USED /\ c.ptr # o + 1
               /\ \A e : Mk(g, C, e) /\ e >= c.ptr => e >= c.ptr + c.size
               /\ \A i \in c.ptr .. c.ptr + c.size - 1 : g[i] = c.letter
    <2>0. o # 0 /\ Laid(h, B) /\ Held(h, B, L) /\ o <= B /\ o >= 4 /\ Mk(h, B, o - 4)
      OBVIOUS
    <2>1. /\ c.ptr \in Nat /\ c.size \in Request \cup {0} /\ c.letter \in Letter
          /\ Start(h, B, c.ptr - 1) /\ h[c.ptr - 1] = USED
          /\ \A e : Mk(h, B, e) /\ e >= c.ptr => e >= c.ptr + c.size
          /\ \A i \in c.ptr .. c.ptr + c.size - 1 : h[i] = c.letter
      BY <2>0 DEF Held
    <2>2. c.size \in Nat /\ c.ptr - 1 < o
      BY <2>0, <2>1, SizesAre
    <2>3. g[c.ptr - 1] = USED
      BY <1>4, <2>0, <2>1, <2>2
    <2>4. o - 4 >= c.ptr + c.size /\ o - 4 >= c.ptr
      <3>1. o - 4 > c.ptr - 1 \/ (o - 4) + 4 <= c.ptr - 1
        BY <2>0, <2>1, Apart
      <3>2. o - 4 >= c.ptr
        BY <2>0, <2>1, <2>2, <3>1
      <3>3. QED
        BY <2>0, <2>1, <3>2
    <2>5. \A i \in c.ptr .. c.ptr + c.size - 1 : g[i] = c.letter
      <3>1. \A i \in c.ptr .. c.ptr + c.size - 1 : i \in 0 .. o - 1
        BY <2>1, <2>2, <2>4
      <3>2. QED
        BY <2>1, <3>1
    <2>6. ASSUME NEW e, Mk(g, C, e), e >= c.ptr PROVE e >= c.ptr + c.size
      <3>1. CASE e = o + s + 1
        BY <1>1, <2>1, <2>2, <2>4, <3>1
      <3>2. CASE Mk(h, B, e)
        BY <2>1, <2>6, <3>2
      <3>3. QED
        BY <1>2, <2>6, <3>1, <3>2
    <2>7. Start(g, C, c.ptr - 1)
      BY <1>2, <2>0, <2>1, <2>2
    <2>8. c.ptr # o + 1
      BY <2>1, <2>2
    <2>9. QED
      BY <2>1, <2>3, <2>5, <2>6, <2>7, <2>8
  <1>6. /\ new.ptr \in Nat /\ new.size \in Request \cup {0} /\ new.letter \in Letter
        /\ Start(g, C, new.ptr - 1) /\ g[new.ptr - 1] = USED /\ new.ptr = o + 1
        /\ \A e : Mk(g, C, e) /\ e >= new.ptr => e >= new.ptr + new.size
        /\ \A i \in new.ptr .. new.ptr + new.size - 1 : g[i] = new.letter
    <2>1. new.ptr = o + 1 /\ new.size = s /\ new.letter = x /\ (o + 1) - 1 = o
      OBVIOUS
    <2> HIDE DEF new
    <2>2. ASSUME NEW e, Mk(g, C, e), e >= o + 1 PROVE e >= o + 1 + s
      <3>1. CASE o # 0 /\ Mk(h, B, e) /\ e + 4 <= o
        <4>1. e \in Nat
          BY <3>1, Apart
        <4>2. QED
          BY <2>2, <3>1, <4>1
      <3>2. CASE e = o + s + 1
        BY <1>1, <3>2
      <3>3. QED
        BY <1>2, <2>2, <3>1, <3>2
    <2>3. \A i \in o + 1 .. o + 1 + s - 1 : g[i] = x
      <3>1. o + 1 + s - 1 = o + s
        BY <1>1
      <3>2. QED
        BY <3>1 DEF Block
    <2>4. g[o] = USED /\ Start(g, C, o)
      BY <1>2 DEF Block
    <2>5. QED
      BY <2>1, <2>2, <2>3, <2>4
  <1>7. ASSUME NEW p, Start(g, C, p), g[p] = USED PROVE \E c \in L \cup {new} : c.ptr = p + 1
    <2>1. CASE p = o
      BY <1>6, <2>1
    <2>2. CASE p # o
      <3>1. o # 0 /\ Start(h, B, p) /\ p < o
        BY <1>2, <1>7, <2>2
      <3>2. h[p] = USED
        BY <1>4, <1>7, <3>1
      <3>3. QED
        BY <3>1, <3>2 DEF Held
    <2>3. QED
      BY <2>1, <2>2
  <1>8. \A c, d \in L \cup {new} : c.ptr = d.ptr => c = d
    <2>1. \A c, d \in L : c.ptr = d.ptr => c = d
      BY DEF Held
    <2>2. new.ptr = o + 1 /\ \A c \in L : c.ptr # o + 1
      BY <1>5, <1>6
    <2> HIDE DEF new
    <2>3. QED
      BY <2>1, <2>2
  <1>9. QED
    <2> HIDE DEF new
    <2>1. Held(g, C, L \cup {new})
      BY <1>5, <1>6, <1>7, <1>8 DEF Held
    <2>2. QED
      BY <2>1 DEF new

-----------------------------------------------------------------------------
(***************************************************************************)
(* The bytes that malloc writes.                                           *)
(***************************************************************************)

(* A heap made longer or shorter.                                          *)
LEMMA UpdatedIs ==
  ASSUME NEW h, NEW B, OfBytes(h, B), NEW n \in Nat
  PROVE  /\ OfBytes(update_heap(h, n), n)
         /\ \A i \in 0 .. n - 1 : update_heap(h, n)[i] = IF i < B THEN h[i] ELSE NUL
  <1>1. DOMAIN h = 0 .. B - 1 /\ B \in Nat /\ \A i \in 0 .. B - 1 : h[i] \in Byte
    BY DEF OfBytes
  <1>2. NUL \in Byte
    BY BytesHold
  <1>3. update_heap(h, n) = [i \in 0 .. n - 1 |-> IF i \in DOMAIN h THEN h[i] ELSE NUL]
    BY DEF update_heap
  <1>4. \A i \in 0 .. n - 1 : i \in DOMAIN h <=> i < B
    BY <1>1
  <1>5. \A i \in 0 .. n - 1 : update_heap(h, n)[i] = IF i < B THEN h[i] ELSE NUL
    BY <1>3, <1>4
  <1>6. update_heap(h, n) \in [0 .. n - 1 -> Byte]
    BY <1>1, <1>2, <1>3
  <1>7. QED
    BY <1>5, <1>6 DEF OfBytes

(* The heap before the first call.                                         *)
LEMMA NoBytes == OfBytes(<<>>, 0)
  <1>1. 0 .. 0 - 1 = {}
    OBVIOUS
  <1>2. <<>> \in [{} -> Byte]
    OBVIOUS
  <1>3. QED
    BY <1>1, <1>2 DEF OfBytes

(* A block marked used and filled by the client.                           *)
LEMMA GivenIs ==
  ASSUME NEW h, NEW B, OfBytes(h, B), NEW o \in Nat, NEW s \in Nat, NEW x \in Letter
  PROVE  /\ OfBytes(Write(mark_block_used(h, o), o + 1, Fill(x, s)), B)
         /\ \A i \in 0 .. B - 1 :
              Write(mark_block_used(h, o), o + 1, Fill(x, s))[i] =
                IF i = o THEN USED ELSE IF i \in o + 1 .. o + s THEN x ELSE h[i]
  <1> DEFINE m == mark_block_used(h, o)
  <1>1. USED \in Byte /\ x \in Byte
    BY BytesHold
  <1>2. /\ OfBytes(m, B)
        /\ \A i \in 0 .. B - 1 : m[i] = IF i = o THEN USED ELSE h[i]
    <2>1. /\ OfBytes(Write(h, o, <<USED>>), B)
          /\ \A i \in 0 .. B - 1 : Write(h, o, <<USED>>)[i] = IF i = o THEN USED ELSE h[i]
      BY <1>1, ByteWritten
    <2>2. QED
      BY <2>1 DEF mark_block_used
  <1> HIDE DEF m
  <1>3. /\ OfBytes(Write(m, o + 1, Fill(x, s)), B)
        /\ \A i \in 0 .. B - 1 : Write(m, o + 1, Fill(x, s))[i] =
             IF i \in o + 1 .. o + 1 + s - 1 THEN x ELSE m[i]
    <2>1. o + 1 \in Nat
      OBVIOUS
    <2>2. QED
      BY <1>1, <1>2, <2>1, ByteFilled
  <1>4. o + 1 + s - 1 = o + s /\ o \notin o + 1 .. o + s
    OBVIOUS
  <1>5. \A i \in 0 .. B - 1 : Write(m, o + 1, Fill(x, s))[i] =
             IF i = o THEN USED ELSE IF i \in o + 1 .. o + s THEN x ELSE h[i]
    BY <1>2, <1>3, <1>4
  <1>6. QED
    BY <1>3, <1>5 DEF m

(* g is h but for a free block at o, marked up for s bytes.                *)
Marked(g, h, B, o, s) ==
  /\ OfBytes(g, B)
  /\ \A i \in 0 .. B - 1 : /\ i = o + s + 1 \/ i = o + s + 4 => g[i] = "esc"
                           /\ i = o + s + 2 \/ i = o + s + 3 => g[i] = "bar"
                           /\ i < o \/ i > o + s + 4 => g[i] = h[i]

(* A block marked up.                                                      *)
LEMMA MarkupIs ==
  ASSUME NEW h, NEW B, OfBytes(h, B), NEW o \in Nat, NEW s \in Nat
  PROVE  Marked(markup_block(h, o, s), h, B, o, s)
  <1> DEFINE m == Write(h, o, <<FREE>>)
             at == o + s + 1
             g == markup_block(h, o, s)
  <1>1. FREE \in Byte
    BY BytesHold
  <1>2. OfBytes(m, B) /\ \A i \in 0 .. B - 1 : m[i] = IF i = o THEN FREE ELSE h[i]
    BY <1>1, ByteWritten
  <1>3. at \in Nat
    OBVIOUS
  <1>4. g = Write(m, at, EOB)
    BY DEF markup_block
  <1> HIDE DEF m, at, g
  <1>5. Ended(Write(m, at, EOB), m, B, at)
    BY <1>2, <1>3, EndWritten
  <1>6. Ended(g, m, B, at)
    BY <1>4, <1>5
  <1>7. ASSUME NEW i \in 0 .. B - 1
        PROVE  /\ i = o + s + 1 \/ i = o + s + 4 => g[i] = "esc"
               /\ i = o + s + 2 \/ i = o + s + 3 => g[i] = "bar"
               /\ i < o \/ i > o + s + 4 => g[i] = h[i]
    <2>1. /\ i = at \/ i = at + 3 => g[i] = "esc"
          /\ i = at + 1 \/ i = at + 2 => g[i] = "bar"
          /\ i < at \/ i > at + 3 => g[i] = m[i]
      BY <1>6 DEF Ended
    <2>2. /\ at = o + s + 1 /\ at + 1 = o + s + 2 /\ at + 2 = o + s + 3 /\ at + 3 = o + s + 4
          /\ i < o \/ i > o + s + 4 => i # o /\ (i < at \/ i > at + 3)
      BY DEF at
    <2>3. QED
      BY <1>2, <2>1, <2>2
  <1>8. QED
    BY <1>6, <1>7 DEF g, Ended, Marked

(* A block marked up, marked used and filled: what a client has when       *)
(* malloc has extended the heap.                                           *)
LEMMA PutIs ==
  ASSUME NEW h, NEW B, OfBytes(h, B), NEW o \in Nat, NEW s \in Nat, NEW x \in Letter,
         o + s + 5 <= B
  PROVE  /\ OfBytes(Write(mark_block_used(markup_block(h, o, s), o), o + 1, Fill(x, s)), B)
         /\ Block(Write(mark_block_used(markup_block(h, o, s), o), o + 1, Fill(x, s)), o, s, x)
         /\ \A i \in 0 .. o - 1 :
              Write(mark_block_used(markup_block(h, o, s), o), o + 1, Fill(x, s))[i] = h[i]
  <1> DEFINE m == markup_block(h, o, s)
             g == Write(mark_block_used(m, o), o + 1, Fill(x, s))
  <1>0. Marked(m, h, B, o, s)
    BY MarkupIs
  <1>1. /\ OfBytes(m, B)
        /\ \A i \in 0 .. B - 1 : /\ i = o + s + 1 \/ i = o + s + 4 => m[i] = "esc"
                                 /\ i = o + s + 2 \/ i = o + s + 3 => m[i] = "bar"
                                 /\ i < o \/ i > o + s + 4 => m[i] = h[i]
    BY <1>0 DEF Marked
  <1> HIDE DEF m
  <1>2. /\ OfBytes(g, B)
        /\ \A i \in 0 .. B - 1 : g[i] = IF i = o THEN USED ELSE
                                        IF i \in o + 1 .. o + s THEN x ELSE m[i]
    BY <1>1, GivenIs
  <1> HIDE DEF g
  <1>3. B \in Nat
    BY DEF OfBytes
  <1>4. Block(g, o, s, x)
    <2>1. g[o] = USED
      BY <1>2, <1>3
    <2>2. ASSUME NEW i \in o + 1 .. o + s PROVE g[i] = x
      <3>1. i \in 0 .. B - 1 /\ i # o
        BY <1>3
      <3>2. QED
        BY <1>2, <3>1
    <2>3. ASSUME NEW i \in o + s + 1 .. o + s + 4 PROVE g[i] = m[i] /\ i \in 0 .. B - 1
      <3>1. i \in 0 .. B - 1 /\ i # o /\ i \notin o + 1 .. o + s
        BY <1>3
      <3>2. QED
        BY <1>2, <3>1
    <2>4. /\ o + s + 1 \in o + s + 1 .. o + s + 4 /\ o + s + 2 \in o + s + 1 .. o + s + 4
          /\ o + s + 3 \in o + s + 1 .. o + s + 4 /\ o + s + 4 \in o + s + 1 .. o + s + 4
          /\ (o + s + 1) + 1 = o + s + 2 /\ (o + s + 1) + 2 = o + s + 3
          /\ o + s + 2 # o + s + 1 /\ o + s + 2 # o + s + 4
          /\ o + s + 3 # o + s + 1 /\ o + s + 3 # o + s + 4
      OBVIOUS
    <2>5. g[o + s + 1] = "esc" /\ g[o + s + 4] = "esc"
      BY <1>1, <2>3, <2>4
    <2>6. g[o + s + 2] = "bar" /\ g[o + s + 3] = "bar"
      BY <1>1, <2>3, <2>4
    <2>7. QED
      BY <2>1, <2>2, <2>4, <2>5, <2>6 DEF Block, Tri
  <1>5. ASSUME NEW i \in 0 .. o - 1 PROVE g[i] = h[i]
    <2>1. /\ i \in 0 .. B - 1 /\ i # o /\ i \notin o + 1 .. o + s
          /\ i # o + s + 1 /\ i # o + s + 2 /\ i # o + s + 3 /\ i # o + s + 4
      BY <1>3
    <2>2. g[i] = m[i]
      BY <1>2, <2>1
    <2>3. m[i] = h[i]
      BY <1>1, <2>1
    <2>4. QED
      BY <2>2, <2>3
  <1>6. QED
    BY <1>2, <1>4, <1>5 DEF g, m

(* g is h but for an end marker after s bytes of the block at o, and the   *)
(* mark of that after it.                                                  *)
Split(g, h, B, o, s) ==
  /\ OfBytes(g, B)
  /\ \A i \in 0 .. B - 1 : /\ i = o + s + 1 \/ i = o + s + 4 => g[i] = "esc"
                           /\ i = o + s + 2 \/ i = o + s + 3 => g[i] = "bar"
                           /\ i = o + s + 5 => g[i] = h[o]
                           /\ i < o \/ i > o + s + 5 => g[i] = h[i]

(* A block split.                                                          *)
LEMMA SplitIs ==
  ASSUME NEW h, NEW B, OfBytes(h, B), NEW o \in Nat, NEW s \in Nat, o < B
  PROVE  Split(split_block(h, o, s), h, B, o, s)
  <1> DEFINE at == o + 1 + s
             m == Write(h, at, EOB)
             x == h[o]
             n == o + s + 5
             g == split_block(h, o, s)
  <1>1. x \in Byte /\ B \in Nat
    BY DEF OfBytes
  <1>2. at \in Nat /\ n \in Nat
    OBVIOUS
  <1>3. g = Write(m, n, <<x>>)
    BY WrittenAre DEF split_block
  <1> HIDE DEF at, n, x, g
  <1>4. Ended(m, h, B, at)
    BY <1>2, EndWritten
  <1> HIDE DEF m
  <1>5. OfBytes(m, B)
    BY <1>4 DEF Ended
  <1>6. /\ OfBytes(Write(m, n, <<x>>), B)
        /\ \A i \in 0 .. B - 1 : Write(m, n, <<x>>)[i] = IF i = n THEN x ELSE m[i]
    <2>1. OfBytes(m, B) /\ n \in Nat /\ x \in Byte
      BY <1>1, <1>2, <1>5
    <2>2. QED
      BY ONLY <2>1, ByteWritten
  <1>7. ASSUME NEW i \in 0 .. B - 1
        PROVE  /\ i = o + s + 1 \/ i = o + s + 4 => g[i] = "esc"
               /\ i = o + s + 2 \/ i = o + s + 3 => g[i] = "bar"
               /\ i = o + s + 5 => g[i] = h[o]
               /\ i < o \/ i > o + s + 5 => g[i] = h[i]
    <2>1. /\ i = at \/ i = at + 3 => m[i] = "esc"
          /\ i = at + 1 \/ i = at + 2 => m[i] = "bar"
          /\ i < at \/ i > at + 3 => m[i] = h[i]
      BY <1>4 DEF Ended
    <2>2. g[i] = IF i = n THEN x ELSE m[i]
      BY <1>3, <1>6
    <2>3. /\ at = o + s + 1 /\ at + 1 = o + s + 2 /\ at + 2 = o + s + 3 /\ at + 3 = o + s + 4
          /\ n = o + s + 5
          /\ i < o \/ i > o + s + 5 => i # n /\ (i < at \/ i > at + 3)
          /\ i = at \/ i = at + 1 \/ i = at + 2 \/ i = at + 3 => i # n
      BY DEF at, n
    <2>4. x = h[o]
      BY DEF x
    <2>5. QED
      BY <2>1, <2>2, <2>3, <2>4
  <1>8. QED
    BY <1>3, <1>6, <1>7 DEF g, Split

(* g is h but for a used block at o, of s bytes x, and the mark after it.   *)
PutIn(g, h, B, o, s, x) ==
  /\ OfBytes(g, B) /\ Block(g, o, s, x) /\ g[o + s + 5] = h[o]
  /\ \A i \in 0 .. B - 1 : i < o \/ i > o + s + 5 => g[i] = h[i]

(* A free block split, its first part marked used and filled.              *)
LEMMA SplitPut ==
  ASSUME NEW h, NEW B, OfBytes(h, B), NEW o \in Nat, NEW s \in Nat, NEW x \in Letter,
         o + s + 6 <= B
  PROVE  PutIn(Write(mark_block_used(split_block(h, o, s), o), o + 1, Fill(x, s)), h, B, o, s, x)
  <1> DEFINE m == split_block(h, o, s)
             g == Write(mark_block_used(m, o), o + 1, Fill(x, s))
  <1>3. B \in Nat
    BY DEF OfBytes
  <1>0. Split(m, h, B, o, s)
    <2>1. o < B
      BY <1>3
    <2>2. QED
      BY <2>1, SplitIs
  <1>1. /\ OfBytes(m, B)
        /\ \A i \in 0 .. B - 1 : /\ i = o + s + 1 \/ i = o + s + 4 => m[i] = "esc"
                                 /\ i = o + s + 2 \/ i = o + s + 3 => m[i] = "bar"
                                 /\ i = o + s + 5 => m[i] = h[o]
                                 /\ i < o \/ i > o + s + 5 => m[i] = h[i]
    BY <1>0 DEF Split
  <1> HIDE DEF m
  <1>2. /\ OfBytes(g, B)
        /\ \A i \in 0 .. B - 1 : g[i] = IF i = o THEN USED ELSE
                                        IF i \in o + 1 .. o + s THEN x ELSE m[i]
    BY <1>1, GivenIs
  <1> HIDE DEF g
  <1>6. ASSUME NEW i \in o + s + 1 .. o + s + 5 PROVE g[i] = m[i] /\ i \in 0 .. B - 1
    <2>1. i \in 0 .. B - 1 /\ i # o /\ i \notin o + 1 .. o + s
      BY <1>3
    <2>2. QED
      BY <1>2, <2>1
  <1>4. Block(g, o, s, x)
    <2>1. g[o] = USED
      BY <1>2, <1>3
    <2>2. ASSUME NEW i \in o + 1 .. o + s PROVE g[i] = x
      <3>1. i \in 0 .. B - 1 /\ i # o
        BY <1>3
      <3>2. QED
        BY <1>2, <3>1
    <2>4. /\ o + s + 1 \in o + s + 1 .. o + s + 5 /\ o + s + 2 \in o + s + 1 .. o + s + 5
          /\ o + s + 3 \in o + s + 1 .. o + s + 5 /\ o + s + 4 \in o + s + 1 .. o + s + 5
          /\ (o + s + 1) + 1 = o + s + 2 /\ (o + s + 1) + 2 = o + s + 3
          /\ o + s + 2 # o + s + 1 /\ o + s + 2 # o + s + 4
          /\ o + s + 3 # o + s + 1 /\ o + s + 3 # o + s + 4
          /\ o + s + 1 # o + s + 5 /\ o + s + 2 # o + s + 5
          /\ o + s + 3 # o + s + 5 /\ o + s + 4 # o + s + 5
      OBVIOUS
    <2>5. g[o + s + 1] = "esc" /\ g[o + s + 4] = "esc"
      BY <1>1, <1>6, <2>4
    <2>6. g[o + s + 2] = "bar" /\ g[o + s + 3] = "bar"
      BY <1>1, <1>6, <2>4
    <2>7. QED
      BY <2>1, <2>2, <2>4, <2>5, <2>6 DEF Block, Tri
  <1>5. ASSUME NEW i \in 0 .. B - 1, i < o \/ i > o + s + 5 PROVE g[i] = h[i]
    <2>1. /\ i # o /\ i \notin o + 1 .. o + s /\ i # o + s + 5
          /\ i # o + s + 1 /\ i # o + s + 2 /\ i # o + s + 3 /\ i # o + s + 4
      BY <1>3, <1>5
    <2>2. g[i] = m[i]
      BY <1>2, <2>1
    <2>3. m[i] = h[i]
      BY <1>1, <2>1
    <2>4. QED
      BY <2>2, <2>3
  <1>7. g[o + s + 5] = h[o]
    <2>1. o + s + 5 \in o + s + 1 .. o + s + 5
      OBVIOUS
    <2>2. QED
      BY <1>1, <1>6, <2>1
  <1>8. QED
    BY <1>2, <1>4, <1>5, <1>7 DEF g, m, PutIn

-----------------------------------------------------------------------------
(***************************************************************************)
(* free.                                                                   *)
(***************************************************************************)

(* The greatest element of a bounded set of numbers.                       *)
LEMMA GreatestNat ==
  ASSUME NEW B \in Nat, NEW S \in SUBSET (0 .. B), S # {}
  PROVE  \E x \in S : \A y \in S : y <= x
  <1> DEFINE T == {k \in Nat : B - k \in S}
  <1>1. PICK y \in S : TRUE
    OBVIOUS
  <1>2. B - y \in T
    <2>1. B - y \in Nat /\ B - (B - y) = y
      OBVIOUS
    <2>2. QED
      BY <1>1, <2>1
  <1>3. PICK k \in T : \A l \in T : k <= l
    <2>1. T \in SUBSET Nat /\ T # {}
      BY <1>2
    <2> HIDE DEF T
    <2>2. QED
      BY <2>1, LeastNat
  <1>4. k \in Nat /\ B - k \in S
    BY <1>3
  <1>5. ASSUME NEW z \in S PROVE z <= B - k
    <2>1. B - z \in Nat /\ B - (B - z) = z
      OBVIOUS
    <2>2. B - z \in T
      BY <2>1
    <2>3. k <= B - z
      BY <1>3, <2>2
    <2>4. QED
      BY <1>4, <2>3
  <1>6. QED
    BY <1>4, <1>5

(* Max is it.                                                              *)
LEMMA MaxIs ==
  ASSUME NEW S, NEW x \in S, \A y \in S : y <= x /\ y \in Int
  PROVE  Max(S) = x
  BY DEF Max

(* What free makes of the heap: a heap of blocks, held but for the one     *)
(* freed, where the next block begins no more if it was free, nor does the *)
(* freed one if the block before was free, unless that is the first.       *)
Freed(g, h, B, L, b) ==
  /\ Laid(g, B) /\ Held(g, B, L \ {b})
  /\ \A z : FirstAfter(h, B, b.ptr - 1, z) /\ z + 4 < B /\ h[z + 4] = FREE => ~Start(g, B, z + 4)
  /\ \A p : /\ Start(h, B, p) /\ p # 0 /\ p < b.ptr - 1 /\ h[p] = FREE
            /\ \A q : Start(h, B, q) /\ q < b.ptr - 1 => q <= p
            => ~Start(g, B, b.ptr - 1)

(* The search backwards finds the block before, unless that is the first.  *)
LEMMA PreviousIs ==
  ASSUME NEW h, NEW B, Laid(h, B), NEW o, Start(h, B, o),
         NEW p, Start(h, B, p), p # 0, p < o, \A q : Start(h, B, q) /\ q < o => q <= p
  PROVE  get_previous_block(h, o) = p
  <1> DEFINE before == {e \in Ends(h) : e + 8 <= o}
  <1>1. B \in Nat /\ o \in Nat /\ p \in Nat /\ o <= B - 5 /\ p <= B - 5
    BY Apart
  <1>2. p >= 4 /\ Mk(h, B, p - 4) /\ Mk(h, B, o - 4) /\ o >= 4
    BY <1>1 DEF Start, Mk
  <1>3. p - 4 \in before
    <2>1. o - 4 > p \/ (o - 4) + 4 <= p
      BY <1>2, Apart
    <2>2. (p - 4) + 8 <= o
      BY <1>1, <2>1
    <2>3. QED
      BY <1>2, <2>2, EndsAre
  <1>4. ASSUME NEW e \in before PROVE e <= p - 4 /\ e \in Int
    <2>1. Mk(h, B, e) /\ e + 8 <= o
      BY EndsAre
    <2>2. e \in Nat /\ e + 4 \in 0 .. B - 1 /\ e + 4 >= 4 /\ (e + 4) - 4 = e /\ e + 4 < o
      BY <1>1, <2>1, Apart
    <2>3. Start(h, B, e + 4)
      BY <2>1, <2>2 DEF Start, Mk
    <2>4. e + 4 <= p
      BY <2>2, <2>3
    <2>5. QED
      BY <1>1, <2>2, <2>4
  <1>5. Max(before) = p - 4
    <2> HIDE DEF before
    <2>1. QED
      BY <1>3, <1>4, MaxIs
  <1>6. Len(EOB) = 4 /\ 2 * 4 = 8
    BY DEF EOB
  <1>7. before # {}
    BY <1>3
  <1>8. (p - 4) + 4 = p /\ ~(o < 4)
    BY <1>1, <1>2
  <1>9. get_previous_block(h, o) =
           CASE o < 4 -> 0 [] o >= 4 /\ before = {} -> 1 [] OTHER -> Max(before) + 4
    BY <1>6 DEF get_previous_block
  <1> HIDE DEF before
  <1>10. QED
    BY <1>5, <1>7, <1>8, <1>9

(* The first block has none before.                                        *)
LEMMA NonePrevious ==
  ASSUME NEW h PROVE get_previous_block(h, 0) = 0
  BY DEF get_previous_block, EOB

(* What free does.                                                         *)
LEMMA FreeIs ==
  ASSUME NEW h, NEW B, NEW L, Laid(h, B), Held(h, B, L), NEW b \in L
  PROVE  Freed(_zox_free(h, b.ptr), h, B, L, b)
  <1> DEFINE o == b.ptr - 1
             marked == mark_block_free(h, o)
             prev == get_previous_block(marked, o)
             left == IF is_block_free(marked, prev) /\ prev # o THEN Joined(marked, o) ELSE marked
             next == get_next_block(left, o)
             g == IF next < Bytes(h) /\ is_block_free(left, next) THEN Joined(left, next) ELSE left
  <1>1. b.ptr \in Nat /\ Start(h, B, o) /\ h[o] = USED
    BY DEF Held
  <1>2. /\ B \in Nat /\ B >= 5 /\ o \in Nat /\ o <= B - 5 /\ USED # FREE /\ Bytes(h) = B
        /\ DOMAIN h = 0 .. B - 1
    BY <1>1, Apart, BytesAre, BytesDiffer DEF Laid
  <1>3. /\ Laid(marked, B)
        /\ \A e : Mk(marked, B, e) <=> Mk(h, B, e)
        /\ \A p : Start(marked, B, p) <=> Start(h, B, p)
        /\ \A i \in 0 .. B - 1 : marked[i] = IF i = o THEN FREE ELSE h[i]
    BY <1>1, BytesHold, MarkedLaid DEF mark_block_free
  <1>4. Held(marked, B, L \ {b})
    BY FreedHeld DEF mark_block_free
  <1>5. _zox_free(h, b.ptr) = g
    BY DEF _zox_free
  <1>6. DOMAIN marked = 0 .. B - 1
    BY <1>3, BytesAre DEF Laid
  <1>7. o # 0 => o >= 4 /\ Mk(marked, B, o - 4) /\ (o - 4) + 4 = o /\ o < B
    <2>1. o # 0 => o >= 4 /\ Tri(marked, o - 4)
      BY <1>1, <1>3 DEF Start
    <2>2. QED
      BY <1>2, <2>1 DEF Mk
  <1> HIDE DEF marked, prev
  <1>8. /\ Laid(left, B) /\ Held(left, B, L \ {b})
        /\ \A e : e > o => (Mk(left, B, e) <=> Mk(h, B, e))
        /\ \A i \in 0 .. B - 1 : i > o => left[i] = h[i]
        /\ is_block_free(marked, prev) /\ prev # o => ~Start(left, B, o)
    <2>1. CASE is_block_free(marked, prev) /\ prev # o
      <3>1. o # 0
        <4>1. o = 0 => prev = 0
          BY NonePrevious DEF prev
        <4>2. QED
          BY <2>1, <4>1
      <3>2. left = Joined(marked, o)
        BY <2>1
      <3>3. PICK m : m = o - 4
        OBVIOUS
      <3>4. o = m + 4 /\ m + 4 < B /\ Mk(marked, B, m) /\ marked[m + 4] = FREE /\ m \in Nat
        BY <1>2, <1>3, <1>7, <3>1, <3>3
      <3>5. /\ Laid(left, B)
            /\ \A e : Mk(left, B, e) <=> Mk(marked, B, e) /\ e # m
            /\ \A p : Start(left, B, p) <=> Start(marked, B, p) /\ p # m + 4
            /\ \A i \in 0 .. B - 1 : left[i] = IF i \in m .. m + 3 THEN NUL ELSE marked[i]
        <4> HIDE DEF left
        <4>1. left = Joined(marked, m + 4)
          BY <3>2, <3>4
        <4>2. QED
          BY <1>3, <3>4, <4>1, JoinedLaid
      <3>6. Held(left, B, L \ {b})
        <4> HIDE DEF left
        <4>1. left = Joined(marked, m + 4)
          BY <3>2, <3>4
        <4>2. QED
          BY <1>3, <1>4, <3>4, <4>1, JoinedHeld
      <3> HIDE DEF left, o
      <3>7. \A e : e > o => (Mk(left, B, e) <=> Mk(h, B, e))
        <4>1. \A e : e > o => e # m
          BY <3>4
        <4>2. QED
          BY <1>3, <3>5, <4>1
      <3>8. ASSUME NEW i \in 0 .. B - 1, i > o PROVE left[i] = h[i]
        <4>1. i \notin m .. m + 3 /\ i # o
          BY <1>2, <3>4, <3>8
        <4>2. QED
          BY <1>3, <3>5, <4>1
      <3>9. ~Start(left, B, o)
        BY <3>4, <3>5
      <3>10. QED
        BY <3>5, <3>6, <3>7, <3>8, <3>9
    <2>2. CASE ~(is_block_free(marked, prev) /\ prev # o)
      <3>1. left = marked
        BY <2>2
      <3> HIDE DEF left, o
      <3>2. \A i \in 0 .. B - 1 : i > o => i # o
        BY <1>2
      <3>3. QED
        BY <1>3, <1>4, <2>2, <3>1, <3>2
    <2>3. QED
      BY <2>1, <2>2
  <1> HIDE DEF left
  <1>9. PICK z : FirstAfter(left, B, o, z)
    BY <1>2, <1>8, FirstExists
  <1>10. next = z + 4 /\ z \in Nat /\ z >= 1 /\ z + 4 <= B
    BY <1>2, <1>8, <1>9, SearchIs
  <1>11. Mk(left, B, z) /\ z > o /\ \A f : Mk(left, B, f) /\ f > o => f >= z
    BY <1>9 DEF FirstAfter
  <1>12. DOMAIN left = 0 .. B - 1
    BY <1>8, BytesAre DEF Laid
  <1>13. z + 4 < B => left[z + 4] = h[z + 4] /\ z + 4 \in 0 .. B - 1 /\ z + 4 > o
    <2>1. z + 4 < B => z + 4 \in 0 .. B - 1 /\ z + 4 > o
      BY <1>2, <1>10, <1>11
    <2>2. QED
      BY <1>8, <2>1
  <1> HIDE DEF next
  <1>14. /\ Laid(g, B) /\ Held(g, B, L \ {b})
         /\ \A p : Start(g, B, p) => Start(left, B, p)
         /\ z + 4 < B /\ h[z + 4] = FREE => ~Start(g, B, z + 4)
    <2>1. CASE next < B /\ is_block_free(left, next)
      <3>1. g = Joined(left, z + 4)
        BY <1>2, <1>10, <2>1
      <3>2. left[z + 4] = FREE /\ z + 4 < B
        BY <1>10, <2>1 DEF is_block_free
      <3> HIDE DEF g
      <3>3. /\ Laid(g, B)
            /\ \A e : Mk(g, B, e) <=> Mk(left, B, e) /\ e # z
            /\ \A p : Start(g, B, p) <=> Start(left, B, p) /\ p # z + 4
            /\ \A i \in 0 .. B - 1 : g[i] = IF i \in z .. z + 3 THEN NUL ELSE left[i]
        BY <1>8, <1>11, <3>1, <3>2, JoinedLaid
      <3>4. Held(g, B, L \ {b})
        BY <1>8, <1>11, <3>1, <3>2, JoinedHeld
      <3>5. QED
        BY <3>3, <3>4
    <2>2. CASE ~(next < B /\ is_block_free(left, next))
      <3>1. g = left
        BY <1>2, <2>2
      <3>2. ~(z + 4 < B /\ h[z + 4] = FREE)
        BY <1>10, <1>12, <1>13, <2>2 DEF is_block_free
      <3> HIDE DEF g
      <3>3. QED
        BY <1>8, <3>1, <3>2
    <2>3. QED
      BY <2>1, <2>2
  <1> HIDE DEF g
  <1>15. ASSUME NEW w, FirstAfter(h, B, o, w), w + 4 < B, h[w + 4] = FREE
         PROVE  ~Start(g, B, w + 4)
    <2>1. w \in Nat /\ Mk(left, B, w) /\ w > o
      BY <1>8, <1>15, Apart DEF FirstAfter
    <2>2. w >= z
      BY <1>11, <2>1
    <2>3. z >= w
      BY <1>8, <1>11, <1>15 DEF FirstAfter
    <2>4. w = z
      BY <1>10, <2>1, <2>2, <2>3
    <2>5. QED
      BY <1>14, <1>15, <2>4
  <1>16. ASSUME NEW p, Start(h, B, p), p # 0, p < o, h[p] = FREE,
                \A q : Start(h, B, q) /\ q < o => q <= p
         PROVE  ~Start(g, B, o)
    <2>1. p \in Nat /\ p \in 0 .. B - 1 /\ p # o
      BY <1>2, <1>16, Apart DEF Start
    <2>2. prev = p
      <3> HIDE DEF o
      <3>1. /\ Start(marked, B, o) /\ Start(marked, B, p)
            /\ \A q : Start(marked, B, q) /\ q < o => q <= p
        BY <1>1, <1>3, <1>16
      <3>2. QED
        BY <1>3, <1>16, <3>1, PreviousIs DEF prev
    <2>3. marked[p] = FREE
      BY <1>3, <1>16, <2>1
    <2>4. is_block_free(marked, prev) /\ prev # o
      BY <1>6, <2>1, <2>2, <2>3 DEF is_block_free
    <2>5. QED
      BY <1>8, <1>14, <2>4
  <1> HIDE DEF o
  <1>17. Freed(g, h, B, L, b)
    BY <1>14, <1>15, <1>16 DEF Freed, o
  <1>18. QED
    BY <1>5, <1>17

-----------------------------------------------------------------------------
(***************************************************************************)
(* malloc and realloc.                                                     *)
(***************************************************************************)

(* The least element of a set of numbers.                                  *)
LEMMA MinIs ==
  ASSUME NEW S \in SUBSET Nat, S # {}
  PROVE  Min(S) \in S
  <1>1. PICK x \in S : \A y \in S : x <= y
    BY LeastNat
  <1>2. Min(S) \in S /\ \A y \in S : Min(S) <= y
    BY <1>1 DEF Min
  <1>3. QED
    BY <1>2

(* What a client has when it got r for s bytes x: nothing if malloc        *)
(* crashed, a heap of blocks if there was no hazard, bytes after one.      *)
Got(r, B, L, s, x) ==
  /\ r.hist \subseteq {"tight", "shrunk", "realloc"}
  /\ \/ r.ptr = NOWHERE
     \/ /\ r.hist = {} /\ r.ptr \in Nat
        /\ \E C : /\ C \in Nat /\ C >= B
                  /\ Laid(Write(r.heap, r.ptr, Fill(x, s)), C)
                  /\ Held(Write(r.heap, r.ptr, Fill(x, s)), C,
                          L \cup {[ptr |-> r.ptr, size |-> s, letter |-> x]})
     \/ /\ r.hist # {} /\ r.ptr \in 0 .. B - 1
        /\ OfBytes(Write(r.heap, r.ptr, Fill(x, s)), B)

(* A block given at the end of the heap.                                   *)
LEMMA GotAtEnd ==
  ASSUME NEW h, NEW B, NEW L, NEW o, NEW s \in Request \cup {0}, NEW x \in Letter,
         NEW m, NEW C, B \in Nat, C >= B,
         AtEnd(h, B, o, s, x, Write(mark_block_used(m, o), o + 1, Fill(x, s)), C),
         o = 0 => L = {}, o # 0 => Held(h, B, L),
         o # 0 => \A p : Start(h, B, p) /\ h[p] = USED => p < o
  PROVE  Got(Given(m, o, {}), B, L, s, x)
  <1> DEFINE r == Given(m, o, {})
             g == Write(mark_block_used(m, o), o + 1, Fill(x, s))
             new == [ptr |-> o + 1, size |-> s, letter |-> x]
  <1>1. r.heap = mark_block_used(m, o) /\ r.ptr = o + 1 /\ r.hist = {}
    BY DEF Given
  <1>2. g = Write(r.heap, r.ptr, Fill(x, s)) /\ new = [ptr |-> r.ptr, size |-> s, letter |-> x]
    BY <1>1
  <1>0. AtEnd(h, B, o, s, x, g, C)
    OBVIOUS
  <1>3. Laid(g, C)
    <2> HIDE DEF g
    <2>1. QED
      BY <1>0, PutAtEnd
  <1>4. Held(g, C, L \cup {new})
    <2> HIDE DEF g
    <2>1. QED
      BY <1>0, EndHeld
  <1>5. o \in Nat /\ C \in Nat
    BY <1>3 DEF AtEnd, Laid, OfBytes
  <1> HIDE DEF r, g, new
  <1>6. r.ptr \in Nat
    BY <1>1, <1>5
  <1>7. Laid(Write(r.heap, r.ptr, Fill(x, s)), C)
    BY <1>2, <1>3
  <1>8. Held(Write(r.heap, r.ptr, Fill(x, s)), C, L \cup {[ptr |-> r.ptr, size |-> s, letter |-> x]})
    BY <1>2, <1>4
  <1>9. Got(r, B, L, s, x)
    BY <1>1, <1>5, <1>6, <1>7, <1>8 DEF Got
  <1>10. QED
    BY <1>9 DEF r

(* The first call.                                                         *)
LEMMA FirstMalloc ==
  ASSUME NEW s \in Request \cup {0}, NEW x \in Letter
  PROVE  Got(_zox_malloc(<<>>, s), 0, {}, s, x)
  <1> DEFINE h == <<>>
             C == s + 5
             m == markup_block(update_heap(h, C), 0, s)
             g == Write(mark_block_used(m, 0), 0 + 1, Fill(x, s))
  <1>1. s \in Nat /\ C \in Nat /\ C >= 0 /\ C = 0 + s + 5
    BY SizesAre
  <1>2. OfBytes(update_heap(h, C), C)
    BY <1>1, NoBytes, UpdatedIs
  <1>3. OfBytes(g, C) /\ Block(g, 0, s, x)
    <2> DEFINE u == update_heap(h, C)
    <2> HIDE DEF u, C
    <2>1. 0 \in Nat /\ 0 + s + 5 <= C
      BY <1>1
    <2>2. OfBytes(u, C)
      BY <1>2 DEF u
    <2>3. /\ OfBytes(Write(mark_block_used(markup_block(u, 0, s), 0), 0 + 1, Fill(x, s)), C)
          /\ Block(Write(mark_block_used(markup_block(u, 0, s), 0), 0 + 1, Fill(x, s)), 0, s, x)
      BY <1>1, <2>1, <2>2, PutIs
    <2>4. QED
      BY <2>3 DEF u
  <1>4. AtEnd(h, 0, 0, s, x, g, C)
    <2> HIDE DEF g, C, h
    <2>1. 0 .. 0 - 1 = {}
      OBVIOUS
    <2>2. QED
      BY <1>1, <1>3, <2>1 DEF AtEnd
  <1>5. _zox_malloc(h, s) = Given(m, 0, {})
    BY WrittenAre DEF _zox_malloc
  <1> HIDE DEF m, h, C
  <1>6. Got(Given(m, 0, {}), 0, {}, s, x)
    BY <1>1, <1>4, GotAtEnd
  <1>7. QED
    BY <1>5, <1>6 DEF h

(* A block put in a gap.                                                   *)
LEMMA MallocInside ==
  ASSUME NEW h, NEW B, NEW L, Laid(h, B), Held(h, B, L),
         NEW s \in Request \cup {0}, NEW x \in Letter, Fitting(h, s) # {}
  PROVE  Got(_zox_malloc(h, s), B, L, s, x)
  <1> DEFINE o == Min(Fitting(h, s))
             m == split_block(h, o, s)
             g == Write(mark_block_used(m, o), o + 1, Fill(x, s))
             size == calculate_block_size(h, o)
             hz == IF size = s + 5 THEN {"tight"} ELSE {}
             r == Given(m, o, hz)
  <1>1. s \in Nat /\ B \in Nat /\ B >= 5 /\ DOMAIN h = 0 .. B - 1 /\ OfBytes(h, B)
    BY SizesAre, BytesAre, Apart DEF Laid
  <1>2. h # <<>>
    <2>1. 0 \in DOMAIN h
      BY <1>1
    <2>2. QED
      BY <2>1
  <1>3. o \in Fitting(h, s)
    <2> DEFINE S == Fitting(h, s)
    <2>1. \A p \in S : p \in Nat
      BY BlocksAre, Apart DEF Fitting
    <2> HIDE DEF S
    <2>2. S \in SUBSET Nat /\ S # {}
      BY <2>1 DEF S
    <2>3. Min(S) \in S
      BY <2>2, MinIs
    <2>4. QED
      BY <2>3 DEF S
  <1>4. _zox_malloc(h, s) = r
    BY <1>2, WrittenAre DEF _zox_malloc
  <1> HIDE DEF o
  <1>5. Start(h, B, o) /\ h[o] = FREE /\ size >= s + 5
    BY <1>3, BlocksAre, WrittenAre DEF Fitting, is_block_free
  <1>6. o \in Nat /\ o <= B - 5
    BY <1>5, Apart
  <1>7. PICK z : FirstAfter(h, B, o, z)
    BY <1>6, FirstExists
  <1>8. size = z - o /\ z \in Nat /\ z + 4 <= B
    BY <1>6, <1>7, SearchIs
  <1> HIDE DEF size
  <1>9. o + s + 6 <= B
    BY <1>1, <1>5, <1>6, <1>8
  <1>10. /\ OfBytes(g, B) /\ Block(g, o, s, x) /\ g[o + s + 5] = h[o]
         /\ \A i \in 0 .. B - 1 : i < o \/ i > o + s + 5 => g[i] = h[i]
    <2>1. PutIn(g, h, B, o, s, x)
      BY <1>1, <1>6, <1>9, SplitPut
    <2>2. QED
      BY <2>1 DEF PutIn
  <1>11. r.heap = mark_block_used(m, o) /\ r.ptr = o + 1 /\ r.hist = hz
    BY DEF Given
  <1>12. g = Write(r.heap, r.ptr, Fill(x, s))
    BY <1>11
  <1> HIDE DEF g, r, m
  <1>13. CASE size = s + 5
    <2>1. r.hist = {"tight"} /\ r.hist # {} /\ r.ptr \in 0 .. B - 1
      BY <1>1, <1>6, <1>11, <1>13
    <2>2. OfBytes(Write(r.heap, r.ptr, Fill(x, s)), B)
      BY <1>10, <1>12
    <2>3. Got(r, B, L, s, x)
      BY <2>1, <2>2 DEF Got
    <2>4. QED
      BY <1>4, <2>3
  <1>14. CASE size # s + 5
    <2>1. o + s + 5 < z
      BY <1>1, <1>5, <1>6, <1>8, <1>14
    <2>2. g[o + s + 5] = FREE
      BY <1>5, <1>10
    <2>3. Laid(g, B)
      BY <1>1, <1>5, <1>7, <1>10, <2>1, <2>2, PutInside
    <2>4. Held(g, B, L \cup {[ptr |-> o + 1, size |-> s, letter |-> x]})
      BY <1>5, <1>7, <1>10, <2>1, <2>2, InsideHeld
    <2>5. r.hist = {} /\ r.ptr \in Nat
      BY <1>6, <1>11, <1>14
    <2>6. Laid(Write(r.heap, r.ptr, Fill(x, s)), B)
      BY <1>12, <2>3
    <2>7. Held(Write(r.heap, r.ptr, Fill(x, s)), B, L \cup {[ptr |-> r.ptr, size |-> s, letter |-> x]})
      BY <1>11, <1>12, <2>4
    <2>8. B \in Nat /\ B >= B
      BY <1>1
    <2>9. Got(r, B, L, s, x)
      BY <2>5, <2>6, <2>7, <2>8 DEF Got
    <2>10. QED
      BY <1>4, <2>9
  <1>15. QED
    BY <1>13, <1>14

(* The end markers of any bytes.                                           *)
LEMMA EndsOf ==
  ASSUME NEW h, NEW B, OfBytes(h, B)
  PROVE  \A e : e \in Ends(h) <=> e \in 0 .. B - 4 /\ Tri(h, e) /\ h[e + 3] = "esc"
  <1>1. B \in Nat /\ Bytes(h) = B
    BY BytesAre DEF OfBytes
  <1>2. Len(EOB) = 4 /\ EOB[1] = "esc" /\ EOB[2] = "bar" /\ EOB[3] = "bar" /\ EOB[4] = "esc"
    BY DEF EOB
  <1>3. 1 .. Len(EOB) = {1, 2, 3, 4}
    BY <1>2
  <1>4. Ends(h) = {e \in 0 .. B - 4 : \A i \in {1, 2, 3, 4} : h[e + i - 1] = EOB[i]}
    BY <1>1, <1>2, <1>3 DEF Ends
  <1>5. ASSUME NEW e \in 0 .. B - 4
        PROVE  (\A i \in {1, 2, 3, 4} : h[e + i - 1] = EOB[i]) <=> Tri(h, e) /\ h[e + 3] = "esc"
    <2>1. e \in Int
      BY <1>1
    <2>2. e + 1 - 1 = e /\ e + 2 - 1 = e + 1 /\ e + 3 - 1 = e + 2 /\ e + 4 - 1 = e + 3
      BY <2>1
    <2>3. (\A i \in {1, 2, 3, 4} : h[e + i - 1] = EOB[i]) <=>
            /\ h[e + 1 - 1] = EOB[1] /\ h[e + 2 - 1] = EOB[2]
            /\ h[e + 3 - 1] = EOB[3] /\ h[e + 4 - 1] = EOB[4]
      OBVIOUS
    <2>4. QED
      BY <1>2, <2>2, <2>3 DEF Tri
  <1>6. QED
    BY <1>4, <1>5

(* The last block, which ends where the heap does.                         *)
LEMMA LastIs ==
  ASSUME NEW h, NEW B, Laid(h, B)
  PROVE  /\ Start(h, B, Max(Blocks(h))) /\ FirstAfter(h, B, Max(Blocks(h)), B - 4)
         /\ \A p : Start(h, B, p) => p <= Max(Blocks(h))
         /\ get_next_block(h, Max(Blocks(h))) = B
  <1> DEFINE S == Blocks(h)
             last == Max(S)
  <1>1. B \in Nat /\ B >= 5 /\ \A p : p \in S <=> Start(h, B, p)
    BY Apart, BlocksAre
  <1>2. \A p \in S : p \in 0 .. B
    BY <1>1, Apart
  <1>3. 0 \in S
    <2>1. Start(h, B, 0)
      BY <1>1 DEF Start
    <2>2. QED
      BY <1>1, <2>1
  <1> HIDE DEF S
  <1>4. PICK x \in S : \A y \in S : y <= x
    BY <1>1, <1>2, <1>3, GreatestNat
  <1>5. last = x
    <2>1. \A y \in S : y <= x /\ y \in Int
      BY <1>1, <1>2, <1>4
    <2>2. QED
      BY <2>1, MaxIs
  <1> HIDE DEF last
  <1>6. Start(h, B, last) /\ \A p : Start(h, B, p) => p <= last
    BY <1>1, <1>4, <1>5
  <1>7. last \in Nat /\ last <= B - 5
    BY <1>6, Apart
  <1>8. PICK z : FirstAfter(h, B, last, z)
    BY <1>7, FirstExists
  <1>9. Mk(h, B, z) /\ z > last /\ z \in Nat /\ z + 4 <= B
    BY <1>8, Apart DEF FirstAfter
  <1>10. z = B - 4
    <2>1. SUFFICES ASSUME z + 4 < B PROVE FALSE
      BY <1>1, <1>9
    <2>2. z + 4 \in 0 .. B - 1 /\ z + 4 >= 4 /\ (z + 4) - 4 = z
      BY <1>1, <1>9, <2>1
    <2>3. Start(h, B, z + 4)
      BY <1>9, <2>2 DEF Start, Mk
    <2>4. z + 4 <= last
      BY <1>6, <2>3
    <2>5. QED
      BY <1>7, <1>9, <2>4
  <1>11. get_next_block(h, last) = z + 4
    BY <1>7, <1>8, SearchIs
  <1>12. (B - 4) + 4 = B
    BY <1>1
  <1>13. QED
    BY <1>6, <1>8, <1>10, <1>11, <1>12 DEF last, S

(* The last block is made longer only if its end is still there: then the  *)
(* heap has not become shorter, and that is the end that is found.         *)
LEMMA GrownIs ==
  ASSUME NEW h, NEW B, Laid(h, B), NEW o, Start(h, B, o), FirstAfter(h, B, o, B - 4),
         NEW C \in Nat, HasEnd(update_heap(h, C), o)
  PROVE  C >= B /\ calculate_block_size(update_heap(h, C), o) = B - 4 - o
  <1> DEFINE g == update_heap(h, C)
             later == {e \in Ends(g) : e > o}
  <1>1. B \in Nat /\ B >= 5 /\ OfBytes(h, B) /\ o \in Nat /\ o <= B - 5
    BY Apart DEF Laid
  <1>2. OfBytes(g, C) /\ \A i \in 0 .. C - 1 : g[i] = IF i < B THEN h[i] ELSE NUL
    BY <1>1, UpdatedIs
  <1> HIDE DEF g
  <1>3. \A e : e \in Ends(g) <=> e \in 0 .. C - 4 /\ Tri(g, e) /\ g[e + 3] = "esc"
    BY <1>2, EndsOf
  <1>4. ASSUME NEW e \in later PROVE e \in Nat /\ e >= B - 4 /\ e + 4 <= C
    <2>1. e \in Nat /\ e > o /\ e + 4 <= C /\ Tri(g, e)
      BY <1>3
    <2>2. ASSUME e + 4 <= B PROVE e >= B - 4
      <3>1. /\ e \in 0 .. C - 1 /\ e + 1 \in 0 .. C - 1 /\ e + 2 \in 0 .. C - 1
            /\ e < B /\ e + 1 < B /\ e + 2 < B /\ e \in 0 .. B - 4
        BY <1>1, <2>1, <2>2
      <3>2. g[e] = h[e] /\ g[e + 1] = h[e + 1] /\ g[e + 2] = h[e + 2]
        BY <1>2, <3>1
      <3>3. Mk(h, B, e)
        BY <2>1, <3>1, <3>2 DEF Mk, Tri
      <3>4. QED
        BY <2>1, <3>3 DEF FirstAfter
    <2>3. QED
      BY <1>1, <2>1, <2>2
  <1>5. PICK e : e \in later
    <2>1. HasEnd(g, o)
      BY DEF g
    <2>2. QED
      BY <2>1 DEF HasEnd
  <1>6. C >= B
    BY <1>1, <1>4, <1>5
  <1>7. B - 4 \in later
    <2>1. B - 4 \in 0 .. C - 4 /\ B - 4 > o /\ B - 4 \in 0 .. B - 3
      BY <1>1, <1>6
    <2>2. /\ B - 4 \in 0 .. C - 1 /\ (B - 4) + 1 \in 0 .. C - 1 /\ (B - 4) + 2 \in 0 .. C - 1
          /\ (B - 4) + 3 \in 0 .. C - 1 /\ B - 4 < B /\ (B - 4) + 1 < B /\ (B - 4) + 2 < B
          /\ (B - 4) + 3 < B
      BY <1>1, <1>6
    <2>3. /\ g[B - 4] = h[B - 4] /\ g[(B - 4) + 1] = h[(B - 4) + 1]
          /\ g[(B - 4) + 2] = h[(B - 4) + 2] /\ g[(B - 4) + 3] = h[(B - 4) + 3]
      BY <1>2, <2>2
    <2>4. Tri(h, B - 4) /\ h[(B - 4) + 3] = "esc"
      BY <2>1 DEF Laid
    <2>5. Tri(g, B - 4) /\ g[(B - 4) + 3] = "esc"
      BY <2>3, <2>4 DEF Tri
    <2>6. QED
      BY <1>3, <2>1, <2>5
  <1>8. Min(later) = B - 4
    <2>1. B - 4 \in later /\ \A f \in later : B - 4 <= f /\ f \in Int
      BY <1>1, <1>4, <1>7
    <2> HIDE DEF later
    <2>2. QED
      BY <1>1, <2>1 DEF Min
  <1>9. calculate_block_size(g, o) = B - 4 - o
    BY <1>8 DEF calculate_block_size
  <1>10. QED
    BY <1>6, <1>9 DEF g

(* A block put after the last one.                                         *)
LEMMA GrowAfter ==
  ASSUME NEW h, NEW B, NEW L, Laid(h, B), Held(h, B, L),
         NEW s \in Request \cup {0}, NEW x \in Letter
  PROVE  Got(Given(markup_block(update_heap(h, B + s + 5), B, s), B, {}), B, L, s, x)
  <1> DEFINE C == B + s + 5
             u == update_heap(h, C)
             m == markup_block(u, B, s)
             g == Write(mark_block_used(m, B), B + 1, Fill(x, s))
  <1>1. /\ s \in Nat /\ B \in Nat /\ B >= 5 /\ OfBytes(h, B) /\ Mk(h, B, B - 4)
        /\ C \in Nat /\ C >= B /\ B <= B /\ B >= 4 /\ B # 0
    BY SizesAre, Apart DEF Laid
  <1>2. OfBytes(u, C) /\ \A i \in 0 .. C - 1 : u[i] = IF i < B THEN h[i] ELSE NUL
    BY <1>1, UpdatedIs
  <1> HIDE DEF u
  <1>3. /\ OfBytes(g, C) /\ Block(g, B, s, x) /\ \A i \in 0 .. B - 1 : g[i] = u[i]
    <2>1. B + s + 5 <= C
      BY <1>1
    <2> HIDE DEF C
    <2>2. QED
      BY <1>1, <1>2, <2>1, PutIs
  <1>4. ASSUME NEW i \in 0 .. B - 1 PROVE g[i] = h[i]
    <2>1. i \in 0 .. C - 1 /\ i < B
      BY <1>1
    <2> HIDE DEF g
    <2>2. QED
      BY <1>2, <1>3, <2>1
  <1>5. AtEnd(h, B, B, s, x, g, C)
    <2>1. C = B + s + 5
      OBVIOUS
    <2> HIDE DEF g, C
    <2>2. QED
      BY <1>1, <1>3, <1>4, <2>1 DEF AtEnd
  <1>6. \A p : Start(h, B, p) /\ h[p] = USED => p < B
    BY <1>1, Apart
  <1> HIDE DEF m, C
  <1>7. Got(Given(m, B, {}), B, L, s, x)
    BY <1>1, <1>5, <1>6, GotAtEnd
  <1>8. QED
    BY <1>7 DEF m, u, C

(* The last block, free, made longer.                                      *)
LEMMA GrowLast ==
  ASSUME NEW h, NEW B, NEW L, Laid(h, B), Held(h, B, L),
         NEW s \in Request \cup {0}, NEW x \in Letter,
         NEW o, Start(h, B, o), h[o] = FREE, FirstAfter(h, B, o, B - 4),
         \A p : Start(h, B, p) => p <= o,
         HasEnd(update_heap(h, o + s + 5), o)
  PROVE  Got(Given(resize_block(update_heap(h, o + s + 5), o, s), o, {}), B, L, s, x)
  <1> DEFINE C == o + s + 5
             u == update_heap(h, C)
             v == Write(u, B - 4, Fill(NUL, 4))
             m == markup_block(v, o, s)
             g == Write(mark_block_used(m, o), o + 1, Fill(x, s))
  <1>1. /\ s \in Nat /\ B \in Nat /\ B >= 5 /\ OfBytes(h, B) /\ o \in Nat /\ o <= B - 5
        /\ C \in Nat /\ USED # FREE /\ NUL \in Byte /\ B - 4 \in Nat
    BY SizesAre, Apart, BytesDiffer, BytesHold DEF Laid
  <1>2. OfBytes(u, C) /\ \A i \in 0 .. C - 1 : u[i] = IF i < B THEN h[i] ELSE NUL
    BY <1>1, UpdatedIs
  <1>3. C >= B /\ calculate_block_size(u, o) = B - 4 - o
    <2> HIDE DEF C
    <2>1. HasEnd(update_heap(h, C), o)
      BY DEF C
    <2>2. QED
      BY <1>1, <2>1, GrownIs
  <1> HIDE DEF u
  <1>4. /\ OfBytes(v, C)
        /\ \A i \in 0 .. C - 1 : v[i] = IF i \in B - 4 .. B - 4 + 4 - 1 THEN NUL ELSE u[i]
    <2> HIDE DEF C
    <2>1. QED
      BY <1>1, <1>2, ByteFilled
  <1>5. resize_block(u, o, s) = m
    <2>1. o + (B - 4 - o) = B - 4
      BY <1>1
    <2>2. QED
      BY <1>3, <2>1, WrittenAre DEF resize_block
  <1> HIDE DEF v
  <1>6. OfBytes(g, C) /\ Block(g, o, s, x) /\ \A i \in 0 .. o - 1 : g[i] = v[i]
    <2>1. o + s + 5 <= C
      BY <1>1
    <2> HIDE DEF C
    <2>2. QED
      BY <1>1, <1>4, <2>1, PutIs
  <1>7. ASSUME NEW i \in 0 .. o - 1 PROVE g[i] = h[i]
    <2>1. i \in 0 .. C - 1 /\ i < B /\ i \notin B - 4 .. B - 4 + 4 - 1
      BY <1>1
    <2>2. g[i] = v[i]
      BY <1>6
    <2> HIDE DEF g, C
    <2>3. v[i] = u[i]
      BY <1>4, <2>1
    <2>4. u[i] = h[i]
      BY <1>2, <2>1
    <2>5. QED
      BY <2>2, <2>3, <2>4
  <1>8. o = 0 \/ (o >= 4 /\ Mk(h, B, o - 4))
    BY <1>1 DEF Start, Mk
  <1>9. AtEnd(h, B, o, s, x, g, C)
    <2>1. C = o + s + 5 /\ o <= B
      BY <1>1
    <2> HIDE DEF g, C
    <2>2. QED
      BY <1>1, <1>6, <1>7, <1>8, <2>1 DEF AtEnd
  <1>10. \A p : Start(h, B, p) /\ h[p] = USED => p < o
    <2>1. \A p : Start(h, B, p) /\ h[p] = USED => p \in Nat /\ p <= o /\ p # o
      BY <1>1, Apart
    <2>2. QED
      BY <1>1, <2>1
  <1>11. o = 0 => L = {}
    <2>1. \A b \in L : Start(h, B, b.ptr - 1) /\ h[b.ptr - 1] = USED /\ b.ptr - 1 >= 0
      <3>1. \A b \in L : Start(h, B, b.ptr - 1) /\ h[b.ptr - 1] = USED
        BY DEF Held
      <3>2. QED
        BY <3>1, Apart
    <2>2. o = 0 => \A b \in L : FALSE
      BY <1>10, <2>1, Apart
    <2>3. QED
      BY <2>2
  <1> HIDE DEF m, C
  <1>12. Got(Given(m, o, {}), B, L, s, x)
    BY <1>1, <1>3, <1>9, <1>10, <1>11, GotAtEnd
  <1>13. QED
    BY <1>5, <1>12 DEF u, C

(* What malloc does when no block fits.                                    *)
LEMMA ExtendIs ==
  ASSUME NEW h, NEW B, NEW L, Laid(h, B), Held(h, B, L),
         NEW s \in Request \cup {0}, NEW x \in Letter
  PROVE  Got(Extend(h, s), B, L, s, x)
  <1> DEFINE last == Max(Blocks(h))
             end == get_next_block(h, last)
             at == IF is_block_free(h, last) THEN last ELSE end
             grown == update_heap(h, at + s + 5)
             shrunk == IF Bytes(grown) < Bytes(h) THEN {"shrunk"} ELSE {}
  <1>1. /\ Start(h, B, last) /\ FirstAfter(h, B, last, B - 4)
        /\ \A p : Start(h, B, p) => p <= last
        /\ end = B
    BY LastIs
  <1>2. Extend(h, s) =
          CASE at = end -> Given(markup_block(grown, end, s), end, {})
            [] at = last /\ HasEnd(grown, last) -> Given(resize_block(grown, last, s), last, shrunk)
            [] OTHER -> [heap |-> h, ptr |-> NOWHERE, hist |-> shrunk]
    BY WrittenAre DEF Extend
  <1>3. /\ s \in Nat /\ B \in Nat /\ B >= 5 /\ last \in Nat /\ last <= B - 5 /\ OfBytes(h, B)
        /\ Bytes(h) = B /\ DOMAIN h = 0 .. B - 1
    BY <1>1, SizesAre, Apart, BytesAre DEF Laid
  <1> HIDE DEF last, end
  <1>4. CASE ~is_block_free(h, last)
    <2>1. at = B /\ at = end
      BY <1>1, <1>4
    <2>2. Extend(h, s) = Given(markup_block(update_heap(h, B + s + 5), B, s), B, {})
      <3>1. grown = update_heap(h, B + s + 5)
        BY <2>1
      <3>2. at # last
        BY <1>3, <2>1
      <3> HIDE DEF at, grown, shrunk
      <3>4. Extend(h, s) = Given(markup_block(grown, end, s), end, {})
        BY <1>2, <2>1, <3>2
      <3>3. QED
        BY <1>1, <3>1, <3>4
    <2>3. QED
      BY <2>2, GrowAfter
  <1>5. CASE is_block_free(h, last)
    <2>1. at = last /\ at # end /\ h[last] = FREE
      BY <1>1, <1>3, <1>5 DEF is_block_free
    <2>2. CASE HasEnd(grown, last)
      <3>1. HasEnd(update_heap(h, last + s + 5), last)
        BY <2>1, <2>2
      <3>2. last + s + 5 \in Nat
        BY <1>3
      <3>3. last + s + 5 >= B
        BY <1>1, <3>1, <3>2, GrownIs
      <3>4. shrunk = {}
        <4>1. OfBytes(update_heap(h, last + s + 5), last + s + 5)
          BY <1>3, <3>2, UpdatedIs
        <4>2. Bytes(update_heap(h, last + s + 5)) = last + s + 5
          BY <4>1, BytesAre
        <4>3. QED
          BY <1>3, <2>1, <3>2, <3>3, <4>2
      <3>5. Extend(h, s) = Given(resize_block(update_heap(h, last + s + 5), last, s), last, {})
        <4> HIDE DEF shrunk
        <4>1. QED
          BY <1>2, <2>1, <2>2, <3>4
      <3>6. QED
        BY <1>1, <2>1, <3>1, <3>5, GrowLast
    <2>3. CASE ~HasEnd(grown, last)
      <3>1. Extend(h, s) = [heap |-> h, ptr |-> NOWHERE, hist |-> shrunk]
        <4> HIDE DEF shrunk, grown
        <4>1. QED
          BY <1>2, <2>1, <2>3
      <3>2. QED
        BY <3>1 DEF Got
    <2>4. QED
      BY <2>2, <2>3
  <1>6. QED
    BY <1>4, <1>5

(* What malloc does with a heap of blocks.                                 *)
LEMMA MallocIs ==
  ASSUME NEW h, NEW B, NEW L, Laid(h, B), Held(h, B, L),
         NEW s \in Request \cup {0}, NEW x \in Letter
  PROVE  Got(_zox_malloc(h, s), B, L, s, x)
  <1>1. h # <<>>
    <2>1. 0 \in DOMAIN h
      BY Apart, BytesAre DEF Laid
    <2>2. QED
      BY <2>1
  <1>2. CASE Fitting(h, s) = {}
    <2>1. _zox_malloc(h, s) = Extend(h, s)
      BY <1>1, <1>2 DEF _zox_malloc
    <2>2. QED
      BY <2>1, ExtendIs
  <1>3. CASE Fitting(h, s) # {}
    BY <1>3, MallocInside
  <1>4. QED
    BY <1>2, <1>3

(* A block cut where its data begin: bytes, and an address among them.     *)
LEMMA CutIs ==
  ASSUME NEW h, NEW B, OfBytes(h, B), NEW L, NEW p \in Nat, p + 1 < B,
         NEW s \in Nat, NEW x \in Letter
  PROVE  Got([heap |-> split_block(h, p, s), ptr |-> p + 1, hist |-> {"realloc"}], B, L, s, x)
  <1> DEFINE r == [heap |-> split_block(h, p, s), ptr |-> p + 1, hist |-> {"realloc"}]
             m == split_block(h, p, s)
  <1>1. B \in Nat /\ p < B
    BY DEF OfBytes
  <1>2. Split(m, h, B, p, s)
    BY <1>1, SplitIs
  <1> HIDE DEF m
  <1>3. OfBytes(m, B)
    BY <1>2 DEF Split
  <1>4. x \in Byte /\ p + 1 \in Nat
    BY BytesHold
  <1>5. OfBytes(Write(m, p + 1, Fill(x, s)), B)
    BY <1>3, <1>4, ByteFilled
  <1>6. r.heap = m /\ r.ptr = p + 1 /\ r.hist = {"realloc"}
    BY DEF m
  <1> HIDE DEF r
  <1>7. r.ptr \in 0 .. B - 1 /\ r.hist # {}
    BY <1>1, <1>6
  <1>8. OfBytes(Write(r.heap, r.ptr, Fill(x, s)), B)
    BY <1>5, <1>6
  <1>9. Got(r, B, L, s, x)
    BY <1>6, <1>7, <1>8 DEF Got
  <1>10. QED
    BY <1>9 DEF r

(* What realloc does.                                                      *)
LEMMA ReallocIs ==
  ASSUME NEW h, NEW B, NEW L, Laid(h, B), Held(h, B, L), NEW b \in L,
         NEW s \in Request \cup {0}
  PROVE  Got(_zox_realloc(h, b.ptr, s), B, L \ {b}, s, b.letter)
  <1> DEFINE p == b.ptr
             r == _zox_realloc(h, p, s)
             next == get_next_block(h, p)
             current == calculate_block_size(h, p)
             Cut(g) == [heap |-> split_block(g, p, s), ptr |-> p + 1, hist |-> {"realloc"}]
             nothing == [heap |-> h, ptr |-> NOWHERE, hist |-> {"realloc"}]
             again == _zox_malloc(_zox_free(h, p), s)
             fits == current >= s + BLOCK_OVERHEAD
             joins == /\ current < s + BLOCK_OVERHEAD
                      /\ next < Bytes(h)
                      /\ calculate_block_size(h, next) + BLOCK_OVERHEAD + current >= s
  <1>1. p \in Nat /\ b.letter \in Letter /\ Start(h, B, p - 1)
    BY DEF Held
  <1>2. /\ B \in Nat /\ s \in Nat /\ OfBytes(h, B) /\ Bytes(h) = B
        /\ p - 1 <= B - 5 /\ p <= B - 4 /\ p + 1 < B
    <2>1. p - 1 <= B - 5 /\ B \in Nat
      BY <1>1, Apart
    <2>2. p <= B - 4 /\ p + 1 < B
      BY <1>1, <2>1
    <2>3. QED
      BY <2>1, <2>2, SizesAre, BytesAre DEF Laid
  <1>3. \/ r = nothing \/ r = Cut(h)
        \/ HasEnd(h, p) /\ r = Cut(Joined(h, next))
        \/ r = again
    <2>1. r = IF ~HasEnd(h, p) THEN nothing
              ELSE CASE fits -> Cut(h) [] joins -> Cut(Joined(h, next)) [] OTHER -> again
      BY DEF _zox_realloc
    <2> HIDE DEF r, nothing, fits, joins, Cut, again
    <2>2. QED
      BY <2>1
  <1>4. CASE r = nothing
    BY <1>4 DEF Got
  <1>5. CASE r = Cut(h)
    <2>1. Got(Cut(h), B, L \ {b}, s, b.letter)
      BY <1>1, <1>2, CutIs
    <2>2. QED
      BY <1>5, <2>1
  <1>6. CASE HasEnd(h, p) /\ r = Cut(Joined(h, next))
    <2>1. \E e : Mk(h, B, e) /\ e > p
      BY <1>6, EndsAre DEF HasEnd
    <2>2. p <= B - 5
      <3>1. PICK e : Mk(h, B, e) /\ e > p
        BY <2>1
      <3>2. e \in Nat /\ e + 4 <= B
        BY <3>1, Apart
      <3>3. QED
        BY <1>1, <1>2, <3>1, <3>2
    <2>3. PICK z : FirstAfter(h, B, p, z)
      BY <1>1, <2>2, FirstExists
    <2>4. next = z + 4 /\ z \in Nat
      BY <1>1, <2>3, SearchIs
    <2> HIDE DEF next
    <2>5. OfBytes(Joined(h, next), B)
      <3>1. Joined(h, next) = Write(h, z, Fill(NUL, 4))
        <4>1. next - 4 = z
          BY <2>4
        <4>2. QED
          BY <4>1, WrittenAre DEF Joined
      <3>2. OfBytes(Write(h, z, Fill(NUL, 4)), B)
        BY <1>2, <2>4, BytesHold, ByteFilled
      <3>3. QED
        BY <3>1, <3>2
    <2>6. Got(Cut(Joined(h, next)), B, L \ {b}, s, b.letter)
      <3> DEFINE j == Joined(h, next)
      <3>1. OfBytes(j, B)
        BY <2>5
      <3> HIDE DEF j
      <3>2. Got(Cut(j), B, L \ {b}, s, b.letter)
        BY <1>1, <1>2, <3>1, CutIs
      <3>3. QED
        BY <3>2 DEF j
    <2>7. QED
      BY <1>6, <2>6
  <1>7. CASE r = again
    <2>1. Freed(_zox_free(h, p), h, B, L, b)
      BY FreeIs
    <2>2. Laid(_zox_free(h, p), B) /\ Held(_zox_free(h, p), B, L \ {b})
      BY <2>1 DEF Freed
    <2>3. Got(again, B, L \ {b}, s, b.letter)
      BY <1>1, <2>2, MallocIs
    <2>4. QED
      BY <1>7, <2>3
  <1>8. QED
    BY <1>3, <1>4, <1>5, <1>6, <1>7

-----------------------------------------------------------------------------
(***************************************************************************)
(* The invariant, and the theorems.                                        *)
(***************************************************************************)

(* While no hazard has happened the heap is one of blocks, and they are    *)
(* held; before the first malloc there is no heap.                         *)
Whole ==
  process = "up" /\ hist = {} =>
    \/ heap = <<>> /\ live = {}
    \/ Laid(heap, Bytes(heap)) /\ Held(heap, Bytes(heap), live)

IInv == OfBytes(heap, Bytes(heap)) /\ TypeOK /\ Whole

(* It holds at first.                                                      *)
LEMMA InitWhole == Init => IInv
  <1> SUFFICES ASSUME Init PROVE IInv
    OBVIOUS
  <1>1. heap = <<>> /\ live = {} /\ process = "up" /\ hist = {} /\ calls = 0
    BY DEF Init
  <1>2. Bytes(heap) = 0 /\ OfBytes(heap, Bytes(heap))
    BY <1>1, NoBytes, BytesAre
  <1>3. DOMAIN heap = 0 .. Bytes(heap) - 1
    BY <1>2, BytesAre
  <1>4. 0 .. 0 - 1 = {} /\ MaxCalls \in Nat
    BY RequestsAreSizes
  <1>5. DOMAIN heap = {}
    BY <1>2, <1>3, <1>4
  <1>6. TypeOK
    BY <1>1, <1>3, <1>4, <1>5 DEF TypeOK
  <1>7. QED
    BY <1>1, <1>2, <1>6 DEF IInv, Whole

(* Held blocks are in the heap.                                            *)
LEMMA HeldInside ==
  ASSUME NEW h, NEW B, NEW L, Laid(h, B), Held(h, B, L)
  PROVE  \A b \in L : b.ptr \in 0 .. B - 1 /\ b.size \in Request \cup {0} /\ b.letter \in Letter
  <1> SUFFICES ASSUME NEW b \in L
               PROVE  b.ptr \in 0 .. B - 1 /\ b.size \in Request \cup {0} /\ b.letter \in Letter
    OBVIOUS
  <1>1. b.ptr \in Nat /\ b.size \in Request \cup {0} /\ b.letter \in Letter /\ Start(h, B, b.ptr - 1)
    BY DEF Held
  <1>2. b.ptr - 1 <= B - 5 /\ B \in Nat
    BY <1>1, Apart
  <1>3. QED
    BY <1>1, <1>2

(* The heap does not become shorter while the process is up.               *)
Longer == process' = "up" => Bytes(heap') >= Bytes(heap)

(* A call that returns.                                                    *)
LEMMA ReturnKeeps ==
  ASSUME IInv, Call, NEW r, NEW s \in Request \cup {0}, NEW x \in Letter, NEW old,
         Got(r, Bytes(heap), live \ old, s, x), Return(r, s, x, old)
  PROVE  IInv' /\ Longer
  <1> DEFINE B == Bytes(heap)
             g == Write(r.heap, r.ptr, Fill(x, s))
             new == [ptr |-> r.ptr, size |-> s, letter |-> x]
  <1>1. process = "up" /\ hist = {} /\ calls' \in 0 .. MaxCalls
    BY RequestsAreSizes DEF Call, IInv, TypeOK
  <1>2. /\ OfBytes(heap, B) /\ B \in Nat /\ DOMAIN heap = 0 .. B - 1
        /\ \A b \in live : b.ptr \in DOMAIN heap /\ b.size \in Request \cup {0} /\ b.letter \in Letter
    BY DEF IInv, OfBytes, TypeOK
  <1>3. hist' = r.hist /\ hist' \subseteq {"tight", "shrunk", "realloc"}
    BY <1>1 DEF Return, Got
  <1>4. CASE r.ptr = NOWHERE
    <2>1. process' = "crashed" /\ heap' = heap /\ live' = live
      BY <1>4 DEF Return
    <2>2. OfBytes(heap', Bytes(heap'))
      BY <1>2, <2>1
    <2>3. TypeOK'
      <3>1. \A b \in live' : b.ptr \in DOMAIN heap' /\ b.size \in Request \cup {0} /\ b.letter \in Letter
        BY <1>2, <2>1
      <3>2. DOMAIN heap' = 0 .. Bytes(heap') - 1 /\ \A i \in DOMAIN heap' : heap'[i] \in Byte
        BY <2>2 DEF OfBytes
      <3>3. QED
        BY <1>1, <1>3, <2>1, <3>1, <3>2 DEF TypeOK, Byte
    <2>4. QED
      BY <2>1, <2>2, <2>3 DEF IInv, Whole, Longer
  <1>5. ASSUME r.ptr # NOWHERE
        PROVE  heap' = g /\ live' = (live \ old) \cup {new} /\ process' = "up"
    BY <1>1, <1>5 DEF Return
  <1>6. CASE r.ptr # NOWHERE /\ r.hist = {}
    <2>1. PICK C : /\ C \in Nat /\ C >= B /\ Laid(g, C) /\ Held(g, C, (live \ old) \cup {new})
      BY <1>6 DEF Got
    <2>2. heap' = g /\ live' = (live \ old) \cup {new} /\ process' = "up"
      BY <1>5, <1>6
    <2> HIDE DEF g, new
    <2>3. Laid(heap', C) /\ Held(heap', C, live')
      BY <2>1, <2>2
    <2>4. OfBytes(heap', C)
      BY <2>3 DEF Laid
    <2>5. Bytes(heap') = C
      BY <2>4, BytesAre
    <2>6. \A b \in live' : b.ptr \in 0 .. C - 1 /\ b.size \in Request \cup {0} /\ b.letter \in Letter
      BY <2>3, HeldInside
    <2>7. TypeOK'
      <3>1. DOMAIN heap' = 0 .. C - 1 /\ \A i \in DOMAIN heap' : heap'[i] \in Byte
        BY <2>4 DEF OfBytes
      <3>2. QED
        BY <1>1, <1>3, <2>2, <2>5, <2>6, <3>1 DEF TypeOK, Byte
    <2>8. Whole'
      BY <2>3, <2>5 DEF Whole
    <2>9. Longer
      BY <2>1, <2>5 DEF Longer
    <2>10. QED
      BY <2>4, <2>5, <2>7, <2>8, <2>9 DEF IInv
  <1>7. CASE r.ptr # NOWHERE /\ r.hist # {}
    <2>1. r.ptr \in 0 .. B - 1 /\ OfBytes(g, B)
      BY <1>7 DEF Got
    <2>2. heap' = g /\ live' = (live \ old) \cup {new} /\ process' = "up"
      BY <1>5, <1>7
    <2>3. new.ptr = r.ptr /\ new.size = s /\ new.letter = x
      OBVIOUS
    <2> HIDE DEF g, new
    <2>4. OfBytes(heap', B)
      BY <2>1, <2>2
    <2>5. Bytes(heap') = B
      BY <2>4, BytesAre
    <2>6. \A b \in live' : b.ptr \in 0 .. B - 1 /\ b.size \in Request \cup {0} /\ b.letter \in Letter
      BY <1>2, <2>1, <2>2, <2>3
    <2>7. TypeOK'
      <3>1. DOMAIN heap' = 0 .. B - 1 /\ \A i \in DOMAIN heap' : heap'[i] \in Byte
        BY <2>4 DEF OfBytes
      <3>2. QED
        BY <1>1, <1>3, <2>2, <2>5, <2>6, <3>1 DEF TypeOK, Byte
    <2>8. Whole'
      BY <1>3, <1>7 DEF Whole
    <2>9. Longer
      BY <1>2, <2>5 DEF Longer
    <2>10. QED
      BY <2>4, <2>5, <2>7, <2>8, <2>9 DEF IInv
  <1>8. QED
    BY <1>4, <1>6, <1>7

(* malloc.                                                                 *)
LEMMA MallocKeeps == ASSUME IInv, Malloc PROVE IInv' /\ Longer
  <1>1. PICK s \in Request, x \in Letter : Return(_zox_malloc(heap, s), s, x, {})
    BY DEF Malloc
  <1>2. Call /\ process = "up" /\ hist = {}
    BY DEF Malloc, Call
  <1>3. s \in Request \cup {0} /\ live \ {} = live
    BY <1>1
  <1>4. Got(_zox_malloc(heap, s), Bytes(heap), live \ {}, s, x)
    <2>1. CASE heap = <<>> /\ live = {}
      <3>1. Bytes(heap) = 0
        BY <2>1, NoBytes, BytesAre
      <3>2. Got(_zox_malloc(<<>>, s), 0, {}, s, x)
        BY <1>3, FirstMalloc
      <3>3. QED
        BY <1>3, <2>1, <3>1, <3>2
    <2>2. CASE Laid(heap, Bytes(heap)) /\ Held(heap, Bytes(heap), live)
      <3>1. Got(_zox_malloc(heap, s), Bytes(heap), live, s, x)
        BY <1>3, <2>2, MallocIs
      <3>2. QED
        BY <1>3, <3>1
    <2>3. QED
      BY <1>2, <2>1, <2>2 DEF IInv, Whole
  <1>5. QED
    BY <1>1, <1>2, <1>3, <1>4, ReturnKeeps

(* realloc.                                                                *)
LEMMA ReallocKeeps == ASSUME IInv, Realloc PROVE IInv' /\ Longer
  <1>1. PICK b \in live, s \in Request \cup {0} :
          Return(_zox_realloc(heap, b.ptr, s), s, b.letter, {b})
    BY DEF Realloc
  <1>2. Call /\ process = "up" /\ hist = {}
    BY DEF Realloc, Call
  <1>3. Laid(heap, Bytes(heap)) /\ Held(heap, Bytes(heap), live)
    BY <1>1, <1>2 DEF IInv, Whole
  <1>4. Got(_zox_realloc(heap, b.ptr, s), Bytes(heap), live \ {b}, s, b.letter)
    BY <1>3, ReallocIs
  <1>5. b.letter \in Letter
    BY DEF IInv, TypeOK
  <1>6. QED
    BY <1>1, <1>2, <1>4, <1>5, ReturnKeeps

(* free.                                                                   *)
LEMMA FreeKeeps ==
  ASSUME IInv, Free
  PROVE  /\ IInv' /\ Longer
         /\ \A b \in live \ live' : Freed(heap', heap, Bytes(heap), live, b)
  <1> DEFINE B == Bytes(heap)
  <1>1. PICK b \in live : heap' = _zox_free(heap, b.ptr) /\ live' = live \ {b}
    BY DEF Free
  <1>2. /\ process = "up" /\ hist = {} /\ process' = "up" /\ hist' = {}
        /\ calls' \in 0 .. MaxCalls
    BY RequestsAreSizes DEF Free, Call, IInv, TypeOK
  <1>3. Laid(heap, B) /\ Held(heap, B, live)
    BY <1>1, <1>2 DEF IInv, Whole
  <1>4. Freed(heap', heap, B, live, b)
    BY <1>1, <1>3, FreeIs
  <1>5. Laid(heap', B) /\ Held(heap', B, live')
    BY <1>1, <1>4 DEF Freed
  <1>6. OfBytes(heap', B)
    BY <1>5 DEF Laid
  <1>7. Bytes(heap') = B /\ B \in Nat
    BY <1>6, BytesAre DEF OfBytes
  <1>8. \A c \in live' : c.ptr \in 0 .. B - 1 /\ c.size \in Request \cup {0} /\ c.letter \in Letter
    BY <1>5, HeldInside
  <1>9. TypeOK'
    <2>1. DOMAIN heap' = 0 .. B - 1 /\ \A i \in DOMAIN heap' : heap'[i] \in Byte
      BY <1>6 DEF OfBytes
    <2>2. QED
      BY <1>2, <1>7, <1>8, <2>1 DEF TypeOK, Byte
  <1>10. IInv' /\ Longer
    BY <1>5, <1>6, <1>7, <1>9 DEF IInv, Whole, Longer
  <1>11. \A c \in live \ live' : c = b
    BY <1>1
  <1>12. QED
    BY <1>4, <1>10, <1>11

(* Every step keeps the invariant, and the bytes.                          *)
LEMMA StepKeeps == ASSUME IInv, [Next]_vars PROVE IInv' /\ Longer
  <1>1. CASE Malloc
    BY <1>1, MallocKeeps
  <1>2. CASE Free
    BY <1>2, FreeKeeps
  <1>3. CASE Realloc
    BY <1>3, ReallocKeeps
  <1>4. ASSUME UNCHANGED <<heap, live, hist>>, process' \in {"up", "closed", "crashed"},
               calls' \in 0 .. MaxCalls, process' = "up" => process = "up"
        PROVE  IInv' /\ Longer
    <2>1. OfBytes(heap', Bytes(heap'))
      BY <1>4 DEF IInv
    <2>2. Whole'
      BY <1>4 DEF IInv, Whole
    <2>3. TypeOK'
      BY <1>4 DEF IInv, TypeOK, Bytes
    <2>4. Bytes(heap) \in Nat /\ heap' = heap
      BY <1>4 DEF IInv, OfBytes
    <2>5. QED
      BY <2>1, <2>2, <2>3, <2>4 DEF IInv, Longer
  <1>5. CASE Exit
    <2>1. UNCHANGED <<heap, live, hist>> /\ process' = "closed" /\ calls' \in 0 .. MaxCalls
      BY <1>5, RequestsAreSizes DEF Exit, Call, IInv, TypeOK
    <2>2. QED
      BY <1>4, <2>1
  <1>6. CASE UNCHANGED vars
    <2>1. UNCHANGED <<heap, live, hist>> /\ process' = process /\ calls' = calls
      BY <1>6 DEF vars
    <2>2. process \in {"up", "closed", "crashed"} /\ calls \in 0 .. MaxCalls
      BY DEF IInv, TypeOK
    <2>3. QED
      BY <1>4, <2>1, <2>2
  <1>7. QED
    BY <1>1, <1>2, <1>3, <1>5, <1>6 DEF Next

(* The invariant always holds.                                             *)
LEMMA Always == Spec => []IInv
  <1>1. Init => IInv
    BY InitWhole
  <1>2. IInv /\ [Next]_vars => IInv'
    BY StepKeeps
  <1>3. QED
    BY <1>1, <1>2, PTL DEF Spec

(* Bytes, blocks and hazards are always what they should be, whatever the  *)
(* sizes and letters (zox-mem.c:43-155).                                   *)
THEOREM Typed == Spec => []TypeOK
  <1>1. IInv => TypeOK
    BY DEF IInv
  <1>2. QED
    BY <1>1, Always, PTL

(* The walk over end markers (heap_block.c:27-97) always finds blocks that *)
(* tile the heap, and those in use are the clients', one each, with room.  *)
THEOREM Tiled == Spec => []BlocksTile
  <1>1. IInv => BlocksTile
    <2> SUFFICES ASSUME IInv, Sound PROVE BlocksTile
      BY DEF BlocksTile
    <2> DEFINE B == Bytes(heap)
               blocks == Blocks(heap)
               used == {o \in blocks : heap[o] = USED}
    <2>1. Laid(heap, B) /\ Held(heap, B, live)
      BY DEF IInv, Whole, Sound
    <2>2. \A o : o \in blocks <=> Start(heap, B, o)
      BY <2>1, BlocksAre
    <2>3. B - Len(EOB) \in Ends(heap)
      BY <2>1, EndsAre, Apart, WrittenAre
    <2>4. \A o \in blocks : heap[o] \in {USED, FREE} /\ o \in Nat
      BY <2>1, <2>2, Apart DEF Mark
    <2> HIDE DEF blocks
    <2>5. {o + 1 : o \in used} = {b.ptr : b \in live}
      <3>1. ASSUME NEW o \in used PROVE o + 1 \in {b.ptr : b \in live}
        <4>1. PICK b \in live : b.ptr = o + 1
          BY <2>1, <2>2 DEF Held
        <4>2. QED
          BY <4>1
      <3>2. ASSUME NEW b \in live PROVE b.ptr \in {o + 1 : o \in used}
        <4>1. Start(heap, B, b.ptr - 1) /\ heap[b.ptr - 1] = USED /\ b.ptr \in Nat
          BY <2>1 DEF Held
        <4>2. b.ptr - 1 \in used /\ (b.ptr - 1) + 1 = b.ptr
          BY <2>2, <4>1
        <4>3. QED
          BY <4>2
      <3>3. QED
        BY <3>1, <3>2
    <2>6. ASSUME NEW b \in live PROVE b.size < calculate_block_size(heap, b.ptr - 1)
      <3>1. /\ Start(heap, B, b.ptr - 1) /\ b.ptr \in Nat /\ b.size \in Nat
            /\ \A e : Mk(heap, B, e) /\ e >= b.ptr => e >= b.ptr + b.size
        BY <2>1, SizesAre DEF Held
      <3>2. b.ptr - 1 \in Nat /\ b.ptr - 1 <= B - 5
        BY <2>1, <3>1, Apart
      <3>3. PICK z : FirstAfter(heap, B, b.ptr - 1, z)
        BY <2>1, <3>2, FirstExists
      <3>4. calculate_block_size(heap, b.ptr - 1) = z - (b.ptr - 1) /\ z \in Nat
        BY <2>1, <3>2, <3>3, SearchIs
      <3>5. Mk(heap, B, z) /\ z > b.ptr - 1
        BY <3>3 DEF FirstAfter
      <3>6. z >= b.ptr + b.size
        BY <3>1, <3>4, <3>5
      <3>7. QED
        BY <3>1, <3>4, <3>6
    <2>7. QED
      BY <2>3, <2>4, <2>5, <2>6 DEF BlocksTile, blocks
  <1>2. QED
    BY <1>1, Always, PTL

(* Nobody but its client writes over a block (zox-mem.c:43-155).           *)
THEOREM Keeping == Spec => []Kept
  <1>1. IInv => Kept
    BY DEF IInv, Whole, Sound, Kept, Held
  <1>2. QED
    BY <1>1, Always, PTL

(* A freed block is joined with its free neighbours, but for the first     *)
(* block of the heap (heap_block.c:41-55, zox-mem.c:80-98).                *)
THEOREM Joining == Spec => FreeJoins
  <1>1. ASSUME IInv, [Next]_vars, NEW b \in live \ live', Free, Sound
        PROVE  LET o == b.ptr - 1
                   next == get_next_block(heap, o)
                   before == {p \in Blocks(heap) : p < o}
                   after == Blocks(heap')
               IN  /\ is_block_free(heap, next) => next \notin after
                   /\ before # {} /\ Max(before) # 0 /\ is_block_free(heap, Max(before))
                        => o \notin after
    <2> DEFINE B == Bytes(heap)
               o == b.ptr - 1
               next == get_next_block(heap, o)
               before == {p \in Blocks(heap) : p < o}
               after == Blocks(heap')
    <2>1. Laid(heap, B) /\ Held(heap, B, live)
      BY <1>1 DEF IInv, Whole, Sound
    <2>2. Freed(heap', heap, B, live, b)
      BY <1>1, FreeKeeps
    <2>3. /\ Laid(heap', B)
          /\ \A z : FirstAfter(heap, B, o, z) /\ z + 4 < B /\ heap[z + 4] = FREE
                      => ~Start(heap', B, z + 4)
          /\ \A p : /\ Start(heap, B, p) /\ p # 0 /\ p < o /\ heap[p] = FREE
                    /\ \A q : Start(heap, B, q) /\ q < o => q <= p
                    => ~Start(heap', B, o)
      BY <2>2 DEF Freed
    <2>4. /\ \A p : p \in after <=> Start(heap', B, p)
          /\ \A p : p \in Blocks(heap) <=> Start(heap, B, p)
      BY <2>1, <2>3, BlocksAre
    <2>5. Start(heap, B, o) /\ o \in Nat /\ o <= B - 5 /\ DOMAIN heap = 0 .. B - 1 /\ B \in Nat
      <3>1. Start(heap, B, o)
        BY <2>1 DEF Held
      <3>2. QED
        BY <2>1, <3>1, Apart, BytesAre DEF Laid
    <2> HIDE DEF o, after
    <2>6. ASSUME is_block_free(heap, next) PROVE next \notin after
      <3>1. PICK z : FirstAfter(heap, B, o, z)
        BY <2>1, <2>5, FirstExists
      <3>2. next = z + 4 /\ z \in Nat
        BY <2>1, <2>5, <3>1, SearchIs
      <3>3. z + 4 < B /\ heap[z + 4] = FREE
        BY <2>5, <2>6, <3>2 DEF is_block_free
      <3>4. QED
        BY <2>3, <2>4, <3>1, <3>2, <3>3
    <2>7. ASSUME before # {}, Max(before) # 0, is_block_free(heap, Max(before))
          PROVE  o \notin after
      <3>1. \A p \in before : p \in 0 .. B /\ p < o /\ Start(heap, B, p)
        BY <2>1, <2>4, <2>5, Apart
      <3>2. \A q : Start(heap, B, q) /\ q < o => q \in before
        BY <2>4
      <3> HIDE DEF before
      <3>3. before \in SUBSET (0 .. B)
        BY <3>1
      <3>4. PICK p \in before : \A q \in before : q <= p
        BY <2>5, <2>7, <3>3, GreatestNat
      <3>5. Max(before) = p
        <4>1. \A q \in before : q <= p /\ q \in Int
          BY <2>5, <3>1, <3>4
        <4>2. QED
          BY <4>1, MaxIs
      <3>6. Start(heap, B, p) /\ p # 0 /\ p < o /\ heap[p] = FREE
        BY <2>7, <3>1, <3>5 DEF is_block_free
      <3>7. \A q : Start(heap, B, q) /\ q < o => q <= p
        BY <3>2, <3>4
      <3>8. QED
        BY <2>3, <2>4, <3>6, <3>7
    <2>8. QED
      BY <2>6, <2>7 DEF o, after
  <1>2. IInv /\ [Next]_vars =>
          [\A b \in live \ live' :
             Free /\ Sound =>
               LET o == b.ptr - 1
                   next == get_next_block(heap, o)
                   before == {p \in Blocks(heap) : p < o}
                   after == Blocks(heap')
               IN  /\ is_block_free(heap, next) => next \notin after
                   /\ before # {} /\ Max(before) # 0 /\ is_block_free(heap, Max(before))
                        => o \notin after]_vars
    BY <1>1
  <1>3. QED
    BY <1>2, Always, PTL DEF Spec, FreeJoins

(* malloc never goes on with a shorter heap (zox-mem.c:43-44).             *)
THEOREM NoShorter == Spec => NeverShrinks
  <1>1. IInv /\ [Next]_vars => [process' = "up" => Bytes(heap') >= Bytes(heap)]_vars
    BY StepKeeps DEF Longer
  <1>2. QED
    BY <1>1, Always, PTL DEF Spec, NeverShrinks
=============================================================================
