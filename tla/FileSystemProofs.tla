-------------------------- MODULE FileSystemProofs --------------------------
(***************************************************************************)
(* Proofs about the file system of lab7, for any size of the image and of  *)
(* a block, any names and any host files: the types hold, the clusters in  *)
(* memory form one tree within every command too, between two commands the *)
(* image file holds what memory holds, a file reads back as it was loaded, *)
(* a command that is cut loses nothing it was not told to remove, and load *)
(* has the space its check promises.                                       *)
(*                                                                         *)
(* The invariant of the code counts the references to a cluster.  The      *)
(* proofs use an equal form without counting (Tree), follow from it that   *)
(* the walks of the code end where they should, and show of each change    *)
(* that commands make (an entry added, moved, removed, a block added) that *)
(* it leaves a tree.  A second invariant (MoreInv) then follows what every *)
(* cluster holds, in memory, in the image file and in the writes between.  *)
(***************************************************************************)
EXTENDS FileSystem, Iteration, SequenceTheorems, TLAPS

(* The clusters as memory and the image file hold them.                    *)
Image == [Cluster -> Contents]

(* The clusters that c refers to.                                          *)
Kids(m, c) ==
  ToSet(m[c].subs) \cup IF m[c].type = "FILE" THEN {m[c].next} \ {NONE} ELSE {}

(* The clusters are finitely many.                                         *)
LEMMA Clusters ==
  /\ IsFiniteSet(Cluster) /\ Cardinality(Cluster) = Count /\ Count \in Nat
  /\ Root \in Cluster /\ NONE \notin Cluster
  <1>1. Count \in Nat \ {0}
    BY SizesAreNumbers
  <1>2. IsFiniteSet(0 .. Count - 1) /\ Cardinality(0 .. Count - 1) = Count
    BY <1>1, FS_Interval
  <1>3. QED
    BY <1>1, <1>2 DEF Cluster, Root, NONE

(* The fields of a cluster.                                                *)
LEMMA Fields ==
  ASSUME NEW m \in Image, NEW c \in Cluster
  PROVE  /\ m[c].type \in Type /\ m[c].parent \in Cluster \cup {NONE}
         /\ m[c].name \in Name \cup {"", "/"} /\ m[c].used \in Nat
         /\ m[c].next \in Cluster \cup {NONE} /\ m[c].subs \in Seq(Cluster)
         /\ m[c].data \in (Host \cup {NoHost}) \X Nat
         /\ m[c].type # "DIRECTORY" => m[c].subs = <<>>
  BY DEF Image, Contents

(* The elements of a sequence.                                             *)
LEMMA Elements ==
  ASSUME NEW A, NEW s \in Seq(A)
  PROVE  /\ ToSet(s) = {s[i] : i \in 1 .. Len(s)} /\ ToSet(s) \subseteq A
         /\ \A x : x \in ToSet(s) <=> \E i \in 1 .. Len(s) : s[i] = x
  BY DEF ToSet

(* An empty sequence has none.                                             *)
LEMMA NoElements == ToSet(<<>>) = {}
  BY DEF ToSet

(* What a cluster refers to are clusters.                                  *)
LEMMA KidsType ==
  ASSUME NEW m \in Image, NEW c \in Cluster
  PROVE  Kids(m, c) \in SUBSET Cluster
  <1>1. ToSet(m[c].subs) \in SUBSET Cluster /\ m[c].next \in Cluster \cup {NONE}
    BY Fields, Elements
  <1>2. QED
    BY <1>1 DEF Kids

(* Below is the least set that holds c and what its directories list.      *)
LEMMA BelowIs ==
  ASSUME NEW m \in Image, NEW c \in Cluster
  PROVE  /\ Below(m, c) \in SUBSET Cluster /\ c \in Below(m, c)
         /\ \A x \in Below(m, c) : ToSet(m[x].subs) \subseteq Below(m, c)
         /\ \A S \in SUBSET Cluster :
              c \in S /\ (\A x \in S : ToSet(m[x].subs) \subseteq S) => Below(m, c) \subseteq S
  <1> DEFINE P == SUBSET Cluster
             G == [X \in P |-> X \cup UNION {ToSet(m[x].subs) : x \in X}]
             H == [p \in (1 .. Count) \X P |-> G[p[2]]]
             IsUnder(w) == w = [n \in 0 .. Count |-> IF n = 0 THEN {c}
                                 ELSE w[n - 1] \cup UNION {ToSet(m[x].subs) : x \in w[n - 1]}]
             w == CHOOSE w : IsUnder(w)
  <1>0. Count \in Nat /\ {c} \in P
    BY Clusters
  <1>1. \A x \in Cluster : ToSet(m[x].subs) \in SUBSET Cluster
    BY Fields, Elements
  <1>2. G \in [P -> P]
    BY <1>1
  <1>3. PICK u : RunOf(u, H, Count, P, {c})
    <2>1. StepOn(H, Count, P)
      BY <1>2 DEF StepOn
    <2> HIDE DEF H, P
    <2>2. QED
      BY <1>0, <2>1, Runs
  <1>4. \A n \in 1 .. Count : u[n - 1] \in SUBSET Cluster /\ u[n] = G[u[n - 1]]
    <2> SUFFICES ASSUME NEW n \in 1 .. Count
                 PROVE  u[n - 1] \in SUBSET Cluster /\ u[n] = G[u[n - 1]]
      OBVIOUS
    <2>1. n - 1 \in 0 .. Count
      BY Clusters
    <2>2. QED
      BY <1>3, <2>1 DEF RunOf
  <1>5. IsUnder(u)
    <2>1. \A n \in 0 .. Count : u[n] = IF n = 0 THEN {c}
             ELSE u[n - 1] \cup UNION {ToSet(m[x].subs) : x \in u[n - 1]}
      <3> SUFFICES ASSUME NEW n \in 0 .. Count, n # 0
                   PROVE  u[n] = u[n - 1] \cup UNION {ToSet(m[x].subs) : x \in u[n - 1]}
        BY <1>3 DEF RunOf
      <3>1. n \in 1 .. Count
        BY <1>0
      <3>2. QED
        BY <1>4, <3>1
    <2>2. u = [n \in 0 .. Count |-> u[n]]
      BY <1>3 DEF RunOf
    <2>3. QED
      BY <2>1, <2>2
  <1>6. IsUnder(w)
    <2> HIDE DEF IsUnder
    <2>1. QED
      BY <1>5
  <1>7. Below(m, c) = w[Count]
    BY DEF Below
  <1> HIDE DEF w
  <1>8. \A n \in 0 .. Count : w[n] = u[n]
    <2>1. w[0] = u[0] /\ \A n \in 1 .. Count : u[n - 1] = w[n - 1] => u[n] = w[n]
      <3>1. w[0] = {c} /\ u[0] = {c}
        BY <1>0, <1>3, <1>6 DEF RunOf
      <3> SUFFICES ASSUME NEW n \in 1 .. Count, u[n - 1] = w[n - 1]
                   PROVE  u[n] = w[n]
        BY <3>1
      <3>2. n \in 0 .. Count /\ n # 0
        BY <1>0
      <3>3. w[n] = w[n - 1] \cup UNION {ToSet(m[x].subs) : x \in w[n - 1]}
        BY <1>6, <3>2
      <3>4. u[n] = u[n - 1] \cup UNION {ToSet(m[x].subs) : x \in u[n - 1]}
        BY <1>4
      <3>5. QED
        BY <3>3, <3>4
    <2> HIDE DEF IsUnder
    <2>2. QED
      BY <1>0, <2>1, SameRun
  <1>9. Below(m, c) = u[Count] /\ Below(m, c) \in SUBSET Cluster
    BY <1>3, <1>7, <1>8, Clusters DEF RunOf
  <1>10. G[u[Count]] = u[Count]
    <2>1. \A X \in P : X \subseteq Cluster /\ X \subseteq G[X]
      OBVIOUS
    <2>2. /\ IsFiniteSet(Cluster) /\ Cardinality(Cluster) <= Count
          /\ u \in [0 .. Count -> P] /\ u[0] # {}
          /\ \A n \in 1 .. Count : u[n] = G[u[n - 1]]
      <3> HIDE DEF G, P
      <3>1. QED
        BY <1>0, <1>3, <1>4, Clusters DEF RunOf
    <2> HIDE DEF G, P
    <2>3. QED
      BY <1>0, <1>2, <2>1, <2>2, Saturates
  <1>11. ASSUME NEW S \in SUBSET Cluster, c \in S, \A x \in S : ToSet(m[x].subs) \subseteq S
         PROVE  \A n \in 0 .. Count : u[n] \subseteq S
    <2> DEFINE T == {n \in Nat : n <= Count => u[n] \subseteq S}
    <2>1. 0 \in T
      BY <1>3, <1>11 DEF RunOf
    <2>2. ASSUME NEW n \in Nat, n \in T
          PROVE  n + 1 \in T
      <3>1. SUFFICES ASSUME n + 1 <= Count PROVE u[n + 1] \subseteq S
        OBVIOUS
      <3>2. n + 1 \in 1 .. Count /\ (n + 1) - 1 = n /\ u[n] \subseteq S
        BY <2>2, <3>1, Clusters
      <3>3. u[n + 1] = u[n] \cup UNION {ToSet(m[x].subs) : x \in u[n]}
        BY <1>4, <3>2
      <3>4. QED
        BY <1>11, <3>2, <3>3
    <2>3. Nat \subseteq T
      <3> HIDE DEF T
      <3>1. QED
        BY <2>1, <2>2, NatSet
    <2>4. QED
      BY <2>3
  <1>12. c \in u[Count]
    <2> DEFINE T == {n \in Nat : n <= Count => c \in u[n]}
    <2>1. 0 \in T
      BY <1>3 DEF RunOf
    <2>2. ASSUME NEW n \in Nat, n \in T
          PROVE  n + 1 \in T
      <3>1. SUFFICES ASSUME n + 1 <= Count PROVE c \in u[n + 1]
        OBVIOUS
      <3>2. n + 1 \in 1 .. Count /\ (n + 1) - 1 = n /\ c \in u[n]
        BY <2>2, <3>1, Clusters
      <3>3. QED
        BY <1>4, <3>2
    <2>3. Nat \subseteq T
      <3> HIDE DEF T
      <3>1. QED
        BY <2>1, <2>2, NatSet
    <2>4. QED
      BY <2>3, Clusters
  <1>13. \A x \in u[Count] : ToSet(m[x].subs) \subseteq u[Count]
    BY <1>9, <1>10
  <1>14. QED
    BY <1>9, <1>11, <1>12, <1>13, Clusters

(* s goes from c along next_cluster.                                       *)
IsWalk(m, c, s) ==
  /\ s \in Seq(Cluster) /\ s # <<>> /\ s[1] = c
  /\ \A i \in 1 .. Len(s) - 1 : m[s[i]].next # NONE /\ s[i + 1] = m[s[i]].next

(* One block further, if there is one.                                     *)
Longer(m, s) == IF m[Last(s)].next = NONE THEN s ELSE Append(s, m[Last(s)].next)

(* One block further is still along next_cluster.                          *)
LEMMA LongerWalk ==
  ASSUME NEW m \in Image, NEW c \in Cluster, NEW s, IsWalk(m, c, s)
  PROVE  IsWalk(m, c, Longer(m, s))
  <1>1. /\ s \in Seq(Cluster) /\ Len(s) \in Nat \ {0} /\ Last(s) = s[Len(s)]
        /\ Last(s) \in Cluster
    BY EmptySeq DEF IsWalk, Last
  <1>2. CASE m[Last(s)].next = NONE
    BY <1>2 DEF Longer
  <1>3. CASE m[Last(s)].next # NONE
    <2> DEFINE x == m[Last(s)].next
    <2>1. x \in Cluster /\ Longer(m, s) = Append(s, x)
      BY <1>1, <1>3, Fields DEF Longer
    <2> HIDE DEF x
    <2>2. /\ Append(s, x) \in Seq(Cluster) /\ Append(s, x) # <<>>
          /\ Len(Append(s, x)) = Len(s) + 1
          /\ \A i \in 1 .. Len(s) : Append(s, x)[i] = s[i]
          /\ Append(s, x)[Len(s) + 1] = x
      BY <1>1, <2>1, AppendProperties
    <2>3. ASSUME NEW i \in 1 .. Len(s)
          PROVE  /\ m[Append(s, x)[i]].next # NONE
                 /\ Append(s, x)[i + 1] = m[Append(s, x)[i]].next
      <3>1. CASE i = Len(s)
        BY <1>1, <1>3, <2>2, <3>1 DEF x
      <3>2. CASE i # Len(s)
        <4>1. i \in 1 .. Len(s) - 1 /\ i + 1 \in 1 .. Len(s)
          BY <1>1, <3>2
        <4>2. QED
          BY <2>2, <4>1 DEF IsWalk
      <3>3. QED
        BY <3>1, <3>2
    <2>4. Append(s, x)[1] = c
      BY <1>1, <2>2 DEF IsWalk
    <2>5. QED
      BY <1>1, <2>1, <2>2, <2>3, <2>4 DEF IsWalk
  <1>4. QED
    BY <1>2, <1>3

(* Chain goes along next_cluster until it ends or has met more clusters    *)
(* than there are.                                                         *)
LEMMA ChainIs ==
  ASSUME NEW m \in Image, NEW c \in Cluster
  PROVE  /\ IsWalk(m, c, Chain(m, c)) /\ Len(Chain(m, c)) \in 1 .. Count + 1
         /\ m[Last(Chain(m, c))].next # NONE => Len(Chain(m, c)) = Count + 1
  <1> DEFINE A == {s \in Seq(Cluster) : IsWalk(m, c, s)}
             H == [p \in (1 .. Count) \X A |-> Longer(m, p[2])]
             IsRun(w) == w = [n \in 0 .. Count |-> IF n = 0 THEN <<c>>
                                                    ELSE Longer(m, w[n - 1])]
             w == CHOOSE w : IsRun(w)
  <1>1. Count \in Nat
    BY Clusters
  <1>2. <<c>> \in A
    BY DEF IsWalk
  <1>3. \A s \in A : Longer(m, s) \in A
    BY LongerWalk DEF IsWalk
  <1>4. PICK u : RunOf(u, H, Count, A, <<c>>)
    <2>1. StepOn(H, Count, A)
      BY <1>3 DEF StepOn
    <2> HIDE DEF H, A
    <2>2. QED
      BY <1>1, <1>2, <2>1, Runs
  <1>5. \A n \in 1 .. Count : u[n - 1] \in A /\ u[n] = Longer(m, u[n - 1])
    <2> SUFFICES ASSUME NEW n \in 1 .. Count
                 PROVE  u[n - 1] \in A /\ u[n] = Longer(m, u[n - 1])
      OBVIOUS
    <2>1. u[n - 1] \in A /\ u[n] = H[<<n, u[n - 1]>>]
      <3> HIDE DEF H, A
      <3>1. QED
        BY <1>1, <1>4 DEF RunOf
    <2> HIDE DEF A
    <2>2. QED
      BY <2>1
  <1>6. u \in [0 .. Count -> A] /\ u[0] = <<c>>
    <2> HIDE DEF H, A
    <2>1. QED
      BY <1>4 DEF RunOf
  <1> HIDE DEF A, H
  <1>7. IsRun(u)
    <2>1. \A n \in 0 .. Count : u[n] = IF n = 0 THEN <<c>> ELSE Longer(m, u[n - 1])
      BY <1>1, <1>5, <1>6
    <2>2. u = [n \in 0 .. Count |-> u[n]]
      BY <1>6
    <2>3. QED
      BY <2>1, <2>2
  <1>8. IsRun(w)
    <2> HIDE DEF IsRun
    <2>1. QED
      BY <1>7
  <1>9. Chain(m, c) = w[Count]
    BY DEF Chain, Longer
  <1> HIDE DEF w
  <1>10. w[Count] = u[Count]
    <2>1. w[0] = u[0]
      BY <1>1, <1>6, <1>8
    <2>2. \A n \in 1 .. Count : u[n - 1] = w[n - 1] => u[n] = w[n]
      BY <1>1, <1>5, <1>8
    <2> HIDE DEF IsRun
    <2>3. \A n \in 0 .. Count : w[n] = u[n]
      BY <1>1, <2>1, <2>2, SameRun
    <2>4. QED
      BY <1>1, <2>3
  <1>11. \A n \in 0 .. Count : /\ Len(u[n]) \in 1 .. n + 1
                               /\ m[Last(u[n])].next # NONE => Len(u[n]) = n + 1
    <2> DEFINE T == {n \in Nat : n <= Count =>
                       /\ Len(u[n]) \in 1 .. n + 1
                       /\ m[Last(u[n])].next # NONE => Len(u[n]) = n + 1}
    <2>1. 0 \in T
      <3>1. Len(u[0]) = 0 + 1 /\ 0 + 1 \in 1 .. 0 + 1
        BY <1>6
      <3>2. QED
        BY <3>1
    <2>2. ASSUME NEW n \in Nat, n \in T
          PROVE  n + 1 \in T
      <3> SUFFICES ASSUME n + 1 <= Count
                   PROVE  /\ Len(u[n + 1]) \in 1 .. (n + 1) + 1
                          /\ m[Last(u[n + 1])].next # NONE => Len(u[n + 1]) = (n + 1) + 1
        OBVIOUS
      <3>1. /\ n + 1 \in 1 .. Count /\ (n + 1) - 1 = n /\ Len(u[n]) \in 1 .. n + 1
            /\ m[Last(u[n])].next # NONE => Len(u[n]) = n + 1
        BY <1>1, <2>2
      <3>2. u[n] \in Seq(Cluster) /\ u[n] # <<>> /\ u[n + 1] = Longer(m, u[n])
        BY <1>5, <3>1 DEF A, IsWalk
      <3>3. CASE m[Last(u[n])].next = NONE
        BY <3>1, <3>2, <3>3 DEF Longer
      <3>4. CASE m[Last(u[n])].next # NONE
        <4>1. Last(u[n]) \in Cluster
          BY <3>1, <3>2 DEF Last
        <4>2. m[Last(u[n])].next \in Cluster
          BY <3>4, <4>1, Fields
        <4>3. Len(u[n + 1]) = Len(u[n]) + 1
          BY <3>2, <3>4, <4>2 DEF Longer
        <4>4. QED
          BY <3>1, <3>4, <4>3
      <3>5. QED
        BY <3>3, <3>4
    <2>3. Nat \subseteq T
      <3> HIDE DEF T
      <3>1. QED
        BY <2>1, <2>2, NatSet
    <2>4. QED
      BY <2>3
  <1>12. u[Count] \in A
    BY <1>1, <1>6
  <1>13. QED
    BY <1>1, <1>9, <1>10, <1>11, <1>12 DEF A

(* A walk that ends in time is Chain.                                      *)
LEMMA ChainUnique ==
  ASSUME NEW m \in Image, NEW c \in Cluster, NEW s,
         IsWalk(m, c, s), Len(s) <= Count + 1,
         m[Last(s)].next # NONE => Len(s) = Count + 1
  PROVE  s = Chain(m, c)
  <1> DEFINE t == Chain(m, c)
             T == {i \in Nat : i + 1 <= Len(s) /\ i + 1 <= Len(t) => s[i + 1] = t[i + 1]}
  <1>1. /\ IsWalk(m, c, t) /\ Len(t) \in 1 .. Count + 1
        /\ m[Last(t)].next # NONE => Len(t) = Count + 1
    BY ChainIs
  <1> HIDE DEF t
  <1>2. /\ s \in Seq(Cluster) /\ t \in Seq(Cluster) /\ Len(s) \in Nat \ {0}
        /\ Len(t) \in Nat \ {0} /\ Last(s) = s[Len(s)] /\ Last(t) = t[Len(t)]
        /\ Count \in Nat
    BY <1>1, Clusters, EmptySeq DEF IsWalk, Last
  <1>3. 0 \in T
    BY <1>1, <1>2 DEF IsWalk
  <1>4. ASSUME NEW i \in Nat, i \in T
        PROVE  i + 1 \in T
    <2> SUFFICES ASSUME (i + 1) + 1 <= Len(s), (i + 1) + 1 <= Len(t)
                 PROVE  s[(i + 1) + 1] = t[(i + 1) + 1]
      OBVIOUS
    <2>1. i + 1 \in 1 .. Len(s) - 1 /\ i + 1 \in 1 .. Len(t) - 1 /\ s[i + 1] = t[i + 1]
      BY <1>2, <1>4
    <2>2. QED
      BY <1>1, <2>1 DEF IsWalk
  <1>5. \A i \in 1 .. Len(s) : i <= Len(t) => s[i] = t[i]
    <2>1. Nat \subseteq T
      <3> HIDE DEF T
      <3>1. QED
        BY <1>3, <1>4, NatSet
    <2> SUFFICES ASSUME NEW i \in 1 .. Len(s), i <= Len(t)
                 PROVE  s[i] = t[i]
      OBVIOUS
    <2>2. i - 1 \in T /\ (i - 1) + 1 = i
      <3> HIDE DEF T
      <3>1. i - 1 \in Nat /\ (i - 1) + 1 = i
        BY <1>2
      <3>2. QED
        BY <2>1, <3>1
    <2>3. QED
      BY <1>2, <2>2
  <1>6. ~(Len(s) < Len(t))
    <2> SUFFICES ASSUME Len(s) < Len(t) PROVE FALSE
      OBVIOUS
    <2>1. Len(s) \in 1 .. Len(t) - 1 /\ s[Len(s)] = t[Len(s)]
      BY <1>2, <1>5
    <2>2. m[Last(s)].next # NONE
      BY <1>1, <1>2, <2>1 DEF IsWalk
    <2>3. QED
      BY <1>1, <1>2, <2>2
  <1>7. ~(Len(t) < Len(s))
    <2> SUFFICES ASSUME Len(t) < Len(s) PROVE FALSE
      OBVIOUS
    <2>1. Len(t) \in 1 .. Len(s) - 1 /\ s[Len(t)] = t[Len(t)]
      BY <1>2, <1>5
    <2>2. m[Last(t)].next # NONE
      BY <1>1, <1>2, <2>1 DEF IsWalk
    <2>3. QED
      BY <1>1, <1>2, <2>2
  <1>8. QED
    <2>1. Len(s) = Len(t)
      BY <1>2, <1>6, <1>7
    <2>2. s = t
      BY <1>2, <1>5, <2>1, SeqEqual
    <2>3. QED
      BY <2>2 DEF t

-----------------------------------------------------------------------------
(***************************************************************************)
(* WellFormed without counting: a tree.                                    *)
(***************************************************************************)
TreeRoot(m) == m[Root].type = "DIRECTORY" /\ m[Root].parent = NONE
TreeDirs(m) ==
  \A d \in Cluster : m[d].type = "DIRECTORY" =>
    /\ m[d].used = Len(m[d].subs) /\ IsInjective(m[d].subs)
    /\ \A c \in ToSet(m[d].subs) : m[c].parent = d /\ m[c].name \in Name
TreeFiles(m) ==
  \A c \in Cluster : m[c].type = "FILE" /\ m[c].next # NONE => m[m[c].next].type = "FILE"
TreeOwned(m) ==
  \A c \in Cluster :
    /\ c = Root \/ m[c].type = "EMPTY" => \A d \in Cluster : c \notin Kids(m, d)
    /\ c # Root /\ m[c].type # "EMPTY" => \E d \in Cluster : c \in Kids(m, d)
    /\ \A d, e \in Cluster : c \in Kids(m, d) /\ c \in Kids(m, e) => d = e
(* S holds what its members refer to.                                      *)
Closed(m, S) == \A x \in S : Kids(m, x) \subseteq S
TreeReached(m) ==
  \A S \in SUBSET Cluster : Root \in S /\ Closed(m, S) => Cluster \ Empties(m) \subseteq S
Tree(m) == TreeRoot(m) /\ TreeDirs(m) /\ TreeFiles(m) /\ TreeOwned(m) /\ TreeReached(m)

(* Counting the owners of a cluster.                                       *)
LEMMA OwnersCounted ==
  ASSUME NEW m \in Image
  PROVE  (\A c \in Cluster :
            Cardinality(Owners(m, c)) = IF c = Root \/ m[c].type = "EMPTY" THEN 0 ELSE 1)
         <=> TreeOwned(m)
  <1>1. \A c \in Cluster : /\ Owners(m, c) = {d \in Cluster : c \in Kids(m, d)}
                           /\ IsFiniteSet(Owners(m, c))
    <2> SUFFICES ASSUME NEW c \in Cluster
                 PROVE  /\ Owners(m, c) = {d \in Cluster : c \in Kids(m, d)}
                        /\ IsFiniteSet(Owners(m, c))
      OBVIOUS
    <2>1. Owners(m, c) = {d \in Cluster : c \in Kids(m, d)}
      BY Clusters DEF Owners, Kids
    <2>2. Owners(m, c) \in SUBSET Cluster
      BY DEF Owners
    <2>3. QED
      BY <2>1, <2>2, Clusters, FS_Subset
  <1>2. \A c \in Cluster : /\ Cardinality(Owners(m, c)) = 0 <=> Owners(m, c) = {}
                           /\ Cardinality(Owners(m, c)) = 1 <=> \E d : Owners(m, c) = {d}
    BY <1>1, FS_EmptySet, FS_Singleton
  <1> DEFINE Once(c) ==
               /\ c = Root \/ m[c].type = "EMPTY" => \A d \in Cluster : c \notin Kids(m, d)
               /\ c # Root /\ m[c].type # "EMPTY" => \E d \in Cluster : c \in Kids(m, d)
               /\ \A d, e \in Cluster : c \in Kids(m, d) /\ c \in Kids(m, e) => d = e
  <1>3. ASSUME NEW c \in Cluster
        PROVE  Cardinality(Owners(m, c)) = (IF c = Root \/ m[c].type = "EMPTY" THEN 0 ELSE 1)
               <=> Once(c)
    <2>1. CASE c = Root \/ m[c].type = "EMPTY"
      <3>1. Cardinality(Owners(m, c)) = 0 <=> \A d \in Cluster : c \notin Kids(m, d)
        BY <1>1, <1>2
      <3>2. QED
        BY <2>1, <3>1
    <2>2. CASE ~(c = Root \/ m[c].type = "EMPTY")
      <3>1. Cardinality(Owners(m, c)) = 1 <=> \E d : Owners(m, c) = {d}
        BY <1>2
      <3>2. (\E d : Owners(m, c) = {d}) <=>
               /\ \E d \in Cluster : c \in Kids(m, d)
               /\ \A d, e \in Cluster : c \in Kids(m, d) /\ c \in Kids(m, e) => d = e
        <4>1. ASSUME NEW d, Owners(m, c) = {d}
              PROVE  /\ \E e \in Cluster : c \in Kids(m, e)
                     /\ \A e, f \in Cluster : c \in Kids(m, e) /\ c \in Kids(m, f) => e = f
          BY <1>1, <4>1
        <4>2. ASSUME NEW d \in Cluster, c \in Kids(m, d),
                     \A e, f \in Cluster : c \in Kids(m, e) /\ c \in Kids(m, f) => e = f
              PROVE  Owners(m, c) = {d}
          BY <1>1, <4>2
        <4>3. QED
          BY <4>1, <4>2
      <3>3. QED
        BY <2>2, <3>1, <3>2
    <2>3. QED
      BY <2>1, <2>2
  <1>4. TreeOwned(m) <=> \A c \in Cluster : Once(c)
    BY DEF TreeOwned
  <1> HIDE DEF Once
  <1>5. QED
    BY <1>3, <1>4

(* What follows the blocks of a file stays in a set that holds them.       *)
LEMMA ChainInside ==
  ASSUME NEW m \in Image, TreeFiles(m), NEW c \in Cluster, m[c].type = "FILE",
         NEW S, c \in S,
         \A x \in S \cap Cluster : m[x].type = "FILE" /\ m[x].next # NONE => m[x].next \in S
  PROVE  \A i \in 1 .. Len(Chain(m, c)) :
            /\ Chain(m, c)[i] \in S \cap Cluster
            /\ m[Chain(m, c)[i]].type = "FILE"
  <1> DEFINE s == Chain(m, c)
             T == {i \in Nat : i + 1 <= Len(s) =>
                     s[i + 1] \in S \cap Cluster /\ m[s[i + 1]].type = "FILE"}
  <1>1. IsWalk(m, c, s)
    BY ChainIs
  <1> HIDE DEF s
  <1>2. s \in Seq(Cluster) /\ Len(s) \in Nat
    BY <1>1 DEF IsWalk
  <1>3. 0 \in T
    BY <1>1 DEF IsWalk
  <1>4. ASSUME NEW i \in Nat, i \in T
        PROVE  i + 1 \in T
    <2> SUFFICES ASSUME (i + 1) + 1 <= Len(s)
                 PROVE  s[(i + 1) + 1] \in S \cap Cluster /\ m[s[(i + 1) + 1]].type = "FILE"
      OBVIOUS
    <2>1. i + 1 \in 1 .. Len(s) - 1 /\ s[i + 1] \in S \cap Cluster /\ m[s[i + 1]].type = "FILE"
      BY <1>2, <1>4
    <2>2. m[s[i + 1]].next # NONE /\ s[(i + 1) + 1] = m[s[i + 1]].next
      BY <1>1, <2>1 DEF IsWalk
    <2>3. m[s[i + 1]].next \in Cluster
      BY <2>1, <2>2, Fields
    <2>4. QED
      BY <2>1, <2>2, <2>3 DEF TreeFiles
  <1>5. Nat \subseteq T
    <2> HIDE DEF T
    <2>1. QED
      BY <1>3, <1>4, NatSet
  <1>6. ASSUME NEW i \in 1 .. Len(s)
        PROVE  s[i] \in S \cap Cluster /\ m[s[i]].type = "FILE"
    <2>1. i - 1 \in Nat /\ (i - 1) + 1 = i /\ i <= Len(s)
      BY <1>2
    <2>2. i - 1 \in T
      BY <1>5, <2>1
    <2>3. QED
      BY <2>1, <2>2
  <1>7. QED
    BY <1>6 DEF s

(* No set of clusters feeds itself: from every cluster in use the way back *)
(* over the owners leads to the root.                                      *)
LEMMA NoLoop ==
  ASSUME NEW m \in Image, TreeOwned(m), TreeReached(m),
         NEW X \in SUBSET Cluster, NEW g \in [X -> X], \A x \in X : g[x] \in Kids(m, x)
  PROVE  X = {}
  <1>1. \A x, y \in X : g[x] = g[y] => x = y
    BY DEF TreeOwned
  <1>2. g \in Injection(X, X)
    BY <1>1 DEF Injection, IsInjective
  <1>3. IsFiniteSet(X)
    BY Clusters, FS_Subset
  <1>4. g \in Surjection(X, X)
    BY <1>2, <1>3, FS_Injection
  <1>5. \A x \in X : \E y \in X : g[y] = x
    BY <1>4 DEF Surjection
  <1> DEFINE Y == Cluster \ X
  <1>6. Root \in Y
    BY <1>5, Clusters DEF TreeOwned
  <1>7. Closed(m, Y)
    <2> SUFFICES ASSUME NEW x \in Y, NEW k \in Kids(m, x), k \in X
                 PROVE  FALSE
      BY KidsType DEF Closed
    <2>1. PICK y \in X : g[y] = k
      BY <1>5
    <2>2. QED
      BY <2>1 DEF TreeOwned
  <1>8. Cluster \ Empties(m) \subseteq Y
    BY <1>6, <1>7 DEF TreeReached
  <1>9. \A x \in X : x \notin Empties(m)
    BY <1>5 DEF Empties, TreeOwned
  <1>10. QED
    BY <1>8, <1>9

(* The walk along the blocks of a file ends.                               *)
LEMMA FileEnds ==
  ASSUME NEW m \in Image, Tree(m), NEW c \in Cluster, m[c].type = "FILE"
  PROVE  /\ \A i \in 1 .. Len(Chain(m, c)) : m[Chain(m, c)[i]].type = "FILE"
         /\ m[Last(Chain(m, c))].next = NONE
  <1> DEFINE s == Chain(m, c)
             D == {x \in Cluster : m[x].type = "FILE" /\ m[x].next # NONE}
             g == [x \in D |-> m[x].next]
             u == [n \in 0 .. Count |-> s[n + 1]]
  <1>1. \A i \in 1 .. Len(s) : m[s[i]].type = "FILE"
    <2>1. \A x \in Cluster : m[x].type = "FILE" /\ m[x].next # NONE => m[x].next \in Cluster
      BY Fields
    <2>2. QED
      BY <2>1, ChainInside DEF Tree
  <1>2. SUFFICES ASSUME m[Last(s)].next # NONE PROVE FALSE
    BY <1>1
  <1>3. IsWalk(m, c, s) /\ Len(s) = Count + 1 /\ Count \in Nat
    BY <1>2, ChainIs, Clusters
  <1> HIDE DEF s
  <1>4. u \in [0 .. Count -> Cluster]
    BY <1>3 DEF IsWalk
  <1>5. g \in [D -> Cluster] /\ D \in SUBSET Cluster
    BY Fields
  <1>6. ASSUME NEW n \in 1 .. Count
        PROVE  u[n] = IF u[n - 1] \in D THEN g[u[n - 1]] ELSE u[n - 1]
    <2>1. /\ u[n] = s[n + 1] /\ u[n - 1] = s[n] /\ n \in 1 .. Len(s) - 1 /\ n \in 1 .. Len(s)
      BY <1>3
    <2>2. m[s[n]].next # NONE /\ s[n + 1] = m[s[n]].next /\ s[n] \in Cluster
      BY <1>3, <2>1 DEF IsWalk
    <2>3. m[s[n]].type = "FILE"
      BY <1>1, <2>1
    <2>4. QED
      BY <2>1, <2>2, <2>3
  <1>7. ASSUME NEW X \in SUBSET D, \A x \in X : g[x] \in X
        PROVE  X = {}
    <2>1. X \in SUBSET Cluster /\ [x \in X |-> g[x]] \in [X -> X]
      BY <1>7
    <2>2. \A x \in X : g[x] \in Kids(m, x)
      BY DEF Kids
    <2>3. QED
      BY <2>1, <2>2, NoLoop DEF Tree
  <1>8. u[Count] \in D
    <2>1. u[Count] = s[Len(s)] /\ Len(s) \in 1 .. Len(s) /\ Last(s) = s[Len(s)]
      BY <1>3 DEF Last
    <2>2. s[Len(s)] \in Cluster
      BY <1>3, <2>1 DEF IsWalk
    <2>3. QED
      BY <1>1, <1>2, <2>1, <2>2
  <1>9. QED
    <2>1. IsFiniteSet(Cluster) /\ Cardinality(Cluster) <= Count
      BY <1>3, Clusters
    <2> HIDE DEF u, D, g
    <2>2. QED
      BY <1>3, <1>4, <1>5, <1>6, <1>7, <1>8, <2>1, WalkEnds

(* The blocks of a file after the first.                                   *)
LEMMA PartsType ==
  ASSUME NEW m \in Image, NEW c \in Cluster
  PROVE  /\ Parts(m, c) \in Seq(Cluster)
         /\ \A x : x \in ToSet(Parts(m, c)) <=>
              m[c].type = "FILE" /\ \E i \in 2 .. Len(Chain(m, c)) : x = Chain(m, c)[i]
  <1> DEFINE s == Chain(m, c)
  <1>1. s \in Seq(Cluster) /\ s # <<>> /\ Len(s) \in Nat \ {0}
    BY ChainIs, EmptySeq DEF IsWalk
  <1>2. /\ Tail(s) \in Seq(Cluster) /\ Len(Tail(s)) = Len(s) - 1
        /\ \A i \in 1 .. Len(Tail(s)) : Tail(s)[i] = s[i + 1]
    BY <1>1, HeadTailProperties
  <1> HIDE DEF s
  <1>3. \A x : x \in ToSet(Tail(s)) <=> \E i \in 2 .. Len(s) : x = s[i]
    <2> SUFFICES ASSUME NEW x PROVE x \in ToSet(Tail(s)) <=> \E i \in 2 .. Len(s) : x = s[i]
      OBVIOUS
    <2>1. x \in ToSet(Tail(s)) <=> \E i \in 1 .. Len(s) - 1 : s[i + 1] = x
      <3>1. x \in ToSet(Tail(s)) <=> \E i \in 1 .. Len(Tail(s)) : Tail(s)[i] = x
        BY <1>2, Elements
      <3>2. QED
        BY <1>2, <3>1
    <2>2. ASSUME NEW i \in 1 .. Len(s) - 1, s[i + 1] = x
          PROVE  \E j \in 2 .. Len(s) : x = s[j]
      <3>1. i + 1 \in 2 .. Len(s)
        BY <1>1
      <3>2. QED
        BY <2>2, <3>1
    <2>3. ASSUME NEW j \in 2 .. Len(s), x = s[j]
          PROVE  \E i \in 1 .. Len(s) - 1 : s[i + 1] = x
      <3>1. j - 1 \in 1 .. Len(s) - 1 /\ (j - 1) + 1 = j
        BY <1>1
      <3>2. QED
        BY <2>3, <3>1
    <2>4. QED
      BY <2>1, <2>2, <2>3
  <1>4. CASE m[c].type = "FILE"
    BY <1>2, <1>3, <1>4 DEF Parts, s
  <1>5. CASE m[c].type # "FILE"
    <2>1. Parts(m, c) = <<>>
      BY <1>5 DEF Parts
    <2>2. QED
      BY <1>5, <2>1 DEF ToSet
  <1>6. QED
    BY <1>4, <1>5

(* They are what the first one leads to, and only they lead to them.       *)
LEMMA PartsAre ==
  ASSUME NEW m \in Image, Tree(m), NEW c \in Cluster, m[c].type = "FILE"
  PROVE  LET F == ToSet(Parts(m, c))
         IN  /\ F \subseteq Cluster
             /\ \A x \in F \cup {c} : m[x].type = "FILE" /\ (m[x].next # NONE => m[x].next \in F)
             /\ \A x \in F : \E y \in F \cup {c} : x \in Kids(m, y)
  <1> DEFINE s == Chain(m, c)
             F == ToSet(Parts(m, c))
  <1>1. /\ IsWalk(m, c, s) /\ m[Last(s)].next = NONE
        /\ \A i \in 1 .. Len(s) : m[s[i]].type = "FILE"
    BY ChainIs, FileEnds
  <1>2. \A x : x \in F <=> \E i \in 2 .. Len(s) : x = s[i]
    BY PartsType
  <1>3. F \subseteq Cluster
    BY PartsType, Elements
  <1> HIDE DEF s, F
  <1>4. s \in Seq(Cluster) /\ Len(s) \in Nat \ {0} /\ s[1] = c /\ Last(s) = s[Len(s)]
    BY <1>1, EmptySeq DEF IsWalk, Last
  <1>5. ASSUME NEW i \in 1 .. Len(s), m[s[i]].next # NONE
        PROVE  m[s[i]].next \in F
    <2>1. i \in 1 .. Len(s) - 1 /\ i + 1 \in 2 .. Len(s)
      BY <1>1, <1>4, <1>5
    <2>2. s[i + 1] = m[s[i]].next
      BY <1>1, <2>1 DEF IsWalk
    <2>3. QED
      BY <1>2, <2>1, <2>2
  <1>6. ASSUME NEW x \in F \cup {c}
        PROVE  \E i \in 1 .. Len(s) : x = s[i]
    <2>1. 1 \in 1 .. Len(s) /\ \A i \in 2 .. Len(s) : i \in 1 .. Len(s)
      BY <1>4
    <2>2. QED
      BY <1>2, <1>4, <2>1
  <1>7. ASSUME NEW x \in F
        PROVE  \E y \in F \cup {c} : x \in Kids(m, y)
    <2>1. PICK i \in 2 .. Len(s) : x = s[i]
      BY <1>2
    <2>2. i - 1 \in 1 .. Len(s) - 1 /\ (i - 1) + 1 = i /\ i - 1 \in 1 .. Len(s)
      BY <1>4
    <2>3. m[s[i - 1]].next # NONE /\ x = m[s[i - 1]].next /\ m[s[i - 1]].type = "FILE"
      BY <1>1, <2>1, <2>2 DEF IsWalk
    <2>4. x \in Kids(m, s[i - 1])
      BY <2>3 DEF Kids
    <2>5. s[i - 1] \in F \cup {c}
      <3>1. CASE i = 2
        BY <1>4, <3>1
      <3>2. CASE i # 2
        <4>1. i - 1 \in 2 .. Len(s)
          BY <1>4, <3>2
        <4>2. QED
          BY <1>2, <4>1
      <3>3. QED
        BY <3>1, <3>2
    <2>6. QED
      BY <2>4, <2>5
  <1>8. QED
    BY <1>1, <1>3, <1>5, <1>6, <1>7 DEF F

(* What is under a cluster in use is in use.                               *)
LEMMA BelowInUse ==
  ASSUME NEW m \in Image, TreeOwned(m), NEW c \in Cluster, m[c].type # "EMPTY"
  PROVE  \A x \in Below(m, c) : x \in Cluster /\ m[x].type # "EMPTY"
  <1> DEFINE S == {x \in Cluster : m[x].type # "EMPTY"}
  <1>1. ASSUME NEW x \in S
        PROVE  ToSet(m[x].subs) \subseteq S
    <2>1. Kids(m, x) \subseteq Cluster /\ ToSet(m[x].subs) \subseteq Kids(m, x)
      BY KidsType DEF Kids
    <2>2. QED
      BY <2>1 DEF TreeOwned
  <1>2. Below(m, c) \subseteq S
    BY <1>1, BelowIs
  <1>3. QED
    BY <1>2

(* The root holds what is in use.                                          *)
LEMMA RootHoldings ==
  ASSUME NEW m \in Image, Tree(m)
  PROVE  Holdings(m, Root) = Cluster \ Empties(m)
  <1> DEFINE U == Below(m, Root)
             H == Holdings(m, Root)
  <1>1. /\ U \in SUBSET Cluster /\ Root \in U /\ \A x \in U : ToSet(m[x].subs) \subseteq U
        /\ \A x \in U : m[x].type # "EMPTY"
    BY Clusters, BelowIs, BelowInUse DEF Tree, TreeRoot
  <1>2. \A x : x \in H <=> x \in U \/ \E y \in U : x \in ToSet(Parts(m, y))
    BY DEF Holdings
  <1>3. ASSUME NEW y \in U, NEW x \in ToSet(Parts(m, y))
        PROVE  /\ m[y].type = "FILE" /\ x \in Cluster /\ m[x].type = "FILE"
               /\ m[x].next # NONE => m[x].next \in ToSet(Parts(m, y))
    <2>1. y \in Cluster
      BY <1>1
    <2>2. m[y].type = "FILE"
      BY <1>3, <2>1, PartsType
    <2>3. QED
      BY <1>3, <2>1, <2>2, PartsAre
  <1> HIDE DEF U, H
  <1>4. H \subseteq Cluster \ Empties(m)
    BY <1>1, <1>2, <1>3 DEF Empties
  <1>5. Closed(m, H)
    <2> SUFFICES ASSUME NEW x \in H, NEW k \in Kids(m, x)
                 PROVE  k \in H
      BY DEF Closed
    <2>1. CASE x \in U
      <3>1. k \in ToSet(m[x].subs) => k \in H
        BY <1>1, <1>2, <2>1
      <3>2. k \notin ToSet(m[x].subs) => m[x].type = "FILE" /\ m[x].next # NONE /\ k = m[x].next
        BY DEF Kids
      <3>3. m[x].type = "FILE" /\ m[x].next # NONE => m[x].next \in ToSet(Parts(m, x))
        BY <1>1, <2>1, PartsAre
      <3>4. QED
        BY <1>2, <2>1, <3>1, <3>2, <3>3
    <2>2. CASE \E y \in U : x \in ToSet(Parts(m, y))
      <3>1. PICK y \in U : x \in ToSet(Parts(m, y))
        BY <2>2
      <3>2. /\ x \in Cluster /\ m[x].type = "FILE"
            /\ m[x].next # NONE => m[x].next \in ToSet(Parts(m, y))
        BY <1>3, <3>1
      <3>3. ToSet(m[x].subs) = {}
        BY <3>2, Fields, NoElements
      <3>4. k \in ToSet(Parts(m, y))
        BY <3>2, <3>3 DEF Kids
      <3>5. QED
        BY <1>2, <3>4
    <2>3. QED
      BY <1>2, <2>1, <2>2
  <1>6. Cluster \ Empties(m) \subseteq H
    <2>1. H \in SUBSET Cluster /\ Root \in H
      BY <1>1, <1>2, <1>4
    <2>2. QED
      BY <1>5, <2>1 DEF Tree, TreeReached
  <1>7. QED
    BY <1>4, <1>6 DEF H

(* A well formed image is a tree.                                          *)
LEMMA WellFormedIsTree ==
  ASSUME NEW m \in Image
  PROVE  WellFormed(m) <=> Tree(m)
  <1>1. WellFormed(m) => TreeRoot(m) /\ TreeDirs(m) /\ TreeFiles(m) /\ TreeOwned(m)
    BY OwnersCounted DEF WellFormed, TreeRoot, TreeDirs, TreeFiles
  <1>2. ASSUME WellFormed(m)
        PROVE  TreeReached(m)
    <2> SUFFICES ASSUME NEW S \in SUBSET Cluster, Root \in S, Closed(m, S)
                 PROVE  Cluster \ Empties(m) \subseteq S
      BY DEF TreeReached
    <2>1. Below(m, Root) \subseteq S
      <3>1. \A x \in S : ToSet(m[x].subs) \subseteq S
        BY DEF Closed, Kids
      <3>2. QED
        BY <3>1, Clusters, BelowIs
    <2>2. ASSUME NEW y \in Below(m, Root)
          PROVE  ToSet(Parts(m, y)) \subseteq S
      <3>1. y \in S /\ y \in Cluster
        BY <2>1
      <3>2. \A x \in S \cap Cluster : m[x].type = "FILE" /\ m[x].next # NONE => m[x].next \in S
        BY DEF Closed, Kids
      <3>3. CASE m[y].type = "FILE"
        <4>1. \A i \in 1 .. Len(Chain(m, y)) : Chain(m, y)[i] \in S
          BY <1>1, <1>2, <3>1, <3>2, <3>3, ChainInside
        <4>2. \A i \in 2 .. Len(Chain(m, y)) : i \in 1 .. Len(Chain(m, y))
          OBVIOUS
        <4>3. QED
          BY <3>1, <4>1, <4>2, PartsType
      <3>4. CASE m[y].type # "FILE"
        BY <3>1, <3>4, PartsType
      <3>5. QED
        BY <3>3, <3>4
    <2>3. QED
      BY <1>2, <2>1, <2>2 DEF WellFormed, Holdings
  <1>3. Tree(m) => WellFormed(m)
    BY OwnersCounted, RootHoldings
       DEF WellFormed, Tree, TreeRoot, TreeDirs, TreeFiles
  <1>4. QED
    BY <1>1, <1>2, <1>3 DEF Tree

-----------------------------------------------------------------------------
(***************************************************************************)
(* The operators of the code on such a tree.                               *)
(***************************************************************************)

(* RemoveFirst takes one element out and keeps the others.                 *)
LEMMA RemoveFirstIs ==
  ASSUME NEW A, NEW s \in Seq(A), IsInjective(s), NEW e \in ToSet(s)
  PROVE  /\ RemoveFirst(s, e) \in Seq(A) /\ Len(RemoveFirst(s, e)) = Len(s) - 1
         /\ Len(s) \in Nat \ {0}
         /\ IsInjective(RemoveFirst(s, e)) /\ ToSet(RemoveFirst(s, e)) = ToSet(s) \ {e}
  <1> DEFINE i == SelectInSeq(s, LAMBDA v : v = e)
             t == RemoveFirst(s, e)
  <1>1. PICK k \in 1 .. Len(s) : s[k] = e
    BY Elements
  <1>2. Len(s) \in Nat \ {0}
    BY <1>1
  <1>3. i \in 1 .. Len(s) /\ s[i] = e
    <2> DEFINE I == {j \in 1 .. Len(s) : s[j] = e}
    <2>1. i = Min(I) /\ k \in I
      BY <1>1 DEF SelectInSeq
    <2>2. \E x \in I : \A y \in I : x <= y
      <3>1. I \in SUBSET Nat /\ I # {}
        BY <1>1
      <3> HIDE DEF I
      <3>2. QED
        BY <3>1, LeastNat
    <2>3. Min(I) \in I
      BY <2>2 DEF Min
    <2>4. QED
      BY <2>1, <2>3
  <1>4. t = SubSeq(s, 1, i - 1) \o SubSeq(s, i + 1, Len(s))
    BY <1>1 DEF RemoveFirst, RemoveAt
  <1> HIDE DEF i, t
  <1>5. /\ t \in Seq(A) /\ Len(t) = Len(s) - 1
        /\ \A j \in 1 .. Len(t) : t[j] = IF j < i THEN s[j] ELSE s[j + 1]
    <2> DEFINE a == SubSeq(s, 1, i - 1)
               b == SubSeq(s, i + 1, Len(s))
    <2>1. /\ a \in Seq(A) /\ Len(a) = i - 1
          /\ \A j \in 1 .. i - 1 : a[j] = s[j]
      BY <1>3, SubSeqProperties
    <2>2. /\ b \in Seq(A) /\ Len(b) = Len(s) - i
          /\ \A j \in 1 .. Len(s) - i : b[j] = s[i + j]
      BY <1>3, SubSeqProperties
    <2> HIDE DEF a, b
    <2>3. /\ a \o b \in Seq(A) /\ Len(a \o b) = Len(a) + Len(b)
          /\ \A j \in 1 .. Len(a) + Len(b) : (a \o b)[j] =
                IF j <= Len(a) THEN a[j] ELSE b[j - Len(a)]
      BY <2>1, <2>2, ConcatProperties
    <2>4. t = a \o b
      BY <1>4 DEF a, b
    <2>5. Len(t) = Len(s) - 1
      BY <1>2, <1>3, <2>1, <2>2, <2>3, <2>4
    <2>6. ASSUME NEW j \in 1 .. Len(t)
          PROVE  t[j] = IF j < i THEN s[j] ELSE s[j + 1]
      <3>1. CASE j < i
        BY <1>3, <2>1, <2>2, <2>3, <2>4, <2>5, <3>1
      <3>2. CASE ~(j < i)
        <4>1. j - (i - 1) \in 1 .. Len(s) - i /\ i + (j - (i - 1)) = j + 1
          BY <1>2, <1>3, <2>5, <3>2
        <4>2. t[j] = b[j - (i - 1)]
          BY <1>3, <2>1, <2>2, <2>3, <2>4, <2>5, <3>2
        <4>3. QED
          BY <2>2, <3>2, <4>1, <4>2
      <3>3. QED
        BY <3>1, <3>2
    <2>7. QED
      BY <2>3, <2>4, <2>5, <2>6
  <1>6. \A x, y \in 1 .. Len(s) : s[x] = s[y] => x = y
    BY DEF IsInjective
  <1>7. IsInjective(t)
    <2> SUFFICES ASSUME NEW x \in 1 .. Len(t), NEW y \in 1 .. Len(t), t[x] = t[y]
                 PROVE  x = y
      BY <1>5 DEF IsInjective
    <2>1. x + 1 \in 1 .. Len(s) /\ y + 1 \in 1 .. Len(s) /\ x \in 1 .. Len(s) /\ y \in 1 .. Len(s)
      BY <1>2, <1>5
    <2>2. QED
      BY <1>3, <1>5, <1>6, <2>1
  <1>8. ToSet(t) = ToSet(s) \ {e}
    <2>1. /\ \A x : x \in ToSet(t) <=> \E j \in 1 .. Len(t) : t[j] = x
          /\ \A x : x \in ToSet(s) <=> \E j \in 1 .. Len(s) : s[j] = x
      BY <1>5, Elements
    <2>2. ASSUME NEW j \in 1 .. Len(t)
          PROVE  t[j] \in ToSet(s) \ {e}
      <3>1. j \in 1 .. Len(s) /\ j + 1 \in 1 .. Len(s)
        BY <1>2, <1>5
      <3>2. CASE j < i
        BY <1>3, <1>5, <1>6, <2>1, <3>1, <3>2
      <3>3. CASE ~(j < i)
        <4>1. j + 1 # i
          BY <1>3, <3>3
        <4>2. QED
          BY <1>3, <1>5, <1>6, <2>1, <3>1, <3>3, <4>1
      <3>4. QED
        BY <3>2, <3>3
    <2>3. ASSUME NEW j \in 1 .. Len(s), s[j] # e
          PROVE  s[j] \in ToSet(t)
      <3>1. j # i
        BY <1>3, <2>3
      <3>2. CASE j < i
        <4>1. j \in 1 .. Len(t)
          BY <1>2, <1>3, <1>5, <3>2
        <4>2. t[j] = s[j]
          BY <1>5, <3>2, <4>1
        <4>3. QED
          BY <2>1, <4>1, <4>2
      <3>3. CASE j > i
        <4>1. j - 1 \in 1 .. Len(t) /\ (j - 1) + 1 = j /\ ~(j - 1 < i)
          BY <1>2, <1>3, <1>5, <3>3
        <4>2. t[j - 1] = s[j]
          BY <1>5, <4>1
        <4>3. QED
          BY <2>1, <4>1, <4>2
      <3>4. QED
        BY <1>3, <3>1, <3>2, <3>3
    <2>4. QED
      BY <2>1, <2>2, <2>3
  <1>9. QED
    BY <1>2, <1>5, <1>7, <1>8 DEF t

(* Append adds one.                                                        *)
LEMMA AppendIs ==
  ASSUME NEW A, NEW s \in Seq(A), NEW e \in A
  PROVE  /\ Append(s, e) \in Seq(A) /\ Len(Append(s, e)) = Len(s) + 1
         /\ ToSet(Append(s, e)) = ToSet(s) \cup {e}
         /\ IsInjective(s) /\ e \notin ToSet(s) => IsInjective(Append(s, e))
  <1> DEFINE t == Append(s, e)
  <1>1. /\ t \in Seq(A) /\ Len(t) = Len(s) + 1 /\ Len(s) \in Nat
        /\ \A i \in 1 .. Len(s) : t[i] = s[i]
        /\ t[Len(s) + 1] = e
    BY AppendProperties
  <1> HIDE DEF t
  <1>2. /\ \A x : x \in ToSet(t) <=> \E j \in 1 .. Len(t) : t[j] = x
        /\ \A x : x \in ToSet(s) <=> \E j \in 1 .. Len(s) : s[j] = x
    BY <1>1, Elements
  <1>3. \A j \in 1 .. Len(t) : j \in 1 .. Len(s) \/ j = Len(s) + 1
    BY <1>1
  <1>4. \A j \in 1 .. Len(s) : j \in 1 .. Len(t)
    BY <1>1
  <1>5. Len(s) + 1 \in 1 .. Len(t)
    BY <1>1
  <1>6. ToSet(t) = ToSet(s) \cup {e}
    <2>1. ASSUME NEW x \in ToSet(t)
          PROVE  x \in ToSet(s) \cup {e}
      BY <1>1, <1>2, <1>3
    <2>2. ToSet(s) \subseteq ToSet(t)
      BY <1>1, <1>2, <1>4
    <2>3. e \in ToSet(t)
      BY <1>1, <1>2, <1>5
    <2>4. QED
      BY <2>1, <2>2, <2>3
  <1>7. ASSUME IsInjective(s), e \notin ToSet(s)
        PROVE  IsInjective(t)
    <2>1. \A x, y \in 1 .. Len(s) : s[x] = s[y] => x = y
      BY <1>7 DEF IsInjective
    <2>2. \A x \in 1 .. Len(s) : s[x] # e
      BY <1>2, <1>7
    <2> SUFFICES ASSUME NEW x \in 1 .. Len(t), NEW y \in 1 .. Len(t), t[x] = t[y]
                 PROVE  x = y
      BY <1>1 DEF IsInjective
    <2>3. QED
      BY <1>1, <1>3, <2>1, <2>2
  <1>8. QED
    BY <1>1, <1>6, <1>7 DEF t

(* The entry of a directory with a name is listed in it.                   *)
LEMMA SubnodeIs ==
  ASSUME NEW m \in Image, NEW d \in Cluster \cup {NONE}, NEW n,
         GetSubnode(m, d, n) # NONE
  PROVE  /\ d \in Cluster /\ m[d].type = "DIRECTORY"
         /\ GetSubnode(m, d, n) \in ToSet(m[d].subs) /\ GetSubnode(m, d, n) \in Cluster
         /\ m[GetSubnode(m, d, n)].name = n
  <1> DEFINE i == SelectInSeq(m[d].subs, LAMBDA c : m[c].name = n)
  <1>1. /\ d # NONE /\ m[d].type = "DIRECTORY" /\ i # 0
        /\ GetSubnode(m, d, n) = m[d].subs[i]
    BY DEF GetSubnode
  <1>2. d \in Cluster /\ m[d].subs \in Seq(Cluster)
    BY <1>1, Fields
  <1> DEFINE s == m[d].subs
             I == {k \in 1 .. Len(s) : m[s[k]].name = n}
  <1>3. I # {} /\ i = Min(I)
    BY <1>1 DEF SelectInSeq
  <1>4. i \in I
    <2>1. \E x \in I : \A y \in I : x <= y
      <3>1. I \in SUBSET Nat
        BY <1>2
      <3> HIDE DEF I
      <3>2. QED
        BY <1>3, <3>1, LeastNat
    <2>2. Min(I) \in I
      BY <2>1 DEF Min
    <2>3. QED
      BY <1>3, <2>2
  <1>5. s[i] \in ToSet(s) /\ s[i] \in Cluster
    BY <1>2, <1>4, Elements
  <1>6. QED
    BY <1>1, <1>2, <1>4, <1>5

(* The loop over names goes down from a directory, or nowhere.             *)
LEMMA WalkRun ==
  ASSUME NEW m \in Image, NEW d \in Cluster, NEW names, Len(names) \in Nat
  PROVE  \E u \in [0 .. Len(names) -> Below(m, d) \cup {NONE}] :
           /\ u[0] = d /\ u[Len(names)] = Walk(m, d, names)
           /\ \A n \in 1 .. Len(names) : u[n] = GetSubnode(m, u[n - 1], names[n])
  <1> DEFINE A == Below(m, d) \cup {NONE}
             N == Len(names)
             H == [p \in (1 .. N) \X A |-> GetSubnode(m, p[2], names[p[1]])]
             IsRun(w) == w = [n \in 0 .. N |-> IF n = 0 THEN d
                                               ELSE GetSubnode(m, w[n - 1], names[n])]
             w == CHOOSE w : IsRun(w)
  <1>1. /\ A \subseteq Cluster \cup {NONE} /\ d \in A
        /\ \A x \in Below(m, d) : ToSet(m[x].subs) \subseteq Below(m, d)
    BY BelowIs
  <1>2. N \in Nat
    OBVIOUS
  <1>3. \A n \in 1 .. N, x \in A : GetSubnode(m, x, names[n]) \in A
    BY <1>1, Clusters, SubnodeIs
  <1>4. PICK u : RunOf(u, H, N, A, d)
    <2>1. StepOn(H, N, A)
      BY <1>3 DEF StepOn
    <2> HIDE DEF H, A, N
    <2>2. QED
      BY <1>1, <1>2, <2>1, Runs
  <1> HIDE DEF A, N
  <1>5. \A n \in 1 .. N : u[n - 1] \in A /\ u[n] = GetSubnode(m, u[n - 1], names[n])
    <2> SUFFICES ASSUME NEW n \in 1 .. N
                 PROVE  u[n - 1] \in A /\ u[n] = GetSubnode(m, u[n - 1], names[n])
      OBVIOUS
    <2>1. u[n - 1] \in A /\ u[n] = H[<<n, u[n - 1]>>]
      <3> HIDE DEF H
      <3>1. QED
        BY <1>2, <1>4 DEF RunOf
    <2>2. QED
      BY <2>1
  <1>6. u \in [0 .. N -> A] /\ u[0] = d
    <2> HIDE DEF H
    <2>1. QED
      BY <1>4 DEF RunOf
  <1> HIDE DEF H
  <1>7. IsRun(u)
    <2>1. \A n \in 0 .. N : u[n] = IF n = 0 THEN d ELSE GetSubnode(m, u[n - 1], names[n])
      BY <1>2, <1>5, <1>6
    <2>2. u = [n \in 0 .. N |-> u[n]]
      BY <1>6
    <2>3. QED
      BY <2>1, <2>2
  <1>8. IsRun(w)
    <2> HIDE DEF IsRun
    <2>1. QED
      BY <1>7
  <1>9. Walk(m, d, names) = w[N]
    BY DEF Walk, N
  <1> HIDE DEF w
  <1>10. w[N] = u[N]
    <2>1. w[0] = u[0]
      BY <1>2, <1>6, <1>8
    <2>2. \A n \in 1 .. N : u[n - 1] = w[n - 1] => u[n] = w[n]
      BY <1>2, <1>5, <1>8
    <2> HIDE DEF IsRun
    <2>3. \A n \in 0 .. N : w[n] = u[n]
      BY <1>2, <2>1, <2>2, SameRun
    <2>4. QED
      BY <1>2, <2>3
  <1>11. QED
    BY <1>5, <1>6, <1>9, <1>10 DEF A, N

(* What names lead to from a directory is listed below it.                 *)
LEMMA WalkIs ==
  ASSUME NEW m \in Image, NEW d \in Cluster, NEW names, Len(names) \in Nat
  PROVE  /\ Walk(m, d, names) \in Below(m, d) \cup {NONE}
         /\ Len(names) = 0 => Walk(m, d, names) = d
         /\ Len(names) # 0 /\ Walk(m, d, names) # NONE =>
              \E p \in Below(m, d) : /\ m[p].type = "DIRECTORY"
                                     /\ Walk(m, d, names) \in ToSet(m[p].subs)
                                     /\ m[Walk(m, d, names)].name = names[Len(names)]
  <1> DEFINE A == Below(m, d) \cup {NONE}
             N == Len(names)
  <1>1. /\ A \subseteq Cluster \cup {NONE} /\ d \in A
    BY BelowIs
  <1>2. N \in Nat
    OBVIOUS
  <1>3. PICK u \in [0 .. N -> A] :
          /\ u[0] = d /\ u[N] = Walk(m, d, names)
          /\ \A n \in 1 .. N : u[n] = GetSubnode(m, u[n - 1], names[n])
    BY WalkRun
  <1> HIDE DEF N, A
  <1>4. u[N] \in A
    BY <1>2, <1>3
  <1>5. ASSUME N # 0, u[N] # NONE
         PROVE  \E p \in Below(m, d) : /\ m[p].type = "DIRECTORY" /\ u[N] \in ToSet(m[p].subs)
                                       /\ m[u[N]].name = names[N]
    <2>1. u[N - 1] \in A /\ u[N] = GetSubnode(m, u[N - 1], names[N])
      BY <1>2, <1>3, <1>5
    <2>2. /\ u[N - 1] \in Cluster /\ m[u[N - 1]].type = "DIRECTORY"
          /\ u[N] \in ToSet(m[u[N - 1]].subs) /\ m[u[N]].name = names[N]
      BY <1>1, <1>5, <2>1, SubnodeIs
    <2>3. QED
      BY <2>1, <2>2, Clusters DEF A
  <1>6. QED
    BY <1>3, <1>4, <1>5 DEF A, N

(* The recursion of rm on first entries ends at a cluster that lists       *)
(* nothing.                                                                *)
LEMMA FirstLeafIs ==
  ASSUME NEW m \in Image, Tree(m), NEW c \in Cluster
  PROVE  /\ FirstLeaf(m, c) \in Below(m, c) /\ m[FirstLeaf(m, c)].subs = <<>>
         /\ FirstLeaf(m, c) # c =>
              \E p \in Below(m, c) : FirstLeaf(m, c) \in ToSet(m[p].subs)
  <1> DEFINE A == {x \in Below(m, c) : x = c \/ \E p \in Below(m, c) : x \in ToSet(m[p].subs)}
             next(x) == IF m[x].subs = <<>> THEN x ELSE Head(m[x].subs)
             H == [p \in (1 .. Count) \X A |-> next(p[2])]
             IsRun(w) == w = [n \in 0 .. Count |-> IF n = 0 THEN c ELSE next(w[n - 1])]
             w == CHOOSE w : IsRun(w)
  <1>1. /\ A \subseteq Cluster /\ c \in A /\ A \subseteq Below(m, c) /\ Count \in Nat
        /\ \A x \in Below(m, c) : ToSet(m[x].subs) \subseteq Below(m, c)
    BY BelowIs, Clusters
  <1>2. \A x \in Cluster : m[x].subs # <<>> => Head(m[x].subs) \in ToSet(m[x].subs)
    <2> SUFFICES ASSUME NEW x \in Cluster, m[x].subs # <<>>
                 PROVE  Head(m[x].subs) \in ToSet(m[x].subs)
      OBVIOUS
    <2>1. m[x].subs \in Seq(Cluster)
      BY Fields
    <2>2. Head(m[x].subs) = m[x].subs[1] /\ 1 \in 1 .. Len(m[x].subs)
      BY <2>1, EmptySeq
    <2>3. QED
      BY <2>1, <2>2, Elements
  <1>3. \A x \in A : next(x) \in A
    BY <1>1, <1>2
  <1>4. PICK u : RunOf(u, H, Count, A, c)
    <2>1. StepOn(H, Count, A)
      BY <1>3 DEF StepOn
    <2> HIDE DEF H, A
    <2>2. QED
      BY <1>1, <2>1, Runs
  <1> HIDE DEF A
  <1>5. \A n \in 1 .. Count : u[n - 1] \in A /\ u[n] = next(u[n - 1])
    <2> SUFFICES ASSUME NEW n \in 1 .. Count
                 PROVE  u[n - 1] \in A /\ u[n] = next(u[n - 1])
      OBVIOUS
    <2>1. u[n - 1] \in A /\ u[n] = H[<<n, u[n - 1]>>]
      <3> HIDE DEF H
      <3>1. QED
        BY <1>1, <1>4 DEF RunOf
    <2>2. QED
      BY <2>1
  <1>6. u \in [0 .. Count -> A] /\ u[0] = c
    <2> HIDE DEF H
    <2>1. QED
      BY <1>4 DEF RunOf
  <1> HIDE DEF H
  <1>7. IsRun(u)
    <2>1. \A n \in 0 .. Count : u[n] = IF n = 0 THEN c ELSE next(u[n - 1])
      BY <1>1, <1>5, <1>6
    <2>2. u = [n \in 0 .. Count |-> u[n]]
      BY <1>6
    <2>3. QED
      BY <2>1, <2>2
  <1>8. IsRun(w)
    <2> HIDE DEF IsRun
    <2>1. QED
      BY <1>7
  <1>9. FirstLeaf(m, c) = w[Count]
    BY DEF FirstLeaf
  <1> HIDE DEF w
  <1>10. w[Count] = u[Count]
    <2>1. w[0] = u[0]
      BY <1>1, <1>6, <1>8
    <2>2. \A n \in 1 .. Count : u[n - 1] = w[n - 1] => u[n] = w[n]
      BY <1>1, <1>5, <1>8
    <2> HIDE DEF IsRun
    <2>3. \A n \in 0 .. Count : w[n] = u[n]
      BY <1>1, <2>1, <2>2, SameRun
    <2>4. QED
      BY <1>1, <2>3
  <1>11. u[Count] \in A
    BY <1>1, <1>6
  <1>12. m[u[Count]].subs = <<>>
    <2> DEFINE D == {x \in Cluster : m[x].subs # <<>>}
               g == [x \in D |-> Head(m[x].subs)]
    <2>1. g \in [D -> Cluster] /\ D \in SUBSET Cluster
      <3>1. \A x \in D : Head(m[x].subs) \in Cluster
        <4>1. \A x \in Cluster : ToSet(m[x].subs) \subseteq Cluster
          BY Fields, Elements
        <4>2. QED
          BY <1>2, <4>1
      <3>2. QED
        BY <3>1
    <2>2. \A n \in 1 .. Count : u[n] = IF u[n - 1] \in D THEN g[u[n - 1]] ELSE u[n - 1]
      BY <1>1, <1>5
    <2>3. ASSUME NEW X \in SUBSET D, \A x \in X : g[x] \in X
          PROVE  X = {}
      <3>1. X \in SUBSET Cluster /\ [x \in X |-> g[x]] \in [X -> X]
        BY <2>3
      <3>2. \A x \in X : g[x] \in Kids(m, x)
        BY <1>2 DEF Kids
      <3>3. QED
        BY <3>1, <3>2, NoLoop DEF Tree
    <2>4. u \in [0 .. Count -> Cluster] /\ IsFiniteSet(Cluster) /\ Cardinality(Cluster) <= Count
      BY <1>1, <1>6, Clusters
    <2>5. u[Count] \notin D
      <3> HIDE DEF D, g, next
      <3>1. QED
        BY <1>1, <2>1, <2>2, <2>3, <2>4, WalkEnds
    <2>6. QED
      BY <1>1, <1>11, <2>5
  <1>13. QED
    BY <1>9, <1>10, <1>11, <1>12 DEF A

-----------------------------------------------------------------------------
(***************************************************************************)
(* What a change does to the tree: an entry added, freed, moved.           *)
(***************************************************************************)

(* Kids of one cluster.                                                    *)
LEMMA KidsAre ==
  ASSUME NEW m \in Image, NEW c \in Cluster
  PROVE  /\ m[c].type = "DIRECTORY" => Kids(m, c) = ToSet(m[c].subs)
         /\ m[c].type = "FILE" => Kids(m, c) = {m[c].next} \ {NONE}
         /\ m[c].type = "EMPTY" => Kids(m, c) = {}
  <1>1. m[c].type # "DIRECTORY" => ToSet(m[c].subs) = {}
    BY Fields, NoElements
  <1>2. QED
    BY <1>1 DEF Kids

(* A cluster that was empty becomes a leaf of the tree.                    *)
LEMMA GraphAdd ==
  ASSUME NEW m \in Image, NEW m2 \in Image, TreeOwned(m), TreeReached(m),
         NEW d \in Cluster, m[d].type # "EMPTY",
         NEW c \in Cluster, c # Root, m[c].type = "EMPTY",
         \A x \in Cluster : Kids(m2, x) = Kids(m, x) \cup IF x = d THEN {c} ELSE {},
         \A x \in Cluster : m2[x].type = "EMPTY" <=> m[x].type = "EMPTY" /\ x # c
  PROVE  TreeOwned(m2) /\ TreeReached(m2)
  <1>1. \A x \in Cluster : c \notin Kids(m, x)
    BY DEF TreeOwned
  <1>2. Kids(m, c) = {} /\ Kids(m2, c) = {}
    BY KidsAre
  <1>3. TreeOwned(m2)
    <2> SUFFICES ASSUME NEW k \in Cluster
                 PROVE  /\ k = Root \/ m2[k].type = "EMPTY" => \A x \in Cluster : k \notin Kids(m2, x)
                        /\ k # Root /\ m2[k].type # "EMPTY" => \E x \in Cluster : k \in Kids(m2, x)
                        /\ \A x, y \in Cluster : k \in Kids(m2, x) /\ k \in Kids(m2, y) => x = y
      BY DEF TreeOwned
    <2>1. CASE k = c
      BY <1>1, <2>1
    <2>2. CASE k # c
      <3>1. \A x \in Cluster : k \in Kids(m2, x) <=> k \in Kids(m, x)
        BY <2>2
      <3>2. m2[k].type = "EMPTY" <=> m[k].type = "EMPTY"
        BY <2>2
      <3>3. QED
        BY <3>1, <3>2 DEF TreeOwned
    <2>3. QED
      BY <2>1, <2>2
  <1>4. TreeReached(m2)
    <2> SUFFICES ASSUME NEW S \in SUBSET Cluster, Root \in S, Closed(m2, S)
                 PROVE  Cluster \ Empties(m2) \subseteq S
      BY DEF TreeReached
    <2>1. Closed(m, S)
      BY DEF Closed
    <2>2. Cluster \ Empties(m) \subseteq S
      BY <2>1 DEF TreeReached
    <2>3. c \in S
      BY <2>2 DEF Closed, Empties
    <2>4. QED
      BY <2>2, <2>3 DEF Empties
  <1>5. QED
    BY <1>3, <1>4

(* A branch of the tree is cut off and becomes empty.                      *)
LEMMA GraphFree ==
  ASSUME NEW m \in Image, NEW m2 \in Image, TreeOwned(m), TreeReached(m),
         NEW F \in SUBSET Cluster, Root \notin F, NEW c \in F,
         \A x \in F : Kids(m, x) \subseteq F /\ (x # c => \E y \in F : x \in Kids(m, y)),
         \A x \in Cluster : Kids(m2, x) = IF x \in F THEN {} ELSE Kids(m, x) \ {c},
         \A x \in Cluster : m2[x].type = "EMPTY" <=> m[x].type = "EMPTY" \/ x \in F
  PROVE  TreeOwned(m2) /\ TreeReached(m2)
  <1>1. \A x \in Cluster \ F : \A k \in Kids(m2, x) : k \notin F /\ k \in Kids(m, x)
    BY DEF TreeOwned
  <1>2. TreeOwned(m2)
    <2> SUFFICES ASSUME NEW k \in Cluster
                 PROVE  /\ k = Root \/ m2[k].type = "EMPTY" => \A x \in Cluster : k \notin Kids(m2, x)
                        /\ k # Root /\ m2[k].type # "EMPTY" => \E x \in Cluster : k \in Kids(m2, x)
                        /\ \A x, y \in Cluster : k \in Kids(m2, x) /\ k \in Kids(m2, y) => x = y
      BY DEF TreeOwned
    <2>1. CASE k \in F
      BY <1>1, <2>1
    <2>2. CASE k \notin F
      <3>1. \A x \in Cluster : k \in Kids(m2, x) <=> k \in Kids(m, x)
        BY <2>2
      <3>2. m2[k].type = "EMPTY" <=> m[k].type = "EMPTY"
        BY <2>2
      <3>3. QED
        BY <3>1, <3>2 DEF TreeOwned
    <2>3. QED
      BY <2>1, <2>2
  <1>3. TreeReached(m2)
    <2> SUFFICES ASSUME NEW S \in SUBSET Cluster, Root \in S, Closed(m2, S)
                 PROVE  Cluster \ Empties(m2) \subseteq S
      BY DEF TreeReached
    <2>1. Closed(m, S \cup F)
      BY DEF Closed
    <2>2. Cluster \ Empties(m) \subseteq S \cup F
      BY <2>1 DEF TreeReached
    <2>3. QED
      BY <2>2 DEF Empties
  <1>4. QED
    BY <1>2, <1>3

(* A branch is moved to a cluster that is not on it.                       *)
LEMMA GraphMove ==
  ASSUME NEW m \in Image, NEW m2 \in Image, TreeOwned(m), TreeReached(m),
         NEW c \in Cluster, NEW d \in Cluster, m[d].type # "EMPTY",
         NEW e \in Cluster, c \in Kids(m, e),
         NEW B \in SUBSET Cluster, c \in B, d \notin B, Closed(m, B),
         \A x \in Cluster : Kids(m2, x) = (Kids(m, x) \ {c}) \cup IF x = d THEN {c} ELSE {},
         \A x \in Cluster : m2[x].type = "EMPTY" <=> m[x].type = "EMPTY"
  PROVE  TreeOwned(m2) /\ TreeReached(m2)
  <1>1. TreeOwned(m2)
    <2> SUFFICES ASSUME NEW k \in Cluster
                 PROVE  /\ k = Root \/ m2[k].type = "EMPTY" => \A x \in Cluster : k \notin Kids(m2, x)
                        /\ k # Root /\ m2[k].type # "EMPTY" => \E x \in Cluster : k \in Kids(m2, x)
                        /\ \A x, y \in Cluster : k \in Kids(m2, x) /\ k \in Kids(m2, y) => x = y
      BY DEF TreeOwned
    <2>1. CASE k = c
      <3>1. k # Root /\ m[k].type # "EMPTY"
        BY <2>1 DEF TreeOwned
      <3>2. \A x \in Cluster : k \in Kids(m2, x) <=> x = d
        BY <2>1
      <3>3. QED
        BY <3>1, <3>2
    <2>2. CASE k # c
      <3>1. \A x \in Cluster : k \in Kids(m2, x) <=> k \in Kids(m, x)
        BY <2>2
      <3>2. QED
        BY <3>1 DEF TreeOwned
    <2>3. QED
      BY <2>1, <2>2
  <1>2. TreeReached(m2)
    <2> SUFFICES ASSUME NEW S \in SUBSET Cluster, Root \in S, Closed(m2, S)
                 PROVE  Cluster \ Empties(m2) \subseteq S
      BY DEF TreeReached
    <2>1. Closed(m, S \cup B)
      BY DEF Closed
    <2>2. Cluster \ Empties(m) \subseteq S \cup B
      BY <2>1 DEF TreeReached
    <2>3. d \in S
      BY <2>2 DEF Empties
    <2>4. c \in S
      BY <2>3 DEF Closed
    <2>5. Closed(m, S)
      BY <2>4 DEF Closed
    <2>6. Cluster \ Empties(m) \subseteq S
      BY <2>5 DEF TreeReached
    <2>7. QED
      BY <2>6 DEF Empties
  <1>3. QED
    BY <1>1, <1>2

(* A new entry of a directory.                                             *)
LEMMA ListedIs ==
  ASSUME NEW m \in Image, NEW d \in Cluster, NEW c \in Cluster, d # c,
         m[d].type = "DIRECTORY"
  PROVE  LET n == Listed(m, d, c)
         IN  /\ n \in Image
             /\ \A x \in Cluster \ {c, d} : n[x] = m[x]
             /\ n[c].type = m[c].type /\ n[c].parent = d /\ n[c].name = m[c].name
             /\ n[c].used = m[c].used /\ n[c].next = m[c].next /\ n[c].subs = m[c].subs
             /\ n[c].data = m[c].data
             /\ n[d].type = "DIRECTORY" /\ n[d].parent = m[d].parent
             /\ n[d].name = m[d].name /\ n[d].data = m[d].data
             /\ n[d].used = m[d].used + 1 /\ n[d].subs = Append(m[d].subs, c)
  <1> DEFINE n == Listed(m, d, c)
             more == Append(m[d].subs, c)
             next == IF m[d].used = 0 THEN c ELSE m[d].next
             rd == [m[d] EXCEPT !.subs = more, !.used = @ + 1, !.next = next]
             rc == [m[c] EXCEPT !.parent = d]
  <1>1. n = [m EXCEPT ![c] = rc, ![d] = rd]
    BY DEF Listed, Image
  <1>2. /\ rc \in Contents
        /\ rc.type = m[c].type /\ rc.parent = d /\ rc.name = m[c].name
        /\ rc.used = m[c].used /\ rc.next = m[c].next /\ rc.subs = m[c].subs
        /\ rc.data = m[c].data
    BY DEF Image, Contents
  <1>3. more \in Seq(Cluster) /\ m[d].used + 1 \in Nat /\ next \in Cluster \cup {NONE}
    <2>1. m[d].subs \in Seq(Cluster) /\ m[d].used \in Nat /\ m[d].next \in Cluster \cup {NONE}
      BY Fields
    <2>2. QED
      BY <2>1
  <1> HIDE DEF more, next
  <1>4. rd \in Contents
    BY <1>3 DEF Image, Contents
  <1>5. /\ rd.type = "DIRECTORY" /\ rd.parent = m[d].parent /\ rd.name = m[d].name
        /\ rd.data = m[d].data /\ rd.used = m[d].used + 1 /\ rd.subs = more
    BY DEF Image, Contents
  <1> HIDE DEF rd, rc
  <1>6. /\ n \in Image /\ n[c] = rc /\ n[d] = rd
        /\ \A x \in Cluster \ {c, d} : n[x] = m[x]
    BY <1>1, <1>2, <1>4 DEF Image
  <1>7. QED
    BY <1>2, <1>5, <1>6 DEF more

(* An entry of a directory less.                                           *)
LEMMA UnlistedIs ==
  ASSUME NEW m \in Image, TreeDirs(m), NEW e \in Cluster, m[e].type = "DIRECTORY",
         NEW c \in ToSet(m[e].subs)
  PROVE  LET n == Unlisted(m, c)
         IN  /\ n \in Image /\ m[c].parent = e /\ c \in Cluster
             /\ \A x \in Cluster \ {e} : n[x] = m[x]
             /\ n[e].type = "DIRECTORY" /\ n[e].parent = m[e].parent
             /\ n[e].name = m[e].name /\ n[e].data = m[e].data
             /\ n[e].used = m[e].used - 1 /\ n[e].subs = RemoveFirst(m[e].subs, c)
  <1> DEFINE n == Unlisted(m, c)
             left == RemoveFirst(m[e].subs, c)
             next == IF left = <<>> THEN m[e].next ELSE Head(left)
             re == [m[e] EXCEPT !.subs = left, !.used = @ - 1, !.next = next]
  <1>1. m[c].parent = e /\ c \in Cluster
    BY Fields, Elements DEF TreeDirs
  <1>2. m[e].subs \in Seq(Cluster) /\ IsInjective(m[e].subs) /\ m[e].used = Len(m[e].subs)
    BY Fields DEF TreeDirs
  <1>3. left \in Seq(Cluster) /\ m[e].used - 1 \in Nat
    BY <1>2, RemoveFirstIs
  <1>4. next \in Cluster \cup {NONE}
    <2>1. m[e].next \in Cluster \cup {NONE}
      BY Fields
    <2>2. left # <<>> => Head(left) \in Cluster
      BY <1>3, HeadTailProperties
    <2>3. QED
      BY <2>1, <2>2
  <1>5. n = [m EXCEPT ![e] = re]
    BY <1>1 DEF Unlisted, Image
  <1> HIDE DEF left, next
  <1>6. re \in Contents
    BY <1>3, <1>4 DEF Image, Contents
  <1>7. /\ re.type = "DIRECTORY" /\ re.parent = m[e].parent /\ re.name = m[e].name
        /\ re.data = m[e].data /\ re.used = m[e].used - 1 /\ re.subs = left
    BY DEF Image, Contents
  <1> HIDE DEF re
  <1>8. n \in Image /\ n[e] = re /\ \A x \in Cluster \ {e} : n[x] = m[x]
    BY <1>5, <1>6 DEF Image
  <1>9. QED
    BY <1>1, <1>7, <1>8 DEF left

(* A leaf is added to a directory.                                         *)
LEMMA LeafAdded ==
  ASSUME NEW m \in Image, NEW n \in Image, Tree(m),
         NEW d \in Cluster, m[d].type = "DIRECTORY",
         NEW c \in Cluster, m[c].type = "EMPTY",
         \A x \in Cluster \ {c, d} : n[x] = m[x],
         n[d].type = "DIRECTORY", n[d].parent = m[d].parent, n[d].name = m[d].name,
         n[d].used = m[d].used + 1, n[d].subs = Append(m[d].subs, c),
         n[c].type \in {"DIRECTORY", "FILE"}, n[c].parent = d, n[c].name \in Name,
         n[c].subs = <<>>,
         n[c].type = "DIRECTORY" => n[c].used = 0,
         n[c].type = "FILE" => n[c].next = NONE
  PROVE  Tree(n)
  <1>1. /\ c # Root /\ c # d /\ \A x \in Cluster : c \notin Kids(m, x)
        /\ c \notin ToSet(m[d].subs)
    BY DEF Tree, TreeRoot, TreeOwned, Kids
  <1>2. /\ m[d].subs \in Seq(Cluster) /\ IsInjective(m[d].subs) /\ m[d].used = Len(m[d].subs)
        /\ \A k \in ToSet(m[d].subs) : m[k].parent = d /\ m[k].name \in Name
    BY Fields DEF Tree, TreeDirs
  <1>3. /\ Len(n[d].subs) = n[d].used /\ IsInjective(n[d].subs)
        /\ ToSet(n[d].subs) = ToSet(m[d].subs) \cup {c}
    BY <1>1, <1>2, AppendIs
  <1>4. \A x \in Cluster \ {c} : n[x].parent = m[x].parent /\ n[x].name = m[x].name
                                 /\ n[x].type = m[x].type
    OBVIOUS
  <1>5. TreeRoot(n)
    BY <1>1, <1>4, Clusters DEF Tree, TreeRoot
  <1>6. TreeDirs(n)
    <2> SUFFICES ASSUME NEW x \in Cluster, n[x].type = "DIRECTORY"
                 PROVE  /\ n[x].used = Len(n[x].subs) /\ IsInjective(n[x].subs)
                        /\ \A k \in ToSet(n[x].subs) : n[k].parent = x /\ n[k].name \in Name
      BY DEF TreeDirs
    <2>1. CASE x = c
      <3>1. ToSet(<<>>) = {} /\ IsInjective(<<>>) /\ Len(<<>>) = 0
        BY NoElements DEF IsInjective
      <3>2. QED
        BY <2>1, <3>1
    <2>2. CASE x = d
      <3>1. ToSet(m[d].subs) \subseteq Cluster
        BY <1>2, Elements
      <3>2. QED
        BY <1>1, <1>2, <1>3, <1>4, <2>2, <3>1
    <2>3. CASE x # c /\ x # d
      <3>1. ToSet(m[x].subs) \subseteq Cluster /\ c \notin ToSet(m[x].subs) /\ n[x] = m[x]
        BY <1>1, <2>3, Fields, Elements DEF Kids
      <3>2. QED
        BY <1>4, <3>1 DEF Tree, TreeDirs
    <2>4. QED
      BY <2>1, <2>2, <2>3
  <1>7. TreeFiles(n)
    <2> SUFFICES ASSUME NEW x \in Cluster, n[x].type = "FILE", n[x].next # NONE
                 PROVE  n[n[x].next].type = "FILE"
      BY DEF TreeFiles
    <2>1. n[x] = m[x] /\ n[x].next \in Cluster
      BY Fields
    <2>2. QED
      BY <1>4, <2>1 DEF Tree, TreeFiles
  <1>8. ASSUME NEW x \in Cluster
        PROVE  Kids(n, x) = Kids(m, x) \cup IF x = d THEN {c} ELSE {}
    <2>1. CASE x = c
      <3>1. Kids(n, c) = {}
        BY KidsAre, NoElements
      <3>2. QED
        BY <1>1, <2>1, <3>1, KidsAre
    <2>2. CASE x = d
      BY <1>3, <2>2, KidsAre
    <2>3. CASE x # c /\ x # d
      BY <2>3 DEF Kids
    <2>4. QED
      BY <2>1, <2>2, <2>3
  <1>9. \A x \in Cluster : n[x].type = "EMPTY" <=> m[x].type = "EMPTY" /\ x # c
    BY <1>4
  <1>10. TreeOwned(n) /\ TreeReached(n)
    BY <1>1, <1>8, <1>9, GraphAdd DEF Tree
  <1>11. QED
    BY <1>5, <1>6, <1>7, <1>10 DEF Tree

(* A block is added to a file.                                             *)
LEMMA PartAdded ==
  ASSUME NEW m \in Image, NEW n \in Image, Tree(m),
         NEW b \in Cluster, m[b].type = "FILE", m[b].next = NONE,
         NEW c \in Cluster, m[c].type = "EMPTY",
         \A x \in Cluster \ {b, c} : n[x] = m[x],
         n[b].type = "FILE", n[b].parent = m[b].parent, n[b].name = m[b].name, n[b].next = c,
         n[c].type = "FILE", n[c].next = NONE
  PROVE  Tree(n)
  <1>1. c # Root /\ b # Root /\ c # b /\ \A x \in Cluster : c \notin Kids(m, x)
    BY DEF Tree, TreeRoot, TreeOwned
  <1>2. /\ \A x \in Cluster \ {c} : n[x].parent = m[x].parent /\ n[x].name = m[x].name
                                   /\ n[x].type = m[x].type
        /\ \A x \in Cluster : n[x].type = "DIRECTORY" => n[x] = m[x]
    OBVIOUS
  <1>3. TreeRoot(n)
    BY <1>1, <1>2, Clusters DEF Tree, TreeRoot
  <1>4. TreeDirs(n)
    <2> SUFFICES ASSUME NEW x \in Cluster, n[x].type = "DIRECTORY"
                 PROVE  /\ n[x].used = Len(n[x].subs) /\ IsInjective(n[x].subs)
                        /\ \A k \in ToSet(n[x].subs) : n[k].parent = x /\ n[k].name \in Name
      BY DEF TreeDirs
    <2>1. n[x] = m[x] /\ ToSet(m[x].subs) \subseteq Cluster /\ c \notin ToSet(m[x].subs)
      BY <1>1, <1>2, Fields, Elements DEF Kids
    <2>2. QED
      BY <1>2, <2>1 DEF Tree, TreeDirs
  <1>5. TreeFiles(n)
    <2> SUFFICES ASSUME NEW x \in Cluster, n[x].type = "FILE", n[x].next # NONE
                 PROVE  n[n[x].next].type = "FILE"
      BY DEF TreeFiles
    <2>1. CASE x = b
      BY <2>1
    <2>2. CASE x # b
      <3>1. n[x] = m[x] /\ n[x].next \in Cluster
        BY <2>2, Fields
      <3>2. m[n[x].next].type = "FILE"
        BY <3>1 DEF Tree, TreeFiles
      <3>3. QED
        BY <1>2, <3>1, <3>2
    <2>3. QED
      BY <2>1, <2>2
  <1>6. ASSUME NEW x \in Cluster
        PROVE  Kids(n, x) = Kids(m, x) \cup IF x = b THEN {c} ELSE {}
    <2>1. CASE x = b
      BY <2>1, KidsAre, Clusters
    <2>2. CASE x = c
      BY <1>1, <2>2, KidsAre
    <2>3. CASE x # c /\ x # b
      BY <2>3 DEF Kids
    <2>4. QED
      BY <2>1, <2>2, <2>3
  <1>7. \A x \in Cluster : n[x].type = "EMPTY" <=> m[x].type = "EMPTY" /\ x # c
    BY <1>2
  <1>8. TreeOwned(n) /\ TreeReached(n)
    BY <1>1, <1>6, <1>7, GraphAdd DEF Tree
  <1>9. QED
    BY <1>3, <1>4, <1>5, <1>8 DEF Tree

(* A cluster nothing was ever put into.                                    *)
LEMMA BlankIs ==
  /\ Blank \in Contents
  /\ Blank.type = "EMPTY" /\ Blank.used = 0 /\ Blank.subs = <<>> /\ Blank.name = ""
  <1>1. Root \in Cluster /\ <<>> \in Seq(Cluster)
    BY Clusters
  <1>2. NoData \in (Host \cup {NoHost}) \X Nat
    BY DEF NoData, NoHost
  <1>3. Blank = [type |-> "EMPTY", parent |-> Root, name |-> "", used |-> 0,
                 next |-> Root, subs |-> <<>>, data |-> NoData]
    BY DEF Blank, Root
  <1>4. Blank \in Contents
    BY <1>1, <1>2, <1>3 DEF Contents, Type
  <1>5. QED
    BY <1>3, <1>4

(* The clusters cs are emptied.                                            *)
LEMMA FreedIs ==
  ASSUME NEW m \in Image, NEW cs \in SUBSET Cluster
  PROVE  /\ Freed(m, cs) \in Image
         /\ \A x \in cs : Freed(m, cs)[x].type = "EMPTY" /\ Freed(m, cs)[x].subs = <<>>
         /\ \A x \in Cluster \ cs : Freed(m, cs)[x] = m[x]
  <1> DEFINE r(x) == [Blank EXCEPT !.used = m[x].used, !.next = m[x].next]
  <1>1. ASSUME NEW x \in Cluster
        PROVE  r(x) \in Contents /\ r(x).type = "EMPTY" /\ r(x).subs = <<>>
    <2>1. m[x].used \in Nat /\ m[x].next \in Cluster \cup {NONE}
      BY Fields
    <2>2. QED
      BY <2>1, BlankIs DEF Contents
  <1>2. Freed(m, cs) = [x \in Cluster |-> IF x \in cs THEN r(x) ELSE m[x]]
    BY DEF Freed
  <1> HIDE DEF r
  <1>3. QED
    BY <1>1, <1>2 DEF Image

(* A leaf c of directory d is gone, and the clusters F are empty.          *)
LeafGone(m, d, c, F, n) ==
  /\ F \in SUBSET Cluster /\ m[c].parent = d /\ d \notin F /\ Root \notin F
  /\ \A x \in F \ {c} : m[x].type = "FILE"
  /\ n \in Image /\ Tree(n)
  /\ \A x \in Cluster \ (F \cup {d}) : n[x] = m[x]
  /\ \A x \in F : n[x].type = "EMPTY" /\ n[x].subs = <<>>
  /\ n[d].type = "DIRECTORY" /\ n[d].parent = m[d].parent
  /\ n[d].name = m[d].name
  /\ ToSet(n[d].subs) = ToSet(m[d].subs) \ {c}
  /\ \A x \in F \ {c} : \A y \in Cluster : x \in Kids(m, y) => y \in F

(* A leaf is removed: a file with its blocks, or an empty directory.       *)
LEMMA LeafFreed ==
  ASSUME NEW m \in Image, Tree(m), NEW d \in Cluster, m[d].type = "DIRECTORY",
         NEW c \in ToSet(m[d].subs), m[c].subs = <<>>
  PROVE  LeafGone(m, d, c, {c} \cup ToSet(Parts(m, c)),
                  Freed(Unlisted(m, c), {c} \cup ToSet(Parts(m, c))))
  <1> DEFINE F == {c} \cup ToSet(Parts(m, c))
             u == Unlisted(m, c)
             n == Freed(u, F)
  <1>0. /\ TreeRoot(m) /\ TreeDirs(m) /\ TreeFiles(m) /\ TreeOwned(m) /\ TreeReached(m)
        /\ Root \in Cluster
    BY Clusters DEF Tree
  <1>1. /\ u \in Image /\ m[c].parent = d /\ c \in Cluster
        /\ \A x \in Cluster \ {d} : u[x] = m[x]
        /\ u[d].type = "DIRECTORY" /\ u[d].parent = m[d].parent
        /\ u[d].name = m[d].name
        /\ u[d].used = m[d].used - 1 /\ u[d].subs = RemoveFirst(m[d].subs, c)
    BY <1>0, UnlistedIs
  <1>2. /\ Len(u[d].subs) = u[d].used /\ IsInjective(u[d].subs)
        /\ ToSet(u[d].subs) = ToSet(m[d].subs) \ {c}
    <2>1. m[d].subs \in Seq(Cluster) /\ IsInjective(m[d].subs) /\ m[d].used = Len(m[d].subs)
      BY <1>0, Fields DEF TreeDirs
    <2>2. QED
      BY <1>1, <2>1, RemoveFirstIs
  <1>3. c \in Kids(m, d) /\ m[c].type # "EMPTY" /\ c # Root
    BY <1>0, <1>1, KidsAre DEF TreeOwned
  <1>4. /\ F \in SUBSET Cluster
        /\ \A x \in F : Kids(m, x) \subseteq F /\ (x # c => \E y \in F : x \in Kids(m, y))
        /\ \A x \in F \ {c} : m[x].type = "FILE"
    <2>1. CASE m[c].type = "FILE"
      <3>1. /\ F \subseteq Cluster
            /\ \A x \in F : m[x].type = "FILE" /\ (m[x].next # NONE => m[x].next \in F)
            /\ \A x \in F : x # c => \E y \in F : x \in Kids(m, y)
        BY <1>1, <2>1, PartsAre
      <3>2. QED
        BY <3>1, KidsAre
    <2>2. CASE m[c].type # "FILE"
      <3>1. Parts(m, c) = <<>> /\ ToSet(<<>>) = {}
        BY <2>2, NoElements DEF Parts
      <3>2. F = {c} /\ Kids(m, c) = {}
        BY <2>2, <3>1 DEF Kids
      <3>3. QED
        BY <1>1, <3>2
    <2>3. QED
      BY <2>1, <2>2
  <1> HIDE DEF F
  <1>5. c \in F
    BY DEF F
  <1>6. d \notin F /\ Root \notin F
    <2>1. ToSet(m[d].subs) # {} /\ ToSet(m[c].subs) = {}
      BY NoElements
    <2>2. QED
      BY <1>0, <1>3, <1>4, <2>1 DEF TreeRoot
  <1>7. \A x \in F \ {c} : \A y \in Cluster : x \in Kids(m, y) => y \in F
    BY <1>0, <1>4 DEF TreeOwned
  <1>8. \A y \in Cluster : c \in Kids(m, y) => y = d
    BY <1>0, <1>1, <1>3 DEF TreeOwned
  <1>9. /\ n \in Image
        /\ \A x \in F : n[x].type = "EMPTY" /\ n[x].subs = <<>>
        /\ \A x \in Cluster \ F : n[x] = u[x]
    BY <1>1, <1>4, FreedIs
  <1> HIDE DEF n, u
  <1>10. /\ \A x \in Cluster \ (F \cup {d}) : n[x] = m[x]
         /\ n[d] = u[d]
    BY <1>1, <1>6, <1>9
  <1>11. \A x \in Cluster \ F : /\ n[x].parent = m[x].parent /\ n[x].name = m[x].name
                                /\ n[x].type = m[x].type
    BY <1>1, <1>10
  <1>12. TreeRoot(n)
    BY <1>0, <1>6, <1>11 DEF TreeRoot
  <1>13. ASSUME NEW x \in Cluster
         PROVE  Kids(n, x) = IF x \in F THEN {} ELSE Kids(m, x) \ {c}
    <2>1. CASE x \in F
      BY <1>9, <2>1, KidsAre
    <2>2. CASE x = d
      BY <1>1, <1>2, <1>6, <1>9, <1>10, <2>2, KidsAre
    <2>3. CASE x \notin F /\ x # d
      <3>1. n[x] = m[x] /\ c \notin Kids(m, x)
        BY <1>8, <1>10, <2>3
      <3>2. QED
        BY <2>3, <3>1 DEF Kids
    <2>4. QED
      BY <2>1, <2>2, <2>3
  <1>14. \A x \in Cluster : n[x].type = "EMPTY" <=> m[x].type = "EMPTY" \/ x \in F
    BY <1>9, <1>11
  <1>15. TreeOwned(n) /\ TreeReached(n)
    BY <1>0, <1>4, <1>5, <1>6, <1>9, <1>13, <1>14, GraphFree
  <1>16. TreeDirs(n)
    <2> SUFFICES ASSUME NEW x \in Cluster, n[x].type = "DIRECTORY"
                 PROVE  /\ n[x].used = Len(n[x].subs) /\ IsInjective(n[x].subs)
                        /\ \A k \in ToSet(n[x].subs) : n[k].parent = x /\ n[k].name \in Name
      BY DEF TreeDirs
    <2>1. x \notin F /\ m[x].type = "DIRECTORY"
      BY <1>9, <1>11
    <2>2. n[x].used = Len(n[x].subs) /\ IsInjective(n[x].subs)
      <3>1. CASE x = d
        BY <1>2, <1>10, <3>1
      <3>2. CASE x # d
        BY <1>0, <1>10, <2>1, <3>2 DEF TreeDirs
      <3>3. QED
        BY <3>1, <3>2
    <2>3. ASSUME NEW k \in ToSet(n[x].subs)
          PROVE  n[k].parent = x /\ n[k].name \in Name
      <3>1. k \in Kids(n, x) /\ k \in Cluster
        BY <1>9, KidsAre, KidsType
      <3>2. k \in Kids(m, x) /\ k # c
        BY <1>13, <2>1, <3>1
      <3>3. k \in ToSet(m[x].subs) /\ k \notin F
        BY <1>7, <2>1, <3>2, KidsAre
      <3>4. QED
        BY <1>0, <1>11, <2>1, <3>1, <3>3 DEF TreeDirs
    <2>4. QED
      BY <2>2, <2>3
  <1>17. TreeFiles(n)
    <2> SUFFICES ASSUME NEW x \in Cluster, n[x].type = "FILE", n[x].next # NONE
                 PROVE  n[n[x].next].type = "FILE"
      BY DEF TreeFiles
    <2>1. x \notin F /\ m[x].type = "FILE" /\ x # d /\ n[x] = m[x]
      BY <1>9, <1>10, <1>11
    <2>2. m[x].next \in Kids(m, x) /\ m[x].next \in Cluster /\ m[m[x].next].type = "FILE"
      BY <1>0, <2>1, Fields DEF Kids, TreeFiles
    <2>3. m[x].next \notin F
      BY <1>7, <1>8, <2>1, <2>2
    <2>4. QED
      BY <1>11, <2>1, <2>2, <2>3
  <1>18. Tree(n)
    BY <1>12, <1>15, <1>16, <1>17 DEF Tree
  <1>19. LeafGone(m, d, c, F, n)
    BY <1>1, <1>2, <1>4, <1>6, <1>7, <1>9, <1>10, <1>18 DEF LeafGone
  <1>20. QED
    BY <1>19 DEF F, n, u

(* The entry c of directory e has become an entry of directory d.          *)
MovedTo(m, e, c, d, name, n) ==
  /\ c \in Cluster /\ c # d /\ c # e /\ m[c].parent = e
  /\ n \in Image /\ Tree(n)
  /\ \A x \in Cluster \ {c, d, e} : n[x] = m[x]
  /\ \A x \in Cluster \ {c} : n[x].parent = m[x].parent /\ n[x].name = m[x].name
  /\ \A x \in Cluster : n[x].type = m[x].type
  /\ n[c].parent = d /\ n[c].name = name /\ n[c].subs = m[c].subs
  /\ n[c].next = m[c].next /\ n[c].used = m[c].used /\ n[c].data = m[c].data
  /\ \A x \in Cluster : ToSet(n[x].subs) =
       (ToSet(m[x].subs) \ {c}) \cup IF x = d THEN {c} ELSE {}
  /\ \A x \in Cluster : m[x].type = "FILE" => n[x].next = m[x].next

(* An entry of directory e becomes an entry of directory d.                *)
LEMMA Moved ==
  ASSUME NEW m \in Image, Tree(m), NEW e \in Cluster, m[e].type = "DIRECTORY",
         NEW c \in ToSet(m[e].subs), NEW d \in Cluster, m[d].type = "DIRECTORY",
         d \notin Below(m, c), NEW name \in Name
  PROVE  MovedTo(m, e, c, d, name, [Listed(Unlisted(m, c), d, c) EXCEPT ![c].name = name])
  <1> DEFINE u == Unlisted(m, c)
             v == Listed(u, d, c)
             n == [v EXCEPT ![c].name = name]
  <1>0. TreeRoot(m) /\ TreeDirs(m) /\ TreeFiles(m) /\ TreeOwned(m) /\ TreeReached(m)
    BY DEF Tree
  <1>1. /\ u \in Image /\ m[c].parent = e /\ c \in Cluster
        /\ \A x \in Cluster \ {e} : u[x] = m[x]
        /\ u[e].type = "DIRECTORY" /\ u[e].parent = m[e].parent
        /\ u[e].name = m[e].name
        /\ u[e].used = m[e].used - 1 /\ u[e].subs = RemoveFirst(m[e].subs, c)
    BY <1>0, UnlistedIs
  <1>2. c \in Kids(m, e) /\ c # Root /\ m[c].type # "EMPTY"
    BY <1>0, <1>1 DEF Kids, TreeOwned
  <1>3. \A y \in Cluster : c \in Kids(m, y) => y = e
    BY <1>0, <1>1, <1>2 DEF TreeOwned
  <1>4. c # d /\ c # e
    <2>1. c \in Below(m, c)
      BY <1>1, BelowIs
    <2>2. ASSUME c = e PROVE FALSE
      <3>1. [x \in {c} |-> x] \in [{c} -> {c}]
            /\ \A x \in {c} : [y \in {c} |-> y][x] \in Kids(m, x)
        BY <1>2, <2>2
      <3>2. {c} \in SUBSET Cluster
        BY <1>1
      <3>3. {c} = {}
        BY <1>0, <3>1, <3>2, NoLoop
      <3>4. QED
        BY <3>3
    <2>3. QED
      BY <2>1, <2>2
  <1>5. c \notin Kids(m, c) /\ c \notin ToSet(m[c].subs)
    BY <1>1, <1>3, <1>4 DEF Kids
  <1>6. /\ Len(u[e].subs) = u[e].used /\ IsInjective(u[e].subs)
        /\ ToSet(u[e].subs) = ToSet(m[e].subs) \ {c}
    <2>1. m[e].subs \in Seq(Cluster) /\ IsInjective(m[e].subs) /\ m[e].used = Len(m[e].subs)
      BY <1>0, Fields DEF TreeDirs
    <2>2. QED
      BY <1>1, <2>1, RemoveFirstIs
  <1> HIDE DEF u
  <1>7. ASSUME NEW x \in Cluster
        PROVE  /\ u[x].type = m[x].type /\ u[x].parent = m[x].parent /\ u[x].name = m[x].name
               /\ ToSet(u[x].subs) = ToSet(m[x].subs) \ {c}
               /\ m[x].type = "DIRECTORY" => u[x].used = Len(u[x].subs) /\ IsInjective(u[x].subs)
               /\ m[x].type = "FILE" => u[x] = m[x]
    <2>1. CASE x = e
      BY <1>1, <1>6, <2>1
    <2>2. CASE x # e
      <3>1. c \notin ToSet(m[x].subs)
        BY <1>3, <2>2 DEF Kids
      <3>2. QED
        BY <1>0, <1>1, <2>2, <3>1 DEF TreeDirs
    <2>3. QED
      BY <2>1, <2>2
  <1>8. /\ v \in Image
        /\ \A x \in Cluster \ {c, d} : v[x] = u[x]
        /\ v[c].type = u[c].type /\ v[c].parent = d /\ v[c].subs = u[c].subs
        /\ v[c].next = u[c].next /\ v[c].used = u[c].used /\ v[c].data = u[c].data
        /\ v[d].type = "DIRECTORY" /\ v[d].parent = u[d].parent
        /\ v[d].name = u[d].name
        /\ v[d].used = u[d].used + 1 /\ v[d].subs = Append(u[d].subs, c)
    <2>1. u \in Image /\ c \in Cluster /\ d # c /\ u[d].type = "DIRECTORY"
      BY <1>1, <1>4, <1>7
    <2>2. QED
      BY <2>1, ListedIs
  <1> HIDE DEF v
  <1>9. u[c] = m[c] /\ u[c] \in Contents
    BY <1>1, <1>4 DEF Image
  <1>10. /\ v[c].type = m[c].type /\ v[c].parent = d /\ v[c].subs = m[c].subs
         /\ v[c].next = m[c].next /\ v[c].used = m[c].used /\ v[c].data = m[c].data
    BY <1>8, <1>9 DEF Contents
  <1>11. n = [v EXCEPT ![c] = [v[c] EXCEPT !.name = name]]
    BY <1>1, <1>8 DEF Image
  <1>12. /\ [v[c] EXCEPT !.name = name] \in Contents
         /\ \A x \in {[v[c] EXCEPT !.name = name]} :
               /\ x.type = m[c].type /\ x.parent = d /\ x.subs = m[c].subs
               /\ x.next = m[c].next /\ x.used = m[c].used /\ x.data = m[c].data
               /\ x.name = name
    <2>1. v[c] \in Contents
      BY <1>1, <1>8 DEF Image
    <2> HIDE DEF n
    <2>2. QED
      BY <1>10, <2>1 DEF Contents
  <1>13. /\ n \in Image /\ \A x \in Cluster \ {c} : n[x] = v[x]
         /\ n[c].type = m[c].type /\ n[c].parent = d /\ n[c].subs = m[c].subs
         /\ n[c].next = m[c].next /\ n[c].used = m[c].used /\ n[c].data = m[c].data
         /\ n[c].name = name
    <2> DEFINE r == [v[c] EXCEPT !.name = name]
    <2>1. r \in Contents /\ n = [v EXCEPT ![c] = r]
      BY <1>11, <1>12
    <2>2. /\ r.type = m[c].type /\ r.parent = d /\ r.subs = m[c].subs
          /\ r.next = m[c].next /\ r.used = m[c].used /\ r.data = m[c].data
          /\ r.name = name
      BY <1>12
    <2> HIDE DEF r, n
    <2>3. /\ n \in Image /\ n[c] = r /\ \A x \in Cluster \ {c} : n[x] = v[x]
      BY <1>1, <1>8, <2>1 DEF Image
    <2>4. QED
      BY <2>2, <2>3
  <1> HIDE DEF n
  <1>14. /\ n[d].used = Len(n[d].subs) /\ IsInjective(n[d].subs)
         /\ ToSet(n[d].subs) = (ToSet(m[d].subs) \ {c}) \cup {c}
    <2>1. /\ u[d].subs \in Seq(Cluster) /\ IsInjective(u[d].subs)
          /\ u[d].used = Len(u[d].subs) /\ c \notin ToSet(u[d].subs)
          /\ ToSet(u[d].subs) = ToSet(m[d].subs) \ {c}
      BY <1>1, <1>7, Fields
    <2>2. n[d].subs = Append(u[d].subs, c) /\ n[d].used = u[d].used + 1
      BY <1>4, <1>8, <1>13
    <2>3. QED
      BY <1>1, <2>1, <2>2, AppendIs
  <1>15. ASSUME NEW x \in Cluster
         PROVE  /\ n[x].type = m[x].type
                /\ x # c => n[x].parent = m[x].parent /\ n[x].name = m[x].name
                /\ ToSet(n[x].subs) = (ToSet(m[x].subs) \ {c}) \cup IF x = d THEN {c} ELSE {}
                /\ m[x].type = "FILE" => n[x].next = m[x].next
                /\ x \notin {c, d, e} => n[x] = m[x]
                /\ m[x].type = "DIRECTORY" => n[x].used = Len(n[x].subs) /\ IsInjective(n[x].subs)
    <2>1. CASE x = c
      BY <1>0, <1>4, <1>5, <1>13, <2>1 DEF TreeDirs
    <2>2. CASE x = d
      BY <1>4, <1>7, <1>8, <1>13, <1>14, <2>2
    <2>3. CASE x # c /\ x # d
      <3>1. n[x] = u[x] /\ (x # e => u[x] = m[x])
        BY <1>1, <1>8, <1>13, <2>3
      <3>2. QED
        BY <1>7, <2>3, <3>1
    <2>4. QED
      BY <2>1, <2>2, <2>3
  <1>16. ASSUME NEW x \in Cluster
         PROVE  Kids(n, x) = (Kids(m, x) \ {c}) \cup IF x = d THEN {c} ELSE {}
    <2>1. CASE m[x].type = "FILE"
      <3>1. c \notin Kids(m, x)
        BY <1>3, <2>1
      <3>2. QED
        BY <1>13, <1>15, <2>1, <3>1, KidsAre
    <2>2. CASE m[x].type # "FILE"
      BY <1>15, <2>2 DEF Kids
    <2>3. QED
      BY <2>1, <2>2
  <1>17. TreeRoot(n)
    <2>1. Root \in Cluster /\ c # Root
      BY <1>2, Clusters
    <2>2. QED
      BY <1>0, <1>15, <2>1 DEF TreeRoot
  <1>18. TreeDirs(n)
    <2> SUFFICES ASSUME NEW x \in Cluster, m[x].type = "DIRECTORY", NEW k \in ToSet(n[x].subs)
                 PROVE  n[k].parent = x /\ n[k].name \in Name
      BY <1>15 DEF TreeDirs
    <2>1. CASE k = c
      <3>1. x = d
        BY <1>15, <2>1
      <3>2. QED
        BY <1>13, <2>1, <3>1
    <2>2. CASE k # c
      <3>1. k \in ToSet(m[x].subs) /\ k \in Cluster
        <4>1. k \in ToSet(m[x].subs)
          BY <1>15, <2>2
        <4>2. m[x].subs \in Seq(Cluster)
          BY Fields
        <4>3. ToSet(m[x].subs) \subseteq Cluster
          BY <4>2, Elements
        <4>4. QED
          BY <4>1, <4>3
      <3>2. QED
        BY <1>0, <1>15, <2>2, <3>1 DEF TreeDirs
    <2>3. QED
      BY <2>1, <2>2
  <1>19. TreeFiles(n)
    <2> SUFFICES ASSUME NEW x \in Cluster, n[x].type = "FILE", n[x].next # NONE
                 PROVE  n[n[x].next].type = "FILE"
      BY DEF TreeFiles
    <2>1. m[x].type = "FILE" /\ n[x].next = m[x].next /\ m[x].next \in Cluster
      BY <1>15, Fields
    <2>2. QED
      BY <1>0, <1>15, <2>1 DEF TreeFiles
  <1>20. TreeOwned(n) /\ TreeReached(n)
    <2> DEFINE B == Below(m, c) \cup {x \in Cluster : m[x].type = "FILE"}
    <2>1. /\ Below(m, c) \in SUBSET Cluster /\ c \in Below(m, c)
          /\ \A x \in Below(m, c) : ToSet(m[x].subs) \subseteq Below(m, c)
      BY <1>1, BelowIs
    <2>2. ASSUME NEW x \in B
          PROVE  Kids(m, x) \subseteq B
      <3>1. ToSet(m[x].subs) \subseteq B
        <4>1. CASE x \in Below(m, c)
          BY <2>1, <4>1
        <4>2. CASE m[x].type = "FILE" /\ x \in Cluster
          BY <4>2, Fields, NoElements
        <4>3. QED
          BY <4>1, <4>2
      <3>2. m[x].type = "FILE" /\ m[x].next # NONE => m[x].next \in B
        BY <1>0, <2>1, Fields DEF TreeFiles
      <3>3. QED
        BY <3>1, <3>2 DEF Kids
    <2>3. B \in SUBSET Cluster /\ c \in B /\ d \notin B /\ Closed(m, B)
      BY <2>1, <2>2 DEF Closed
    <2> HIDE DEF B
    <2>4. QED
      BY <1>0, <1>1, <1>2, <1>13, <1>15, <1>16, <2>3, GraphMove
  <1>21. Tree(n)
    BY <1>17, <1>18, <1>19, <1>20 DEF Tree
  <1>22. MovedTo(m, e, c, d, name, n)
    BY <1>1, <1>4, <1>13, <1>15, <1>21 DEF MovedTo
  <1>23. QED
    BY <1>22 DEF n, v, u

-----------------------------------------------------------------------------
(***************************************************************************)
(* What the commands read: names, paths, the ways down the tree.           *)
(***************************************************************************)

(* Every directory is listed somewhere below the root.                     *)
LEMMA DirsBelow ==
  ASSUME NEW m \in Image, Tree(m), NEW d \in Cluster, m[d].type = "DIRECTORY"
  PROVE  d \in Below(m, Root)
  <1> DEFINE S == Below(m, Root) \cup {x \in Cluster : m[x].type = "FILE"}
  <1>1. /\ Below(m, Root) \in SUBSET Cluster /\ Root \in Below(m, Root)
        /\ \A x \in Below(m, Root) : ToSet(m[x].subs) \subseteq Below(m, Root)
    BY Clusters, BelowIs
  <1>2. ASSUME NEW x \in S
        PROVE  Kids(m, x) \subseteq S
    <2>1. ToSet(m[x].subs) \subseteq S
      BY <1>1, Fields, NoElements
    <2>2. m[x].type = "FILE" /\ m[x].next # NONE => m[x].next \in S
      BY <1>1, Fields DEF Tree, TreeFiles
    <2>3. QED
      BY <2>1, <2>2 DEF Kids
  <1>3. Cluster \ Empties(m) \subseteq S
    BY <1>1, <1>2 DEF Tree, TreeReached, Closed
  <1>4. QED
    BY <1>3 DEF Empties

(* Below something below is below it.                                      *)
LEMMA BelowBelow ==
  ASSUME NEW m \in Image, NEW c \in Cluster, NEW d \in Below(m, c)
  PROVE  d \in Cluster /\ Below(m, d) \subseteq Below(m, c)
  <1>1. Below(m, c) \in SUBSET Cluster /\ \A x \in Below(m, c) : ToSet(m[x].subs) \subseteq Below(m, c)
    BY BelowIs
  <1>2. QED
    BY <1>1, BelowIs

(* With fewer entries less is below.                                       *)
LEMMA BelowShrinks ==
  ASSUME NEW m \in Image, NEW n \in Image, NEW c \in Cluster,
         \A x \in Cluster : ToSet(n[x].subs) \subseteq ToSet(m[x].subs)
  PROVE  Below(n, c) \subseteq Below(m, c)
  <1>1. /\ Below(m, c) \in SUBSET Cluster /\ c \in Below(m, c)
        /\ \A x \in Below(m, c) : ToSet(m[x].subs) \subseteq Below(m, c)
    BY BelowIs
  <1>2. \A x \in Below(m, c) : ToSet(n[x].subs) \subseteq Below(m, c)
    BY <1>1
  <1>3. QED
    BY <1>1, <1>2, BelowIs

(* A cluster is an entry of a directory.                                   *)
Entry(m, c) == \E d \in Cluster : m[d].type = "DIRECTORY" /\ c \in ToSet(m[d].subs)

(* The cluster names lead to is an entry, or the one they start from.      *)
LEMMA WalkEntry ==
  ASSUME NEW m \in Image, Tree(m), NEW d \in Cluster, NEW names \in Seq(Name),
         m[d].type = "DIRECTORY", Walk(m, d, names) # NONE
  PROVE  /\ Walk(m, d, names) \in Below(m, d) /\ Walk(m, d, names) \in Cluster
         /\ m[Walk(m, d, names)].type \in {"DIRECTORY", "FILE"}
         /\ names = <<>> => Walk(m, d, names) = d
         /\ names # <<>> => Entry(m, Walk(m, d, names))
  <1> DEFINE c == Walk(m, d, names)
  <1>1. /\ Len(names) \in Nat /\ (Len(names) = 0 <=> names = <<>>)
    BY EmptySeq
  <1>2. /\ c \in Below(m, d) /\ (Len(names) = 0 => c = d)
        /\ Len(names) # 0 => \E p \in Below(m, d) : /\ m[p].type = "DIRECTORY"
                                                   /\ c \in ToSet(m[p].subs)
    BY <1>1, WalkIs
  <1>3. \A x \in Below(m, d) : x \in Cluster /\ m[x].type # "EMPTY"
    BY BelowInUse DEF Tree
  <1> HIDE DEF c
  <1>4. m[c].type \in {"DIRECTORY", "FILE"}
    BY <1>2, <1>3, Fields DEF Type
  <1>5. QED
    BY <1>1, <1>2, <1>3, <1>4 DEF Entry, c

(* An entry is in use, and it is not the root.                             *)
LEMMA EntryIs ==
  ASSUME NEW m \in Image, Tree(m), NEW c, Entry(m, c)
  PROVE  c \in Cluster /\ m[c].type \in {"DIRECTORY", "FILE"} /\ c # Root
  <1>1. PICK d \in Cluster : m[d].type = "DIRECTORY" /\ c \in ToSet(m[d].subs)
    BY DEF Entry
  <1>2. c \in Kids(m, d) /\ c \in Cluster
    BY <1>1, KidsType DEF Kids
  <1>3. QED
    BY <1>2, Fields DEF Tree, TreeOwned, Type

(* The names of a path that is typed.                                      *)
LEMMA PathNames ==
  ASSUME NEW p \in Path
  PROVE  /\ p.abs \in BOOLEAN /\ p.names \in Seq(Name)
         /\ ~p.abs => p.names # <<>>
  <1>1. p \in [abs : BOOLEAN, names : Names] /\ p # [abs |-> FALSE, names |-> <<>>]
    BY DEF Path
  <1>2. p.abs \in BOOLEAN /\ p.names \in Names /\ p = [abs |-> p.abs, names |-> p.names]
    BY <1>1
  <1>3. p.names \in Seq(Name)
    <2>1. MaxDepth \in Nat
      BY SizesAreNumbers
    <2>2. PICK n \in 0 .. MaxDepth : p.names \in [1 .. n -> Name]
      BY <1>2 DEF Names
    <2>3. QED
      BY <2>1, <2>2, SeqDef
  <1>4. QED
    BY <1>1, <1>2, <1>3

(* The names that are read for a path are as many.                         *)
LEMMA ReadIs ==
  ASSUME NEW p, p.names \in Seq(Name), NEW s \in Read(p)
  PROVE  /\ s \in Seq(Name) /\ Len(s) = Len(p.names)
         /\ (s = <<>>) <=> (p.names = <<>>)
         /\ ~p.abs => s = p.names
  <1>1. CASE s = p.names
    BY <1>1
  <1>2. CASE s # p.names
    <2>1. PICK i \in DOMAIN p.names, n \in Name : s = [p.names EXCEPT ![i] = n]
      BY <1>2 DEF Read
    <2>2. s \in Seq(Name) /\ Len(s) = Len(p.names)
      BY <2>1, ExceptSeq
    <2>3. p.abs
      BY <1>2 DEF Read
    <2>4. QED
      BY <2>2, <2>3, EmptySeq
  <1>3. QED
    BY <1>1, <1>2

-----------------------------------------------------------------------------
(***************************************************************************)
(* The way down to a directory, which pwd goes up again.                   *)
(***************************************************************************)

(* way goes down directories from its first cluster to d.                  *)
IsWay(m, d, way) ==
  /\ way \in Seq(Cluster) /\ way # <<>> /\ way[Len(way)] = d
  /\ \A i \in 1 .. Len(way) : m[way[i]].type = "DIRECTORY"
  /\ \A i \in 1 .. Len(way) - 1 : way[i + 1] \in ToSet(m[way[i]].subs)

Higher(m, way) ==
  IF m[Head(way)].parent = NONE THEN way ELSE <<m[Head(way)].parent>> \o way

(* A directory other than the root is an entry of its parent.              *)
LEMMA ParentIs ==
  ASSUME NEW m \in Image, Tree(m), NEW x \in Cluster, m[x].type = "DIRECTORY"
  PROVE  /\ m[x].parent = NONE <=> x = Root
         /\ x # Root => /\ m[x].parent \in Cluster /\ m[m[x].parent].type = "DIRECTORY"
                        /\ x \in ToSet(m[m[x].parent].subs)
                        /\ \A y \in Cluster : x \in Kids(m, y) => y = m[x].parent
  <1>1. CASE x = Root
    BY <1>1 DEF Tree, TreeRoot
  <1>2. CASE x # Root
    <2>1. PICK d \in Cluster : x \in Kids(m, d)
      BY <1>2 DEF Tree, TreeOwned
    <2>2. m[d].type = "DIRECTORY"
      <3>1. ASSUME m[d].type = "FILE" PROVE FALSE
        <4>1. x = m[d].next /\ x # NONE
          BY <2>1, <3>1, KidsAre
        <4>2. QED
          BY <3>1, <4>1 DEF Tree, TreeFiles
      <3>2. m[d].type # "EMPTY"
        BY <2>1, KidsAre
      <3>3. QED
        BY <3>1, <3>2, Fields DEF Type
    <2>3. x \in ToSet(m[d].subs)
      BY <2>1, <2>2, KidsAre
    <2>4. m[x].parent = d
      BY <2>2, <2>3 DEF Tree, TreeDirs
    <2>5. QED
      BY <1>2, <2>1, <2>2, <2>3, <2>4, Clusters DEF Tree, TreeOwned
  <1>3. QED
    BY <1>1, <1>2

(* One more directory on the way up.                                       *)
LEMMA HigherIs ==
  ASSUME NEW m \in Image, Tree(m), NEW d \in Cluster, NEW way, IsWay(m, d, way)
  PROVE  /\ IsWay(m, d, Higher(m, way)) /\ Head(way) \in Cluster
         /\ m[Head(way)].type = "DIRECTORY"
         /\ Head(Higher(m, way)) = IF Head(way) # Root THEN m[Head(way)].parent ELSE Head(way)
  <1>1. /\ way \in Seq(Cluster) /\ Len(way) \in Nat \ {0} /\ Head(way) = way[1]
        /\ Head(way) \in Cluster /\ m[Head(way)].type = "DIRECTORY"
    <2>1. way \in Seq(Cluster) /\ Len(way) \in Nat \ {0} /\ Head(way) = way[1]
      BY EmptySeq DEF IsWay
    <2>2. QED
      BY <2>1, ElementOfSeq DEF IsWay
  <1>2. CASE Head(way) = Root
    <2>1. Higher(m, way) = way
      BY <1>1, <1>2, ParentIs DEF Higher
    <2>2. QED
      BY <1>1, <1>2, <2>1
  <1>3. CASE Head(way) # Root
    <2> DEFINE x == m[Head(way)].parent
               up == <<x>> \o way
    <2>1. /\ x \in Cluster /\ m[x].type = "DIRECTORY" /\ Head(way) \in ToSet(m[x].subs)
          /\ m[Head(way)].parent # NONE
      BY <1>1, <1>3, ParentIs
    <2>2. Higher(m, way) = up
      BY <2>1 DEF Higher
    <2> HIDE DEF x
    <2>3. /\ up \in Seq(Cluster) /\ Len(up) = Len(way) + 1 /\ up[1] = x
          /\ \A i \in 1 .. Len(way) : up[i + 1] = way[i]
      <3>1. <<x>> \in Seq(Cluster) /\ Len(<<x>>) = 1 /\ <<x>>[1] = x
        BY <2>1
      <3>2. QED
        BY <1>1, <3>1, ConcatProperties
    <2> HIDE DEF up
    <2>4. up # <<>> /\ Head(up) = x
      BY <1>1, <2>3, EmptySeq
    <2>5. up[Len(up)] = d
      BY <1>1, <2>3 DEF IsWay
    <2>6. ASSUME NEW i \in 1 .. Len(up)
          PROVE  m[up[i]].type = "DIRECTORY"
      <3>1. CASE i = 1
        BY <2>1, <2>3, <3>1
      <3>2. CASE i # 1
        <4>1. i - 1 \in 1 .. Len(way) /\ (i - 1) + 1 = i
          BY <1>1, <2>3, <3>2
        <4>2. QED
          BY <2>3, <4>1 DEF IsWay
      <3>3. QED
        BY <3>1, <3>2
    <2>7. ASSUME NEW i \in 1 .. Len(up) - 1
          PROVE  up[i + 1] \in ToSet(m[up[i]].subs)
      <3>1. CASE i = 1
        BY <1>1, <2>1, <2>3, <3>1
      <3>2. CASE i # 1
        <4>1. i - 1 \in 1 .. Len(way) - 1 /\ (i - 1) + 1 = i /\ i \in 1 .. Len(way)
              /\ i - 1 \in 1 .. Len(way)
          BY <1>1, <2>3, <3>2
        <4>2. up[i + 1] = way[(i - 1) + 1] /\ up[i] = way[i - 1]
          BY <2>3, <4>1
        <4>3. QED
          BY <4>1, <4>2 DEF IsWay
      <3>3. QED
        BY <3>1, <3>2
    <2>8. IsWay(m, d, up)
      BY <2>3, <2>4, <2>5, <2>6, <2>7 DEF IsWay
    <2>9. QED
      BY <1>1, <1>3, <2>2, <2>4, <2>8 DEF x
  <1>4. QED
    BY <1>2, <1>3

(* Pwd holds the names on the way from the root to the working directory.  *)
LEMMA PwdIs ==
  ASSUME fs \in Image, Tree(fs), wd \in Cluster, fs[wd].type = "DIRECTORY"
  PROVE  \E way : /\ IsWay(fs, wd, way) /\ way[1] = Root
                  /\ Pwd \in Seq(Name) /\ Len(Pwd) = Len(way) - 1
                  /\ \A i \in 1 .. Len(way) - 1 : Pwd[i] = fs[way[i + 1]].name
  <1> DEFINE A == {s \in Seq(Cluster) : IsWay(fs, wd, s)}
             H == [p \in (1 .. Count) \X A |-> Higher(fs, p[2])]
             IsRun(w) == w = [n \in 0 .. Count |-> IF n = 0 THEN <<wd>>
                                                    ELSE Higher(fs, w[n - 1])]
             w == CHOOSE w : IsRun(w)
             up == w[Count]
  <1>1. Count \in Nat
    BY Clusters
  <1>2. <<wd>> \in A
    <2>1. <<wd>> \in Seq(Cluster) /\ <<wd>> # <<>> /\ Len(<<wd>>) = 1 /\ <<wd>>[1] = wd
      OBVIOUS
    <2>2. QED
      BY <2>1 DEF IsWay
  <1>3. \A s \in A : Higher(fs, s) \in A
    BY HigherIs DEF IsWay
  <1>4. PICK u : RunOf(u, H, Count, A, <<wd>>)
    <2>1. StepOn(H, Count, A)
      BY <1>3 DEF StepOn
    <2> HIDE DEF H, A
    <2>2. QED
      BY <1>1, <1>2, <2>1, Runs
  <1>5. \A n \in 1 .. Count : u[n - 1] \in A /\ u[n] = Higher(fs, u[n - 1])
    <2> SUFFICES ASSUME NEW n \in 1 .. Count
                 PROVE  u[n - 1] \in A /\ u[n] = Higher(fs, u[n - 1])
      OBVIOUS
    <2>1. u[n - 1] \in A /\ u[n] = H[<<n, u[n - 1]>>]
      <3> HIDE DEF H, A
      <3>1. QED
        BY <1>1, <1>4 DEF RunOf
    <2> HIDE DEF A
    <2>2. QED
      BY <2>1
  <1>6. u \in [0 .. Count -> A] /\ u[0] = <<wd>>
    <2> HIDE DEF H, A
    <2>1. QED
      BY <1>4 DEF RunOf
  <1> HIDE DEF A, H
  <1>7. IsRun(u)
    <2>1. \A n \in 0 .. Count : u[n] = IF n = 0 THEN <<wd>> ELSE Higher(fs, u[n - 1])
      <3> SUFFICES ASSUME NEW n \in 0 .. Count, n # 0
                   PROVE  u[n] = Higher(fs, u[n - 1])
        BY <1>6
      <3>1. n \in 1 .. Count
        BY <1>1
      <3>2. QED
        BY <1>5, <3>1
    <2>2. u = [n \in 0 .. Count |-> u[n]]
      BY <1>6
    <2>3. QED
      BY <2>1, <2>2
  <1>8. IsRun(w)
    <2> HIDE DEF IsRun
    <2>1. QED
      BY <1>7
  <1>9. Pwd = [i \in 1 .. Len(up) - 1 |-> fs[up[i + 1]].name]
    BY DEF Pwd, Higher
  <1> HIDE DEF w
  <1>10. up = u[Count]
    <2>1. w[0] = u[0]
      BY <1>1, <1>6, <1>8
    <2>2. \A n \in 1 .. Count : u[n - 1] = w[n - 1] => u[n] = w[n]
      BY <1>1, <1>5, <1>8
    <2> HIDE DEF IsRun
    <2>3. \A n \in 0 .. Count : w[n] = u[n]
      BY <1>1, <2>1, <2>2, SameRun
    <2>4. QED
      BY <1>1, <2>3
  <1> HIDE DEF up
  <1>11. IsWay(fs, wd, up)
    BY <1>1, <1>6, <1>10 DEF A
  <1>12. up \in Seq(Cluster) /\ Len(up) \in Nat \ {0} /\ Head(up) = up[1]
    BY <1>11, EmptySeq DEF IsWay
  <1>13. up[1] = Root
    <2> DEFINE h == [n \in 0 .. Count |-> Head(u[n])]
               D == {x \in Cluster : fs[x].type = "DIRECTORY" /\ x # Root}
               g == [x \in D |-> fs[x].parent]
    <2>1. \A n \in 0 .. Count : IsWay(fs, wd, u[n])
      BY <1>6 DEF A
    <2>2. /\ h \in [0 .. Count -> Cluster]
          /\ \A n \in 0 .. Count : fs[h[n]].type = "DIRECTORY"
      BY <2>1, HigherIs
    <2>3. D \in SUBSET Cluster /\ g \in [D -> Cluster]
      BY ParentIs
    <2>4. ASSUME NEW n \in 1 .. Count
          PROVE  h[n] = IF h[n - 1] \in D THEN g[h[n - 1]] ELSE h[n - 1]
      <3>1. n - 1 \in 0 .. Count /\ n \in 0 .. Count
        BY <1>1
      <3>2. /\ u[n] = Higher(fs, u[n - 1]) /\ IsWay(fs, wd, u[n - 1])
            /\ h[n] = Head(u[n]) /\ h[n - 1] = Head(u[n - 1])
        BY <1>5, <2>1, <3>1
      <3>3. /\ h[n - 1] \in Cluster /\ fs[h[n - 1]].type = "DIRECTORY"
            /\ h[n] = IF h[n - 1] # Root THEN fs[h[n - 1]].parent ELSE h[n - 1]
        BY <3>2, HigherIs
      <3> HIDE DEF h
      <3>4. QED
        BY <3>3
    <2>5. ASSUME NEW X \in SUBSET D, \A x \in X : g[x] \in X
          PROVE  X = {}
      <3> DEFINE Y == Cluster \ X
      <3>1. Root \in Y
        BY Clusters
      <3>2. ASSUME NEW y \in Y, NEW k \in Kids(fs, y), k \in X
            PROVE  FALSE
        <4>1. y = fs[k].parent
          BY <3>2, ParentIs
        <4>2. fs[k].parent \in X
          BY <2>5, <3>2
        <4>3. QED
          BY <4>1, <4>2
      <3>3. Closed(fs, Y)
        BY <3>2, KidsType DEF Closed
      <3>4. Cluster \ Empties(fs) \subseteq Y
        BY <3>1, <3>3 DEF Tree, TreeReached
      <3>5. QED
        BY <3>4 DEF Empties
    <2>6. h[Count] \notin D
      <3>1. IsFiniteSet(Cluster) /\ Cardinality(Cluster) <= Count
        BY <1>1, Clusters
      <3> HIDE DEF h, D, g
      <3>2. QED
        BY <1>1, <2>2, <2>3, <2>4, <2>5, <3>1, WalkEnds
    <2>7. h[Count] = up[1] /\ h[Count] \in Cluster /\ fs[h[Count]].type = "DIRECTORY"
      BY <1>1, <1>10, <1>12, <2>2
    <2>8. QED
      BY <2>6, <2>7
  <1>14. /\ Pwd \in Seq(Name) /\ Len(Pwd) = Len(up) - 1
         /\ \A i \in 1 .. Len(up) - 1 : Pwd[i] = fs[up[i + 1]].name
    <2>1. \A i \in 1 .. Len(up) - 1 : fs[up[i + 1]].name \in Name
      <3> SUFFICES ASSUME NEW i \in 1 .. Len(up) - 1
                   PROVE  fs[up[i + 1]].name \in Name
        OBVIOUS
      <3>1. i \in 1 .. Len(up)
        BY <1>12
      <3>2. fs[up[i]].type = "DIRECTORY" /\ up[i + 1] \in ToSet(fs[up[i]].subs) /\ up[i] \in Cluster
        BY <1>11, <1>12, <3>1, ElementOfSeq DEF IsWay
      <3>3. QED
        BY <3>2 DEF Tree, TreeDirs
    <2>2. Len(up) - 1 \in Nat
      BY <1>12
    <2>3. Pwd \in [1 .. Len(up) - 1 -> Name]
      BY <1>9, <2>1
    <2>4. Pwd \in Seq(Name) /\ Len(Pwd) = Len(up) - 1
      BY <2>2, <2>3
    <2>5. QED
      BY <1>9, <2>4
  <1>15. QED
    BY <1>11, <1>13, <1>14

(* The names but the last, and the last one.                               *)
LEMMA FrontIs ==
  ASSUME NEW s \in Seq(Name), s # <<>>
  PROVE  Front(s) \in Seq(Name) /\ Len(Front(s)) = Len(s) - 1 /\ Last(s) \in Name
         /\ Last(s) = s[Len(s)] /\ \A i \in 1 .. Len(s) - 1 : Front(s)[i] = s[i]
  <1>1. Len(s) \in Nat \ {0}
    BY EmptySeq
  <1>2. Front(s) \in Seq(Name) /\ Len(Front(s)) = Len(s) - 1
        /\ \A i \in 1 .. Len(s) - 1 : Front(s)[i] = s[i]
    BY <1>1, SubSeqProperties DEF Front
  <1>3. QED
    BY <1>1, <1>2, ElementOfSeq DEF Last

(* The place for a new cluster: a cluster in use and an empty one.         *)
LEMMA PlacesAre ==
  ASSUME fs \in Image, Tree(fs), NEW d \in Cluster, fs[d].type = "DIRECTORY",
         NEW s \in Seq(Name), NEW place \in Places(d, s)
  PROVE  /\ s # <<>> /\ Last(s) \in Name
         /\ place[1] \in Cluster /\ fs[place[1]].type \in {"DIRECTORY", "FILE"}
         /\ place[2] \in Cluster /\ fs[place[2]].type = "EMPTY"
  <1> DEFINE parent == Walk(fs, d, Front(s))
  <1>1. s # <<>>
    BY DEF Places
  <1>2. parent # NONE /\ place \in {parent} \X FreeCluster(fs)
    BY <1>1 DEF Places
  <1>3. Front(s) \in Seq(Name) /\ Last(s) \in Name
    BY <1>1, FrontIs
  <1>4. parent \in Cluster /\ fs[parent].type \in {"DIRECTORY", "FILE"}
    BY <1>2, <1>3, WalkEntry
  <1> HIDE DEF parent
  <1>5. QED
    BY <1>1, <1>2, <1>3, <1>4 DEF FreeCluster, Empties

(* The absolute path.                                                      *)
LEMMA AbsoluteIs ==
  ASSUME fs \in Image, Tree(fs), wd \in Cluster, fs[wd].type = "DIRECTORY",
         NEW p \in Path
  PROVE  /\ Absolute(p) \in [abs : {TRUE}, names : Seq(Name)]
         /\ p.abs => Absolute(p) = p
         /\ ~p.abs => Absolute(p).names = Pwd \o p.names
         /\ p.names # <<>> => Absolute(p).names # <<>>
  <1>1. p.abs \in BOOLEAN /\ p.names \in Seq(Name) /\ Pwd \in Seq(Name)
    BY PathNames, PwdIs
  <1>2. CASE p.abs
    <2>1. Absolute(p) = p
      BY <1>2 DEF Absolute
    <2>2. p \in [abs : BOOLEAN, names : Names]
      BY DEF Path
    <2>3. QED
      BY <1>1, <1>2, <2>1, <2>2
  <1>3. CASE ~p.abs
    <2>1. Absolute(p) = [abs |-> TRUE, names |-> Pwd \o p.names]
      BY <1>3 DEF Absolute
    <2>2. /\ Pwd \o p.names \in Seq(Name)
          /\ p.names # <<>> => Pwd \o p.names # <<>>
      BY <1>1, ConcatProperties, ConcatEqualIffEmpty
    <2>3. QED
      BY <1>3, <2>1, <2>2
  <1>4. QED
    BY <1>1, <1>2, <1>3

(* mv and cp put what they name into a cluster in use.                     *)
LEMMA ParentsAre ==
  ASSUME fs \in Image, Tree(fs),
         NEW q \in [abs : BOOLEAN, names : Seq(Name)], q.names # <<>>,
         NEW d \in Parents(q)
  PROVE  d \in Below(fs, Root) /\ d \in Cluster /\ fs[d].type \in {"DIRECTORY", "FILE"}
  <1> DEFINE f == [q EXCEPT !.names = Front(@)]
             named == {Walk(fs, Root, r) : r \in Read(f)} \ {NONE}
  <1>1. f.names \in Seq(Name)
    BY FrontIs
  <1>2. fs[Root].type = "DIRECTORY" /\ Root \in Cluster
    BY Clusters DEF Tree, TreeRoot
  <1>3. ASSUME NEW r \in Read(f), Walk(fs, Root, r) # NONE
        PROVE  Walk(fs, Root, r) \in Below(fs, Root) /\ Walk(fs, Root, r) \in Cluster
    <2>1. r \in Seq(Name)
      BY <1>1, ReadIs
    <2>2. QED
      BY <1>2, <1>3, <2>1, WalkEntry
  <1>4. named \subseteq Below(fs, Root) \cap Cluster
    BY <1>3
  <1>5. d \in named \/ \E x \in named : d \in Below(fs, x)
    BY DEF Parents
  <1> HIDE DEF named
  <1>6. d \in Below(fs, Root)
    BY <1>2, <1>4, <1>5, BelowBelow
  <1>7. \A x \in Below(fs, Root) : x \in Cluster /\ fs[x].type # "EMPTY"
    BY <1>2, BelowInUse DEF Tree
  <1>8. QED
    BY <1>6, <1>7, Fields DEF Type

-----------------------------------------------------------------------------
(***************************************************************************)
(* The inductive invariant.                                                *)
(***************************************************************************)

(* What the command j relies on in the clusters m: the cluster it works    *)
(* on is an entry yet to be removed, not above the working directory d, or *)
(* the last block of the file it writes.                                   *)
Fits(m, d, j) ==
  /\ m[d].type = "DIRECTORY" /\ j.start \in {Root, d}
  /\ j.op \in {"create", "part"} => j.src \in Host
  /\ j.op = "rm" => Entry(m, j.at) /\ d \notin Below(m, j.at)
  /\ j.op \in {"part", "copy"} => m[j.at].type = "FILE" /\ m[j.at].next = NONE
  /\ j.op = "part" => m[j.at].data[2] * BlockSize <= Size[j.src]

(* From position k on the writes w put nothing into c but what m has.      *)
Agrees(w, m, c, k) == \A i \in k .. Len(w) : w[i][1] = c => w[i][2] = m[c]

(* After the writes w the image file holds c as m has it.                  *)
Settled(w, m, c) ==
  \E i \in 1 .. Len(w) : w[i] = <<c, m[c]>> /\ Agrees(w, m, c, i)

(* The writes that are left bring the image file to what memory holds; the *)
(* block load is about to link is written with its link.                   *)
DiskOK ==
  /\ job = NoJob => writes = <<>>
  /\ \A c \in Cluster : \/ Settled(writes, fs, c)
                        \/ disk[c] = fs[c] /\ Agrees(writes, fs, c, 1)
                        \/ job.op = "part" /\ c = job.at

(* After a start from an image file that a kill left half written (torn)   *)
(* nothing is claimed but the types.                                       *)
IInv ==
  /\ TypeOK
  /\ process # "torn" => Tree(fs) /\ Fits(fs, wd, job)
  /\ process = "running" => DiskOK

(* The variables in the invariant.                                         *)
LEMMA Types ==
  ASSUME TypeOK
  PROVE  /\ fs \in Image /\ disk \in Image /\ saved \in Image /\ wd \in Cluster
         /\ job \in Job /\ writes \in Seq(Cluster \X Contents)
  BY DEF TypeOK, Image

(* The fields of no command.                                               *)
LEMMA NoJobIs ==
  /\ NoJob \in [op : {"none"}, at : {Root}, from : {Root}, start : {Root}, path : {<<>>},
                src : {NoHost}, asTyped : {TRUE}, over : {NONE}, touched : {{}}]
  /\ NoJob \in Job
  <1>1. NoJob \in [op : {"none"}, at : {Root}, from : {Root}, start : {Root}, path : {<<>>},
                   src : {NoHost}, asTyped : {TRUE}, over : {NONE}, touched : {{}}]
    BY DEF NoJob
  <1>2. Root \in Cluster /\ <<>> \in Seq(Name)
    BY Clusters
  <1>3. QED
    BY <1>1, <1>2 DEF Job

(* flush_cluster for a list of clusters.                                   *)
LEMMA WrittenIs ==
  ASSUME NEW m \in Image, NEW cs \in Seq(Cluster)
  PROVE  /\ Written(m, cs) \in Seq(Cluster \X Contents) /\ Len(Written(m, cs)) = Len(cs)
         /\ \A i \in 1 .. Len(cs) : Written(m, cs)[i] = <<cs[i], m[cs[i]]>>
         /\ \A c \in ToSet(cs) : Settled(Written(m, cs), m, c)
         /\ \A c \in Cluster : Agrees(Written(m, cs), m, c, 1)
         /\ \A i \in 1 .. Len(cs) : Written(m, cs)[i][1] \in ToSet(cs)
  <1> DEFINE w == Written(m, cs)
  <1>1. /\ Len(cs) \in Nat /\ DOMAIN cs = 1 .. Len(cs)
        /\ \A i \in 1 .. Len(cs) : cs[i] \in Cluster /\ m[cs[i]] \in Contents
    BY DEF Image
  <1>2. w = [i \in 1 .. Len(cs) |-> <<cs[i], m[cs[i]]>>]
    BY <1>1 DEF Written
  <1>3. /\ w \in Seq(Cluster \X Contents) /\ Len(w) = Len(cs)
        /\ \A i \in 1 .. Len(cs) : w[i] = <<cs[i], m[cs[i]]>>
    BY <1>1, <1>2
  <1> HIDE DEF w
  <1>5. \A c \in Cluster : Agrees(w, m, c, 1)
    BY <1>1, <1>3 DEF Agrees
  <1>6. ASSUME NEW c \in ToSet(cs)
        PROVE  Settled(w, m, c)
    <2>1. PICK i \in 1 .. Len(cs) : cs[i] = c
      BY Elements
    <2>2. Agrees(w, m, c, i)
      BY <1>1, <1>3 DEF Agrees
    <2>3. QED
      BY <1>3, <2>1, <2>2 DEF Settled
  <1>7. \A i \in 1 .. Len(cs) : w[i][1] \in ToSet(cs)
    BY <1>3, Elements
  <1>8. QED
    BY <1>3, <1>5, <1>6, <1>7 DEF w

(* What a change of memory to m with the writes w and the command j must   *)
(* bring with it.                                                          *)
Good(m, w, j) ==
  /\ m \in Image /\ Tree(m) /\ w \in Seq(Cluster \X Contents) /\ j \in Job /\ j # NoJob
  /\ Fits(m, wd, j)
  /\ \A c \in Cluster : \/ Settled(w, m, c)
                        \/ /\ m[c] = fs[c] /\ Agrees(w, m, c, 1)
                           /\ ~(job.op = "part" /\ c = job.at)
                        \/ j.op = "part" /\ c = j.at

(* It keeps the invariant.                                                 *)
LEMMA DoKeeps ==
  ASSUME IInv, process = "running", writes = <<>>, typed' \in 0 .. MaxTyped,
         NEW m, NEW w, NEW j, Good(m, w, j), Do(m, w, j)
  PROVE  IInv'
  <1>1. /\ fs' = m /\ writes' = w /\ job' = j
        /\ UNCHANGED <<wd, disk, saved, cut, process>>
    BY DEF Do
  <1>2. TypeOK'
    BY <1>1 DEF IInv, TypeOK, Good, Image
  <1>3. (process # "torn" => Tree(fs) /\ Fits(fs, wd, job))'
    <2>1. Tree(m) /\ Fits(m, wd, j)
      BY DEF Good
    <2>2. QED
      BY <1>1, <2>1 DEF Fits
  <1>4. DiskOK'
    <2>1. \A c \in Cluster : disk[c] = fs[c] \/ (job.op = "part" /\ c = job.at)
      <3>1. \A c \in Cluster : ~Settled(writes, fs, c)
        BY DEF Settled
      <3>2. QED
        BY <3>1 DEF IInv, DiskOK
    <2>2. j # NoJob
      BY DEF Good
    <2> SUFFICES ASSUME NEW c \in Cluster
                 PROVE  \/ Settled(w, m, c)
                        \/ disk[c] = m[c] /\ Agrees(w, m, c, 1)
                        \/ j.op = "part" /\ c = j.at
      BY <1>1, <2>2 DEF DiskOK, Settled, Agrees, NoJob
    <2>3. QED
      BY <2>1 DEF Good
  <1>5. QED
    BY <1>2, <1>3, <1>4 DEF IInv

(* A process that stops keeps it.                                          *)
LEMMA StopKeeps ==
  ASSUME IInv, process = "running", typed' \in 0 .. MaxTyped,
         NEW why \in {"failed", "hung", "removed", "cycle", "intoFile"},
         NEW asTyped \in BOOLEAN, Stop(why, asTyped)
  PROVE  IInv'
  <1>1. /\ process' = why /\ job' = [job EXCEPT !.asTyped = asTyped]
        /\ UNCHANGED <<fs, wd, disk, writes, saved, cut>>
    BY DEF Stop
  <1>2. /\ job' \in Job /\ job'.op = job.op /\ job'.at = job.at /\ job'.src = job.src
        /\ job'.start = job.start
    BY <1>1 DEF IInv, TypeOK, Job
  <1>3. TypeOK'
    BY <1>1, <1>2 DEF IInv, TypeOK
  <1>4. (Tree(fs) /\ Fits(fs, wd, job))'
    BY <1>1, <1>2 DEF IInv, Fits
  <1>5. QED
    BY <1>1, <1>3, <1>4 DEF IInv

(* Writes that follow others.                                              *)
LEMMA MoreWrites ==
  ASSUME NEW v \in Seq(Cluster \X Contents), NEW w \in Seq(Cluster \X Contents),
         NEW m, NEW c
  PROVE  /\ v \o w \in Seq(Cluster \X Contents)
         /\ Agrees(v, m, c, 1) /\ Agrees(w, m, c, 1) => Agrees(v \o w, m, c, 1)
         /\ Settled(v, m, c) /\ Agrees(w, m, c, 1) => Settled(v \o w, m, c)
         /\ Settled(w, m, c) => Settled(v \o w, m, c)
  <1> DEFINE u == v \o w
  <1>1. /\ u \in Seq(Cluster \X Contents) /\ Len(u) = Len(v) + Len(w)
        /\ \A i \in 1 .. Len(v) : u[i] = v[i]
        /\ \A i \in 1 .. Len(w) : u[Len(v) + i] = w[i]
        /\ Len(v) \in Nat /\ Len(w) \in Nat
    BY ConcatProperties
  <1> HIDE DEF u
  <1>2. ASSUME NEW i \in 1 .. Len(u), i > Len(v)
        PROVE  i - Len(v) \in 1 .. Len(w) /\ u[i] = w[i - Len(v)]
    <2>1. i - Len(v) \in 1 .. Len(w) /\ Len(v) + (i - Len(v)) = i
      BY <1>1, <1>2
    <2>2. QED
      BY <1>1, <2>1
  <1>3. ASSUME NEW k \in 1 .. Len(v) + 1, Agrees(v, m, c, k), Agrees(w, m, c, 1)
        PROVE  Agrees(u, m, c, k)
    <2> SUFFICES ASSUME NEW i \in k .. Len(u), u[i][1] = c PROVE u[i][2] = m[c]
      BY DEF Agrees
    <2>1. CASE i <= Len(v)
      <3>1. i \in k .. Len(v) /\ i \in 1 .. Len(v)
        BY <1>1, <2>1
      <3>2. QED
        BY <1>1, <1>3, <3>1 DEF Agrees
    <2>2. CASE i > Len(v)
      <3>1. i \in 1 .. Len(u)
        BY <1>1
      <3>2. QED
        BY <1>2, <1>3, <2>2, <3>1 DEF Agrees
    <2>3. QED
      BY <1>1, <2>1, <2>2
  <1>4. ASSUME Agrees(v, m, c, 1), Agrees(w, m, c, 1)
        PROVE  Agrees(u, m, c, 1)
    BY <1>1, <1>3, <1>4
  <1>5. ASSUME Settled(v, m, c), Agrees(w, m, c, 1)
        PROVE  Settled(u, m, c)
    <2>1. PICK i \in 1 .. Len(v) : v[i] = <<c, m[c]>> /\ Agrees(v, m, c, i)
      BY <1>5 DEF Settled
    <2>2. i \in 1 .. Len(u) /\ u[i] = <<c, m[c]>> /\ i \in 1 .. Len(v) + 1
      BY <1>1, <2>1
    <2>3. Agrees(u, m, c, i)
      BY <1>3, <1>5, <2>1, <2>2
    <2>4. QED
      BY <2>2, <2>3 DEF Settled
  <1>6. ASSUME Settled(w, m, c)
        PROVE  Settled(u, m, c)
    <2>1. PICK i \in 1 .. Len(w) : w[i] = <<c, m[c]>> /\ Agrees(w, m, c, i)
      BY <1>6 DEF Settled
    <2>2. Len(v) + i \in 1 .. Len(u) /\ u[Len(v) + i] = <<c, m[c]>>
      BY <1>1, <2>1
    <2>3. Agrees(u, m, c, Len(v) + i)
      <3> SUFFICES ASSUME NEW k \in Len(v) + i .. Len(u), u[k][1] = c PROVE u[k][2] = m[c]
        BY DEF Agrees
      <3>1. k \in 1 .. Len(u) /\ k > Len(v) /\ k - Len(v) \in i .. Len(w)
        BY <1>1
      <3>2. QED
        BY <1>2, <2>1, <3>1 DEF Agrees
    <2>4. QED
      BY <2>2, <2>3 DEF Settled
  <1>7. QED
    BY <1>1, <1>4, <1>5, <1>6 DEF u

(* What matters is what the cluster holds.                                 *)
LEMMA SameWrites ==
  ASSUME NEW w, NEW m, NEW n, NEW c, n[c] = m[c]
  PROVE  /\ Settled(w, m, c) => Settled(w, n, c)
         /\ Agrees(w, m, c, 1) => Agrees(w, n, c, 1)
  <1>1. \A k : Agrees(w, m, c, k) => Agrees(w, n, c, k)
    BY DEF Agrees
  <1>2. QED
    BY <1>1 DEF Settled

(* The cluster a command starts from is a directory.                       *)
LEMMA StartIs ==
  ASSUME IInv, process # "torn", NEW p \in Path
  PROVE  /\ Start(p) \in Cluster /\ fs[Start(p)].type = "DIRECTORY"
         /\ Start(p) \in {Root, wd}
  BY Clusters, Types DEF IInv, Start, Fits, Tree, TreeRoot

(* Between two commands nothing is left to write.                          *)
LEMMA ReadyIs ==
  ASSUME IInv, Ready
  PROVE  /\ process = "running" /\ job = NoJob /\ writes = <<>> /\ job.op = "none"
         /\ job.start = Root
  BY NoJobIs DEF IInv, Ready, DiskOK

(* The command that has only its writes left.                              *)
LEMMA FlushingIs ==
  ASSUME TypeOK
  PROVE  /\ Flushing \in Job /\ Flushing.op = "flush" /\ Flushing.start = Root
         /\ Flushing # NoJob
  <1>1. job.touched \in SUBSET Cluster
    BY DEF TypeOK, Job
  <1>2. QED
    BY <1>1, NoJobIs DEF Flushing, Job

(* A new leaf c of directory d, made in base, listed, and completed in n.  *)
LEMMA LeafMade ==
  ASSUME NEW m \in Image, Tree(m), NEW d \in Cluster, m[d].type = "DIRECTORY",
         NEW c \in Cluster, m[c].type = "EMPTY",
         NEW base \in Image, \A x \in Cluster \ {c} : base[x] = m[x],
         base[c].name \in Name, base[c].subs = <<>>,
         NEW n \in Image, \A x \in Cluster \ {c} : n[x] = Listed(base, d, c)[x],
         n[c].type \in {"DIRECTORY", "FILE"}, n[c].parent = d, n[c].name \in Name,
         n[c].subs = <<>>, n[c].type = "DIRECTORY" => n[c].used = 0,
         n[c].type = "FILE" => n[c].next = NONE
  PROVE  /\ Tree(n) /\ c # d /\ n[d].type = "DIRECTORY"
         /\ \A x \in Cluster \ {c, d} : n[x] = m[x]
  <1> DEFINE made == Listed(base, d, c)
  <1>1. c # d /\ base[d].type = "DIRECTORY" /\ base[d] = m[d]
    OBVIOUS
  <1>2. /\ \A x \in Cluster \ {c, d} : made[x] = base[x]
        /\ made[d].type = "DIRECTORY" /\ made[d].parent = base[d].parent
        /\ made[d].name = base[d].name
        /\ made[d].used = base[d].used + 1 /\ made[d].subs = Append(base[d].subs, c)
    BY <1>1, ListedIs
  <1> HIDE DEF made
  <1>3. /\ \A x \in Cluster \ {c, d} : n[x] = m[x]
        /\ n[d].type = "DIRECTORY" /\ n[d].parent = m[d].parent /\ n[d].name = m[d].name
        /\ n[d].used = m[d].used + 1 /\ n[d].subs = Append(m[d].subs, c)
    BY <1>1, <1>2 DEF made
  <1>4. Tree(n)
    BY <1>3, LeafAdded
  <1>5. QED
    BY <1>1, <1>3, <1>4

(* create_cluster: the new cluster c gets its name and its parent.         *)
LEMMA MadeIs ==
  ASSUME NEW m \in Image, NEW d \in Cluster, m[d].type = "DIRECTORY",
         NEW c \in Cluster, m[c].type = "EMPTY", NEW name \in Name
  PROVE  LET base == [m EXCEPT ![c].name = name]
             made == Listed(base, d, c)
         IN  /\ base \in Image /\ \A x \in Cluster \ {c} : base[x] = m[x]
             /\ base[c].name \in Name /\ base[c].subs = <<>> /\ c # d
             /\ made \in Image /\ made[c].name \in Name /\ made[c].parent = d
             /\ made[c].subs = <<>>
  <1> DEFINE base == [m EXCEPT ![c].name = name]
             made == Listed(base, d, c)
             r == [m[c] EXCEPT !.name = name]
  <1>1. r \in Contents /\ r.name = name /\ r.subs = <<>>
    <2>1. m[c] \in Contents /\ m[c].subs = <<>>
      BY Fields DEF Image
    <2>2. QED
      BY <2>1 DEF Contents
  <1>2. base = [m EXCEPT ![c] = r]
    BY DEF Image
  <1> HIDE DEF r, base
  <1>3. base \in Image /\ base[c] = r /\ \A x \in Cluster \ {c} : base[x] = m[x]
    BY <1>1, <1>2 DEF Image
  <1>4. c # d /\ base[d].type = "DIRECTORY"
    BY <1>3
  <1>5. /\ made \in Image /\ made[c].name = base[c].name /\ made[c].parent = d
        /\ made[c].subs = base[c].subs
    BY <1>3, <1>4, ListedIs
  <1> HIDE DEF made
  <1>6. QED
    BY <1>1, <1>3, <1>4, <1>5 DEF made, base

(* The writes of a new cluster c and its directory d, and once more c.     *)
LEMMA BegunIs ==
  ASSUME NEW c \in Cluster, NEW d \in Cluster, c # d,
         NEW made \in Image, NEW done \in Image, \A x \in Cluster \ {c} : done[x] = made[x]
  PROVE  LET v == Written(made, <<c, d>>)
             w == v \o Written(done, <<c>>)
         IN  /\ v \in Seq(Cluster \X Contents) /\ w \in Seq(Cluster \X Contents)
             /\ Settled(v, done, d) /\ \A x \in Cluster \ {c} : Agrees(v, done, x, 1)
             /\ Settled(w, done, c) /\ Settled(w, done, d)
             /\ \A x \in Cluster \ {c} : Agrees(w, done, x, 1)
  <1> DEFINE v == Written(made, <<c, d>>)
             u == Written(done, <<c>>)
  <1>1. /\ <<c, d>> \in Seq(Cluster) /\ <<c>> \in Seq(Cluster)
        /\ ToSet(<<c, d>>) = {c, d} /\ ToSet(<<c>>) = {c}
    BY DEF ToSet
  <1>2. /\ v \in Seq(Cluster \X Contents) /\ u \in Seq(Cluster \X Contents)
        /\ Settled(v, made, d) /\ Settled(u, done, c)
        /\ \A x \in Cluster : Agrees(v, made, x, 1) /\ Agrees(u, done, x, 1)
    BY <1>1, WrittenIs
  <1> HIDE DEF v, u
  <1>3. Settled(v, done, d) /\ \A x \in Cluster \ {c} : Agrees(v, done, x, 1)
    BY <1>2, SameWrites
  <1>4. /\ v \o u \in Seq(Cluster \X Contents)
        /\ Settled(v \o u, done, c) /\ Settled(v \o u, done, d)
        /\ \A x \in Cluster \ {c} : Agrees(v \o u, done, x, 1)
    BY <1>2, <1>3, MoreWrites
  <1>5. QED
    BY <1>2, <1>3, <1>4 DEF v, u

-----------------------------------------------------------------------------
(***************************************************************************)
(* The steps.                                                              *)
(***************************************************************************)

(* The start: a root directory and nothing else.                           *)
LEMMA InitKeeps ==
  ASSUME Init PROVE IInv
  <1> DEFINE r == [Blank EXCEPT !.type = "DIRECTORY", !.parent = NONE, !.name = "/"]
  <1>2. Root \in Cluster
    BY Clusters
  <1>4. /\ r \in Contents
        /\ r.type = "DIRECTORY" /\ r.parent = NONE /\ r.used = 0 /\ r.subs = <<>>
    BY BlankIs DEF Contents, Type
  <1> HIDE DEF r
  <1>6. fs = [[c \in Cluster |-> Blank] EXCEPT ![Root] = r]
    BY <1>2 DEF Init, r
  <1>7. fs \in Image /\ fs[Root] = r /\ \A c \in Cluster \ {Root} : fs[c] = Blank
    BY <1>2, <1>4, <1>6, BlankIs DEF Image
  <1>8. Tree(fs)
    <2>1. \A c \in Cluster : fs[c].subs = <<>> /\ (c # Root => fs[c].type = "EMPTY")
      BY <1>4, <1>7, BlankIs
    <2>2. \A c \in Cluster : Kids(fs, c) = {}
      BY <1>4, <1>7, <2>1, KidsAre, NoElements
    <2>3. ToSet(<<>>) = {} /\ IsInjective(<<>>) /\ Len(<<>>) = 0
      BY NoElements DEF IsInjective
    <2>4. TreeRoot(fs) /\ TreeDirs(fs) /\ TreeFiles(fs)
      BY <1>4, <1>7, <2>1, <2>3 DEF TreeRoot, TreeDirs, TreeFiles
    <2>5. TreeOwned(fs) /\ TreeReached(fs)
      BY <2>1, <2>2 DEF TreeOwned, TreeReached, Empties
    <2>6. QED
      BY <2>4, <2>5 DEF Tree
  <1>9. /\ wd = Root /\ disk = fs /\ writes = <<>> /\ job = NoJob /\ saved = disk
        /\ cut = "no" /\ typed = 0 /\ process = "running"
    BY DEF Init
  <1>10. TypeOK
    <2>1. <<>> \in Seq(Cluster \X Contents)
      OBVIOUS
    <2>2. QED
      BY <1>2, <1>7, <1>9, <2>1, NoJobIs, SizesAreNumbers DEF TypeOK, Image
  <1>11. Fits(fs, wd, job)
    BY <1>4, <1>7, <1>9, NoJobIs DEF Fits
  <1>12. DiskOK
    BY <1>9 DEF DiskOK, Agrees
  <1>13. QED
    BY <1>8, <1>10, <1>11, <1>12 DEF IInv

(* zox_fs_cd goes to a directory.                                          *)
LEMMA CdKeeps ==
  ASSUME IInv, Cd PROVE IInv'
  <1>1. /\ Ready /\ UNCHANGED <<fs, disk, writes, job, saved, cut, typed, process>>
    BY DEF Cd
  <1>2. /\ process = "running" /\ fs \in Image /\ Tree(fs) /\ wd \in Cluster
        /\ fs[wd].type = "DIRECTORY" /\ job = NoJob
    BY <1>1, Types, ReadyIs DEF IInv, Fits
  <1>3. wd' \in Cluster /\ fs[wd'].type = "DIRECTORY"
    <2>1. CASE fs[wd].parent # NONE /\ wd' = fs[wd].parent
      BY <1>2, <2>1, ParentIs
    <2>2. CASE \E p \in Path : \E s \in Read(p) : \E d \in Cluster :
                 d = Walk(fs, Start(p), s) /\ fs[d].type = "DIRECTORY" /\ wd' = d
      BY <2>2
    <2>3. QED
      BY <2>1, <2>2 DEF Cd
  <1>4. TypeOK'
    BY <1>1, <1>3 DEF IInv, TypeOK
  <1>5. (Tree(fs) /\ Fits(fs, wd, job))'
    BY <1>1, <1>2, <1>3, NoJobIs DEF Fits
  <1>6. DiskOK'
    BY <1>1, <1>2 DEF IInv, DiskOK
  <1>7. QED
    BY <1>1, <1>4, <1>5, <1>6 DEF IInv

(* The bound on the commands.                                              *)
LEMMA TypedIs ==
  ASSUME TypeOK, typed' = typed \/ (typed < MaxTyped /\ typed' = typed + 1)
  PROVE  typed' \in 0 .. MaxTyped
  BY SizesAreNumbers DEF TypeOK

(* zox_fs_mkdir makes a leaf of the tree and writes what it changed.       *)
LEMMA MkdirKeeps ==
  ASSUME IInv, Mkdir PROVE IInv'
  <1>1. Ready /\ typed' \in 0 .. MaxTyped
    BY TypedIs DEF Mkdir, Typed, IInv
  <1>2. /\ process = "running" /\ fs \in Image /\ Tree(fs) /\ wd \in Cluster
        /\ fs[wd].type = "DIRECTORY" /\ job.op = "none" /\ writes = <<>> /\ TypeOK
    BY <1>1, Types, ReadyIs DEF IInv, Fits
  <1> DEFINE Into(s, place) ==
               LET d == place[1]
                   c == place[2]
                   made == Listed([fs EXCEPT ![c].name = Last(s)], d, c)
                   done == [made EXCEPT ![c].type = "DIRECTORY", ![c].used = 0]
               IN  IF fs[d].type = "FILE" THEN Stop("intoFile", TRUE)
                   ELSE Do(done, Written(made, <<c, d>>) \o Written(done, <<c>>), Flushing)
             From(p, s) == \/ s = <<>> /\ Stop("failed", TRUE)
                           \/ \E place \in Places(Start(p), s) : Into(s, place)
  <1>3. PICK p \in Path : \E s \in Read(p) : From(p, s)
    BY DEF Mkdir
  <1>4. PICK s \in Read(p) : From(p, s)
    BY <1>3
  <1>5. CASE s = <<>> /\ Stop("failed", TRUE)
    BY <1>1, <1>2, <1>5, StopKeeps
  <1>6. ASSUME NEW place \in Places(Start(p), s), Into(s, place)
        PROVE  IInv'
    <2> DEFINE d == place[1]
               c == place[2]
               name == Last(s)
               base == [fs EXCEPT ![c].name = name]
               made == Listed(base, d, c)
               done == [made EXCEPT ![c].type = "DIRECTORY", ![c].used = 0]
               w == Written(made, <<c, d>>) \o Written(done, <<c>>)
    <2>1. /\ name \in Name /\ d \in Cluster /\ fs[d].type \in {"DIRECTORY", "FILE"}
          /\ c \in Cluster /\ fs[c].type = "EMPTY"
      <3>1. s \in Seq(Name) /\ Start(p) \in Cluster /\ fs[Start(p)].type = "DIRECTORY"
        BY <1>2, PathNames, ReadIs, StartIs
      <3>2. QED
        BY <1>2, <3>1, PlacesAre
    <2>2. CASE fs[d].type = "FILE"
      <3>1. Stop("intoFile", TRUE)
        BY <1>6, <2>2
      <3>2. QED
        BY <1>1, <1>2, <3>1, StopKeeps
    <2>3. CASE fs[d].type = "DIRECTORY"
      <3>1. Do(done, w, Flushing)
        BY <1>6, <2>3
      <3> HIDE DEF c, d, name, w
      <3>2. /\ base \in Image /\ \A x \in Cluster \ {c} : base[x] = fs[x]
            /\ base[c].name \in Name /\ base[c].subs = <<>> /\ c # d
            /\ made \in Image /\ made[c].name \in Name /\ made[c].parent = d
            /\ made[c].subs = <<>>
        BY <1>2, <2>1, <2>3, MadeIs
      <3> HIDE DEF base
      <3> HIDE DEF made
      <3>4. /\ done \in Image /\ \A x \in Cluster \ {c} : done[x] = made[x]
            /\ done[c].type = "DIRECTORY" /\ done[c].parent = d /\ done[c].name \in Name
            /\ done[c].subs = <<>> /\ done[c].used = 0
        <4> DEFINE r == [made[c] EXCEPT !.type = "DIRECTORY", !.used = 0]
        <4>1. /\ r \in Contents /\ r.type = "DIRECTORY" /\ r.parent = made[c].parent
              /\ r.name = made[c].name /\ r.subs = made[c].subs /\ r.used = 0
          BY <2>1, <3>2 DEF Image, Contents, Type
        <4>2. done = [made EXCEPT ![c] = r]
          BY <2>1, <3>2 DEF Image
        <4> HIDE DEF r, done
        <4>3. done \in Image /\ done[c] = r /\ \A x \in Cluster \ {c} : done[x] = made[x]
          BY <2>1, <3>2, <4>1, <4>2 DEF Image
        <4>4. QED
          BY <3>2, <4>1, <4>3
      <3> HIDE DEF done
      <3>5. /\ Tree(done) /\ done[d].type = "DIRECTORY"
            /\ \A x \in Cluster \ {c, d} : done[x] = fs[x]
        BY <1>2, <2>1, <2>3, <3>2, <3>4, LeafMade DEF made
      <3>6. Flushing \in Job /\ Flushing # NoJob /\ Fits(done, wd, Flushing)
        <4>1. done[wd].type = "DIRECTORY"
          BY <1>2, <2>1, <3>4, <3>5
        <4>2. QED
          BY <1>2, <4>1, FlushingIs DEF Fits
      <3>7. /\ w \in Seq(Cluster \X Contents)
            /\ Settled(w, done, c) /\ Settled(w, done, d)
            /\ \A x \in Cluster \ {c} : Agrees(w, done, x, 1)
        BY <2>1, <3>2, <3>4, BegunIs DEF w
      <3>8. Good(done, w, Flushing)
        BY <1>2, <3>4, <3>5, <3>6, <3>7 DEF Good
      <3>9. QED
        BY <1>1, <1>2, <3>1, <3>8, DoKeeps
    <2>4. QED
      BY <2>1, <2>2, <2>3
  <1>7. QED
    BY <1>4, <1>5, <1>6

(* What is below something and the blocks of its files are clusters.       *)
LEMMA HoldingsType ==
  ASSUME NEW m \in Image, NEW c \in Cluster
  PROVE  Holdings(m, c) \in SUBSET Cluster
  <1>1. Below(m, c) \in SUBSET Cluster
    BY BelowIs
  <1>2. \A x \in Cluster : ToSet(Parts(m, x)) \subseteq Cluster
    BY PartsType, Elements
  <1>3. QED
    BY <1>1, <1>2 DEF Holdings

(* A command that has nothing written yet.                                 *)
LEMMA NothingWritten ==
  ASSUME fs \in Image, Tree(fs), job.op # "part", NEW j \in Job, j # NoJob, Fits(fs, wd, j)
  PROVE  Good(fs, <<>>, j)
  <1>1. <<>> \in Seq(Cluster \X Contents) /\ \A c : Agrees(<<>>, fs, c, 1)
    BY DEF Agrees
  <1>2. QED
    BY <1>1 DEF Good

(* The removal of what a path names, which refuses to go above the working *)
(* directory.                                                              *)
LEMMA RemovalKeeps ==
  ASSUME IInv, Ready, typed' \in 0 .. MaxTyped,
         NEW p \in Path, NEW plain, NEW t \in Read(Absolute(p)), NEW x,
         x = Target(p, plain, t),
         NEW j \in Job, j.start = Root, j.op = "create" \/ x # NONE, j.op = "create" => j.src \in Host,
         NEW asTyped \in BOOLEAN, RemoveThen(x, j, asTyped)
  PROVE  IInv'
  <1>1. /\ process = "running" /\ fs \in Image /\ Tree(fs) /\ wd \in Cluster
        /\ fs[wd].type = "DIRECTORY" /\ job.op = "none" /\ writes = <<>> /\ TypeOK
    BY Types, ReadyIs DEF IInv, Fits
  <1>2. Root \in Cluster /\ fs[Root].type = "DIRECTORY"
    BY <1>1, Clusters DEF Tree, TreeRoot
  <1>3. CASE x = NONE
    <2>1. Do(fs, <<>>, j)
      BY <1>3 DEF RemoveThen
    <2>2. j.op = "create" /\ j # NoJob
      BY <1>3, NoJobIs
    <2>3. Fits(fs, wd, j)
      BY <1>1, <2>2 DEF Fits
    <2>4. Good(fs, <<>>, j)
      BY <1>1, <2>2, <2>3, NothingWritten
    <2>5. QED
      BY <1>1, <2>1, <2>4, DoKeeps
  <1>4. CASE x # NONE /\ wd \in Below(fs, x)
    <2>1. Stop("removed", asTyped)
      BY <1>4 DEF RemoveThen
    <2>2. QED
      BY <1>1, <2>1, StopKeeps
  <1>5. CASE x # NONE /\ wd \notin Below(fs, x)
    <2> DEFINE k == [j EXCEPT !.op = "rm", !.at = x, !.touched = Holdings(fs, x)]
    <2>1. Do(fs, <<>>, k)
      BY <1>5 DEF RemoveThen
    <2>2. t \in Seq(Name) /\ x = Walk(fs, Root, t)
      <3>1. Absolute(p).names \in Seq(Name)
        BY <1>1, AbsoluteIs
      <3>2. QED
        BY <1>5, <3>1, ReadIs DEF Target
    <2>3. x \in Cluster /\ Entry(fs, x)
      <3>1. /\ x \in Cluster /\ (t = <<>> => x = Root) /\ (t # <<>> => Entry(fs, x))
        BY <1>1, <1>2, <1>5, <2>2, WalkEntry
      <3>2. wd \in Below(fs, Root)
        BY <1>1, DirsBelow
      <3>3. QED
        BY <1>5, <3>1, <3>2
    <2>4. k \in Job /\ k.op = "rm" /\ k.at = x /\ k.start = Root
      <3>1. Holdings(fs, x) \in SUBSET Cluster
        BY <1>1, <2>3, HoldingsType
      <3>2. QED
        BY <2>3, <3>1 DEF Job
    <2> HIDE DEF k
    <2>5. k # NoJob /\ Fits(fs, wd, k)
      BY <1>1, <1>5, <2>3, <2>4, NoJobIs DEF Fits
    <2>6. Good(fs, <<>>, k)
      BY <1>1, <2>4, <2>5, NothingWritten
    <2>7. QED
      BY <1>1, <2>1, <2>6, DoKeeps
  <1>6. QED
    BY <1>3, <1>4, <1>5

(* zox_fs_rm_s                                                             *)
LEMMA RmKeeps ==
  ASSUME IInv, Rm PROVE IInv'
  <1>1. Ready /\ typed' \in 0 .. MaxTyped
    BY TypedIs DEF Rm, Typed, IInv
  <1>2. PICK p \in Path, plain \in Spelling : \E t \in Read(Absolute(p)) :
          /\ Target(p, plain, t) # NONE
          /\ RemoveThen(Target(p, plain, t), NoJob, plain /\ t = Absolute(p).names)
    BY DEF Rm
  <1>3. PICK t \in Read(Absolute(p)) :
          /\ Target(p, plain, t) # NONE
          /\ RemoveThen(Target(p, plain, t), NoJob, plain /\ t = Absolute(p).names)
    BY <1>2
  <1>4. NoJob \in Job /\ NoJob.start = Root /\ NoJob.op # "create"
    BY NoJobIs
  <1>5. plain \in BOOLEAN
    BY DEF Spelling
  <1>6. (plain /\ t = Absolute(p).names) \in BOOLEAN
    BY <1>5
  <1>7. QED
    BY <1>1, <1>3, <1>4, <1>6, RemovalKeeps

(* zox_fs_load_file up to the removal.                                     *)
LEMMA LoadKeeps ==
  ASSUME IInv, Load PROVE IInv'
  <1>1. Ready /\ typed' \in 0 .. MaxTyped
    BY TypedIs DEF Load, Typed, IInv
  <1>2. /\ process = "running" /\ fs \in Image /\ Tree(fs) /\ wd \in Cluster
        /\ fs[wd].type = "DIRECTORY" /\ job.op = "none" /\ writes = <<>> /\ TypeOK
    BY <1>1, Types, ReadyIs DEF IInv, Fits
  <1> DEFINE there(p, s) == Walk(fs, Start(p), s)
             create(f, p, s) == [NoJob EXCEPT !.op = "create", !.src = f, !.over = there(p, s)]
             Begin(f, p, plain, s) ==
               IF there(p, s) = NONE
               THEN /\ Size[f] <= FreeBytes(fs)
                    /\ Do(fs, <<>>, [create(f, p, s) EXCEPT !.start = Start(p), !.path = s])
               ELSE IF Endless(fs, there(p, s)) THEN Stop("hung", TRUE)
               ELSE /\ Size[f] <= FreeBytes(fs) + FileSize(fs, there(p, s))
                    /\ \E t \in IF p.abs THEN {s} ELSE Read(Absolute(p)) :
                         RemoveThen(Target(p, plain, t),
                                    [create(f, p, s) EXCEPT !.start = Root, !.path = t],
                                    plain /\ t = Absolute(p).names)
  <1>3. PICK f \in Host, p \in Path, plain \in Spelling : \E s \in Read(p) : Begin(f, p, plain, s)
    BY DEF Load
  <1>4. PICK s \in Read(p) : Begin(f, p, plain, s)
    BY <1>3
  <1>5. s \in Seq(Name) /\ Start(p) \in Cluster /\ fs[Start(p)].type = "DIRECTORY"
        /\ Start(p) \in {Root, wd}
    BY <1>2, PathNames, ReadIs, StartIs
  <1>6. there(p, s) \in Cluster \cup {NONE}
    BY <1>2, <1>5, WalkEntry
  <1> DEFINE c == create(f, p, s)
  <1>7. c \in Job /\ c.op = "create" /\ c.src = f
    BY <1>6, NoJobIs DEF Job
  <1>8. plain \in BOOLEAN
    BY DEF Spelling
  <1>9. CASE there(p, s) = NONE
    <2> DEFINE j == [c EXCEPT !.start = Start(p), !.path = s]
    <2>1. Do(fs, <<>>, j)
      BY <1>4, <1>9
    <2> HIDE DEF c, there
    <2>2. j \in Job /\ j.op = "create" /\ j.src = f /\ j.start = Start(p)
      BY <1>5, <1>7 DEF Job
    <2> HIDE DEF j
    <2>3. j # NoJob /\ Fits(fs, wd, j)
      BY <1>2, <1>5, <2>2, NoJobIs DEF Fits
    <2>4. Good(fs, <<>>, j)
      BY <1>2, <2>2, <2>3, NothingWritten
    <2>5. QED
      BY <1>1, <1>2, <2>1, <2>4, DoKeeps
  <1>10. CASE there(p, s) # NONE /\ Endless(fs, there(p, s))
    <2>1. Stop("hung", TRUE)
      BY <1>4, <1>10
    <2>2. QED
      BY <1>1, <1>2, <2>1, StopKeeps
  <1>11. CASE there(p, s) # NONE /\ ~Endless(fs, there(p, s))
    <2>1. PICK t \in IF p.abs THEN {s} ELSE Read(Absolute(p)) :
            RemoveThen(Target(p, plain, t), [c EXCEPT !.start = Root, !.path = t],
                       plain /\ t = Absolute(p).names)
      BY <1>4, <1>11
    <2>2. t \in Read(Absolute(p))
      BY <1>2, <2>1, AbsoluteIs
    <2>3. t \in Seq(Name)
      BY <1>2, <2>2, AbsoluteIs, ReadIs
    <2> DEFINE j == [c EXCEPT !.start = Root, !.path = t]
    <2> HIDE DEF c, there
    <2>4. j \in Job /\ j.op = "create" /\ j.src = f /\ j.start = Root
      BY <1>7, <2>3, Clusters DEF Job
    <2>5. (plain /\ t = Absolute(p).names) \in BOOLEAN
      BY <1>8
    <2>6. RemoveThen(Target(p, plain, t), j, plain /\ t = Absolute(p).names)
      BY <2>1
    <2> HIDE DEF j
    <2>7. QED
      BY <1>1, <2>2, <2>4, <2>5, <2>6, RemovalKeeps
  <1>12. QED
    BY <1>9, <1>10, <1>11

(* One leaf is removed: the rest is still a tree, and what is yet to be    *)
(* removed is still an entry.                                              *)
LEMMA RmStepKeeps ==
  ASSUME IInv, RmStep PROVE IInv'
  <1> DEFINE c == FirstLeaf(fs, job.at)
             parts == Parts(fs, c)
             F == {c} \cup ToSet(parts)
             gone == Freed(Unlisted(fs, c), F)
             after == IF c # job.at THEN job
                      ELSE IF job.src = NoHost THEN Flushing ELSE [job EXCEPT !.op = "create"]
             cs == (IF parts = <<>> THEN <<>> ELSE <<c>>) \o parts \o <<c, fs[c].parent>>
             w == Written(gone, cs)
  <1>1. /\ job.op = "rm" /\ writes = <<>> /\ process = "running" /\ UNCHANGED typed
        /\ Do(gone, w, after)
    BY DEF RmStep
  <1>2. /\ fs \in Image /\ Tree(fs) /\ wd \in Cluster /\ TypeOK
        /\ fs[wd].type = "DIRECTORY" /\ job \in Job /\ Fits(fs, wd, job)
        /\ job.start \in {Root, wd} /\ job.src \in Host \cup {NoHost}
        /\ Entry(fs, job.at) /\ wd \notin Below(fs, job.at) /\ job.at \in Cluster
    BY <1>1, Types DEF IInv, Fits, Job
  <1>3. /\ c \in Below(fs, job.at) /\ fs[c].subs = <<>> /\ c \in Cluster
        /\ c # job.at => \E p \in Below(fs, job.at) : c \in ToSet(fs[p].subs)
    <2>1. Below(fs, job.at) \in SUBSET Cluster
      BY <1>2, BelowIs
    <2>2. QED
      BY <1>2, <2>1, FirstLeafIs
  <1> HIDE DEF c
  <1>4. PICK d \in Cluster : fs[d].type = "DIRECTORY" /\ c \in ToSet(fs[d].subs)
    <2>1. CASE c = job.at
      BY <1>2, <2>1 DEF Entry
    <2>2. CASE c # job.at
      <3>1. PICK p \in Below(fs, job.at) : c \in ToSet(fs[p].subs)
        BY <1>3, <2>2
      <3>2. p \in Cluster
        BY <1>2, BelowIs
      <3>3. fs[p].type = "DIRECTORY"
        BY <1>2, <3>1, <3>2, Fields, NoElements
      <3>4. QED
        BY <3>1, <3>2, <3>3
    <2>3. QED
      BY <2>1, <2>2
  <1>5. /\ F \in SUBSET Cluster /\ fs[c].parent = d /\ d \notin F /\ Root \notin F
        /\ \A x \in F \ {c} : fs[x].type = "FILE"
        /\ gone \in Image /\ Tree(gone)
        /\ \A x \in Cluster \ (F \cup {d}) : gone[x] = fs[x]
        /\ \A x \in F : gone[x].type = "EMPTY" /\ gone[x].subs = <<>>
        /\ gone[d].type = "DIRECTORY"
        /\ ToSet(gone[d].subs) = ToSet(fs[d].subs) \ {c}
        /\ \A x \in F \ {c} : \A y \in Cluster : x \in Kids(fs, y) => y \in F
    <2>1. fs \in Image /\ Tree(fs) /\ fs[c].subs = <<>>
      BY <1>2, <1>3
    <2>2. LeafGone(fs, d, c, F, gone)
      BY <1>4, <2>1, LeafFreed
    <2> HIDE DEF F, gone
    <2>3. QED
      BY <2>2 DEF LeafGone
  <1>6. cs \in Seq(Cluster) /\ F \cup {d} \subseteq ToSet(cs)
    <2> DEFINE u == IF parts = <<>> THEN <<>> ELSE <<c>>
               v == u \o parts
    <2>1. u \in Seq(Cluster) /\ parts \in Seq(Cluster) /\ <<c, d>> \in Seq(Cluster)
          /\ Len(<<c, d>>) = 2 /\ <<c, d>>[1] = c /\ <<c, d>>[2] = d
      BY <1>2, <1>3, PartsType
    <2>2. cs = v \o <<c, d>>
      BY <1>5
    <2> HIDE DEF u, parts
    <2>3. /\ v \in Seq(Cluster) /\ Len(v) = Len(u) + Len(parts)
          /\ \A i \in 1 .. Len(parts) : v[Len(u) + i] = parts[i]
          /\ Len(u) \in Nat /\ Len(parts) \in Nat
      BY <2>1, ConcatProperties
    <2> HIDE DEF v, cs
    <2>4. /\ cs \in Seq(Cluster) /\ Len(cs) = Len(v) + 2
          /\ \A i \in 1 .. Len(v) : cs[i] = v[i]
          /\ \A i \in 1 .. 2 : cs[Len(v) + i] = <<c, d>>[i]
      BY <2>1, <2>2, <2>3, ConcatProperties
    <2>5. c \in ToSet(cs) /\ d \in ToSet(cs)
      <3>1. Len(v) + 1 \in 1 .. Len(cs) /\ Len(v) + 2 \in 1 .. Len(cs)
        BY <2>3, <2>4
      <3>2. cs[Len(v) + 1] = c /\ cs[Len(v) + 2] = d
        BY <2>1, <2>4
      <3>3. QED
        BY <2>4, <3>1, <3>2, Elements
    <2>6. ASSUME NEW x \in ToSet(parts)
          PROVE  x \in ToSet(cs)
      <3>1. PICK i \in 1 .. Len(parts) : parts[i] = x
        BY <2>1, Elements
      <3>2. Len(u) + i \in 1 .. Len(v) /\ Len(u) + i \in 1 .. Len(cs) /\ cs[Len(u) + i] = x
        BY <2>3, <2>4, <3>1
      <3>3. QED
        BY <2>4, <3>2, Elements
    <2>7. QED
      BY <2>4, <2>5, <2>6
  <1> HIDE DEF cs, parts, gone
  <1>7. /\ w \in Seq(Cluster \X Contents)
        /\ \A x \in ToSet(cs) : Settled(w, gone, x)
        /\ \A x \in Cluster : Agrees(w, gone, x, 1)
    BY <1>5, <1>6, WrittenIs
  <1> HIDE DEF w
  <1>8. gone[wd].type = "DIRECTORY"
    BY <1>2, <1>3, <1>5
  <1>9. after \in Job /\ after # NoJob /\ Fits(gone, wd, after)
    <2>1. CASE c # job.at
      <3>1. after = job /\ job # NoJob
        BY <1>1, <2>1, NoJobIs
      <3>2. PICK p \in Cluster : fs[p].type = "DIRECTORY" /\ job.at \in ToSet(fs[p].subs)
        BY <1>2 DEF Entry
      <3>3. p \notin F
        BY <1>3, <1>5, <3>2, NoElements
      <3>4. gone[p].type = "DIRECTORY" /\ job.at \in ToSet(gone[p].subs)
        BY <1>5, <2>1, <3>2, <3>3
      <3>5. \A x \in Cluster : ToSet(gone[x].subs) \subseteq ToSet(fs[x].subs)
        BY <1>5, NoElements
      <3>6. wd \notin Below(gone, job.at)
        BY <1>2, <1>5, <3>5, BelowShrinks
      <3> HIDE DEF after
      <3>7. QED
        BY <1>1, <1>2, <1>8, <3>1, <3>4, <3>6 DEF Fits, Entry
    <2>2. CASE c = job.at /\ job.src = NoHost
      <3>1. after = Flushing
        BY <2>2
      <3>2. QED
        BY <1>2, <1>8, <3>1, FlushingIs DEF Fits
    <2>3. CASE c = job.at /\ job.src # NoHost
      <3> DEFINE j == [job EXCEPT !.op = "create"]
      <3>1. after = j
        BY <2>3
      <3>2. j \in Job /\ j.op = "create" /\ j.src = job.src /\ j.start = job.start
        BY <1>2 DEF Job
      <3> HIDE DEF j, after
      <3>3. QED
        BY <1>2, <1>8, <2>3, <3>1, <3>2, NoJobIs DEF Fits
    <2>4. QED
      BY <2>1, <2>2, <2>3
  <1> HIDE DEF after
  <1>10. Good(gone, w, after)
    BY <1>1, <1>5, <1>6, <1>7, <1>9 DEF Good
  <1>11. QED
    <2>1. typed' \in 0 .. MaxTyped
      BY <1>1, <1>2, TypedIs
    <2>2. QED
      BY <1>1, <1>10, <2>1, DoKeeps

(* A command that ends.                                                    *)
LEMMA FinishKeeps ==
  ASSUME IInv, process = "running", writes = <<>>, job.op # "part",
         typed' \in 0 .. MaxTyped, Finish
  PROVE  IInv'
  <1>1. job' = NoJob /\ saved' = disk /\ UNCHANGED <<fs, wd, disk, writes, cut, process>>
    BY DEF Finish
  <1>2. TypeOK'
    BY <1>1, NoJobIs DEF IInv, TypeOK
  <1>3. (Tree(fs) /\ Fits(fs, wd, job))'
    BY <1>1, NoJobIs DEF IInv, Fits
  <1>4. DiskOK'
    BY <1>1 DEF IInv, DiskOK, Settled, Agrees
  <1>5. QED
    BY <1>1, <1>2, <1>3, <1>4 DEF IInv

(* A block holds at most BlockSize bytes.                                  *)
LEMMA AtMostIs ==
  ASSUME NEW n \in Nat
  PROVE  /\ AtMost(n) \in Nat /\ AtMost(n) <= n /\ AtMost(n) <= BlockSize
         /\ ~(AtMost(n) < BlockSize) => BlockSize <= n
  BY SizesAreNumbers DEF AtMost

(* load makes the file and reads its first block.                          *)
LEMMA LoadCreateKeeps ==
  ASSUME IInv, LoadCreate PROVE IInv'
  <1>1. job.op = "create" /\ writes = <<>> /\ process = "running" /\ UNCHANGED typed
    BY DEF LoadCreate
  <1>2. /\ fs \in Image /\ Tree(fs) /\ wd \in Cluster /\ TypeOK /\ typed' \in 0 .. MaxTyped
        /\ fs[wd].type = "DIRECTORY" /\ job \in Job /\ job.start \in {Root, wd}
        /\ job.src \in Host /\ job.path \in Seq(Name)
        /\ job.start \in Cluster /\ fs[job.start].type = "DIRECTORY"
    <2>1. fs \in Image /\ Tree(fs) /\ wd \in Cluster /\ TypeOK /\ Fits(fs, wd, job) /\ job \in Job
      BY <1>1, Types DEF IInv
    <2>2. QED
      BY <1>1, <2>1, Clusters, TypedIs DEF Fits, Job, Tree, TreeRoot
  <1> DEFINE Into(place) ==
               LET d == place[1]
                   c == place[2]
                   made == Listed([fs EXCEPT ![c].name = Last(job.path)], d, c)
                   read == AtMost(Size[job.src])
                   done == [made EXCEPT ![c].type = "FILE", ![c].used = read,
                                        ![c].next = NONE, ![c].data = <<job.src, 1>>]
                   begun == Written(made, <<c, d>>)
               IN  IF fs[d].type = "FILE" THEN Stop("intoFile", TRUE)
                   ELSE IF read < BlockSize
                   THEN Do(done, begun \o Written(done, <<c>>), Flushing)
                   ELSE Do(done, begun, [job EXCEPT !.op = "part", !.at = c])
  <1>3. \/ Stop("failed", TRUE) \/ Finish
        \/ \E place \in Places(job.start, job.path) : Into(place)
    BY DEF LoadCreate
  <1>4. CASE Stop("failed", TRUE)
    BY <1>1, <1>2, <1>4, StopKeeps
  <1>5. CASE Finish
    BY <1>1, <1>2, <1>5, FinishKeeps
  <1>6. ASSUME NEW place \in Places(job.start, job.path), Into(place)
        PROVE  IInv'
    <2> DEFINE d == place[1]
               c == place[2]
               name == Last(job.path)
               base == [fs EXCEPT ![c].name = name]
               made == Listed(base, d, c)
               read == AtMost(Size[job.src])
               done == [made EXCEPT ![c].type = "FILE", ![c].used = read,
                                    ![c].next = NONE, ![c].data = <<job.src, 1>>]
               v == Written(made, <<c, d>>)
               w == v \o Written(done, <<c>>)
               k == [job EXCEPT !.op = "part", !.at = c]
    <2>1. /\ name \in Name /\ d \in Cluster /\ fs[d].type \in {"DIRECTORY", "FILE"}
          /\ c \in Cluster /\ fs[c].type = "EMPTY"
      BY <1>2, PlacesAre
    <2>2. CASE fs[d].type = "FILE"
      <3>1. Stop("intoFile", TRUE)
        BY <1>6, <2>2
      <3>2. QED
        BY <1>1, <1>2, <3>1, StopKeeps
    <2>3. CASE fs[d].type = "DIRECTORY"
      <3>1. IF read < BlockSize THEN Do(done, w, Flushing) ELSE Do(done, v, k)
        BY <1>6, <2>3
      <3> HIDE DEF c, d, name, w, v, k
      <3>2. /\ base \in Image /\ \A x \in Cluster \ {c} : base[x] = fs[x]
            /\ base[c].name \in Name /\ base[c].subs = <<>> /\ c # d
            /\ made \in Image /\ made[c].name \in Name /\ made[c].parent = d
            /\ made[c].subs = <<>>
        BY <1>2, <2>1, <2>3, MadeIs
      <3> HIDE DEF base
      <3>3. Size[job.src] \in Nat
        BY <1>2, SizesAreNumbers
      <3>4. read \in Nat /\ (~(read < BlockSize) => BlockSize <= Size[job.src])
        BY <3>3, AtMostIs
      <3> HIDE DEF made, read
      <3>5. /\ done \in Image /\ \A x \in Cluster \ {c} : done[x] = made[x]
            /\ done[c].type = "FILE" /\ done[c].parent = d /\ done[c].name \in Name
            /\ done[c].subs = <<>> /\ done[c].next = NONE /\ done[c].data[2] = 1
        <4> DEFINE b == <<job.src, 1>>
                   r == [made[c] EXCEPT !.type = "FILE", !.used = read, !.next = NONE,
                                        !.data = b]
        <4>1. b \in (Host \cup {NoHost}) \X Nat /\ b[2] = 1
          BY <1>2
        <4>2. done = [made EXCEPT ![c] = r]
          BY <2>1, <3>2 DEF Image
        <4> HIDE DEF b
        <4>3. made[c] \in Contents
          BY <2>1, <3>2 DEF Image
        <4>4. /\ r \in Contents /\ r.type = "FILE" /\ r.parent = made[c].parent
              /\ r.name = made[c].name /\ r.subs = made[c].subs /\ r.next = NONE
              /\ r.data = b
          BY <3>2, <3>4, <4>1, <4>3 DEF Contents, Type
        <4> HIDE DEF r, done
        <4>5. done \in Image /\ done[c] = r /\ \A x \in Cluster \ {c} : done[x] = made[x]
          BY <2>1, <3>2, <4>2, <4>4 DEF Image
        <4>6. QED
          BY <3>2, <4>1, <4>4, <4>5
      <3> HIDE DEF done
      <3>6. /\ Tree(done) /\ done[d].type = "DIRECTORY"
            /\ \A x \in Cluster \ {c, d} : done[x] = fs[x]
        BY <1>2, <2>1, <2>3, <3>2, <3>5, LeafMade DEF made
      <3>7. done[wd].type = "DIRECTORY"
        BY <1>2, <2>1, <3>5, <3>6
      <3>8. /\ v \in Seq(Cluster \X Contents) /\ w \in Seq(Cluster \X Contents)
            /\ Settled(v, done, d) /\ \A x \in Cluster \ {c} : Agrees(v, done, x, 1)
            /\ Settled(w, done, c) /\ Settled(w, done, d)
            /\ \A x \in Cluster \ {c} : Agrees(w, done, x, 1)
        BY <2>1, <3>2, <3>5, BegunIs DEF w, v
      <3>9. CASE read < BlockSize
        <4>1. Flushing \in Job /\ Flushing # NoJob /\ Fits(done, wd, Flushing)
          BY <1>2, <3>7, FlushingIs DEF Fits
        <4>2. Good(done, w, Flushing)
          BY <1>1, <3>5, <3>6, <3>8, <4>1 DEF Good
        <4>3. QED
          BY <1>1, <1>2, <3>1, <3>9, <4>2, DoKeeps
      <3>10. CASE ~(read < BlockSize)
        <4>1. k \in Job /\ k.op = "part" /\ k.at = c /\ k.src = job.src /\ k.start = job.start
          BY <1>2, <2>1 DEF k, Job
        <4>2. 1 * BlockSize <= Size[job.src]
          BY <3>4, <3>10, SizesAreNumbers
        <4>3. k # NoJob /\ Fits(done, wd, k)
          BY <1>2, <3>5, <3>7, <4>1, <4>2, NoJobIs DEF Fits
        <4>4. Good(done, v, k)
          BY <1>1, <3>5, <3>6, <3>8, <4>1, <4>3 DEF Good
        <4>5. QED
          BY <1>1, <1>2, <3>1, <3>10, <4>4, DoKeeps
      <3>11. QED
        BY <3>9, <3>10
    <2>4. QED
      BY <2>1, <2>2, <2>3
  <1>7. QED
    BY <1>3, <1>4, <1>5, <1>6

(* The writes of two clusters.                                             *)
LEMMA BothWritten ==
  ASSUME NEW m \in Image, NEW b \in Cluster, NEW c \in Cluster
  PROVE  LET w == Written(m, <<b, c>>)
         IN  /\ w \in Seq(Cluster \X Contents) /\ Settled(w, m, b) /\ Settled(w, m, c)
             /\ \A x \in Cluster : Agrees(w, m, x, 1)
  <1>1. <<b, c>> \in Seq(Cluster) /\ ToSet(<<b, c>>) = {b, c}
    BY DEF ToSet
  <1>2. QED
    BY <1>1, WrittenIs

(* load reads the next block.                                              *)
LEMMA LoadPartKeeps ==
  ASSUME IInv, LoadPart PROVE IInv'
  <1> DEFINE b == job.at
             k == fs[job.at].data[2]
             read == AtMost(Size[job.src] - k * BlockSize)
             m(n) == [fs EXCEPT ![n].type = "FILE", ![n].next = NONE, ![n].used = read,
                                ![n].data = <<job.src, k + 1>>, ![job.at].next = n]
             after(n) == IF read < BlockSize THEN Flushing ELSE [job EXCEPT !.at = n]
  <1>1. job.op = "part" /\ writes = <<>> /\ process = "running" /\ UNCHANGED typed
    BY DEF LoadPart
  <1>2. /\ fs \in Image /\ Tree(fs) /\ wd \in Cluster /\ TypeOK /\ typed' \in 0 .. MaxTyped
        /\ fs[wd].type = "DIRECTORY" /\ job \in Job /\ job.start \in {Root, wd}
        /\ job.src \in Host /\ b \in Cluster /\ fs[b].type = "FILE" /\ fs[b].next = NONE
        /\ k * BlockSize <= Size[job.src]
    <2>1. fs \in Image /\ Tree(fs) /\ wd \in Cluster /\ TypeOK /\ Fits(fs, wd, job) /\ job \in Job
      BY <1>1, Types DEF IInv
    <2>2. QED
      BY <1>1, <2>1, TypedIs DEF Fits, Job
  <1>3. \/ Stop("failed", TRUE)
        \/ \E n \in FreeCluster(fs) : Do(m(n), Written(m(n), <<b, n>>), after(n))
    BY DEF LoadPart
  <1>4. CASE Stop("failed", TRUE)
    BY <1>1, <1>2, <1>4, StopKeeps
  <1>5. ASSUME NEW n \in FreeCluster(fs), Do(m(n), Written(m(n), <<b, n>>), after(n))
        PROVE  IInv'
    <2>1. n \in Cluster /\ fs[n].type = "EMPTY" /\ n # b /\ n # wd /\ fs[n].subs = <<>>
      BY <1>2, Fields DEF FreeCluster, Empties
    <2>2. k \in Nat /\ Size[job.src] \in Nat /\ BlockSize \in Nat \ {0}
      <3>1. fs[b].data \in (Host \cup {NoHost}) \X Nat
        BY <1>2, Fields
      <3>2. QED
        BY <1>2, <3>1, SizesAreNumbers
    <2>3. k * BlockSize \in Nat /\ (k + 1) * BlockSize = k * BlockSize + BlockSize
      BY <2>2
    <2> DEFINE left == Size[job.src] - k * BlockSize
    <2>4. left \in Nat
      BY <1>2, <2>2, <2>3
    <2>5. read \in Nat /\ (~(read < BlockSize) => (k + 1) * BlockSize <= Size[job.src])
      <3>1. read = AtMost(left)
        OBVIOUS
      <3>2. AtMost(left) \in Nat /\ (~(AtMost(left) < BlockSize) => BlockSize <= left)
        BY <2>4, AtMostIs
      <3>3. QED
        BY <2>2, <2>3, <3>1, <3>2
    <2> HIDE DEF read, left
    <2> DEFINE r == [fs[n] EXCEPT !.type = "FILE", !.next = NONE, !.used = read,
                                  !.data = <<job.src, k + 1>>]
               s == [fs[b] EXCEPT !.next = n]
               w == Written(m(n), <<b, n>>)
    <2>6. m(n) = [fs EXCEPT ![n] = r, ![b] = s]
      BY <1>2, <2>1 DEF Image
    <2>7. /\ r \in Contents /\ r.type = "FILE" /\ r.next = NONE /\ r.data[2] = k + 1
      <3> DEFINE a == <<job.src, k + 1>>
      <3>1. a \in (Host \cup {NoHost}) \X Nat /\ a[2] = k + 1
        BY <1>2, <2>2
      <3> HIDE DEF a, k
      <3>2. fs[n] \in Contents
        BY <1>2, <2>1 DEF Image
      <3>3. QED
        BY <2>1, <2>5, <3>1, <3>2 DEF Contents, Type, a
    <2>8. /\ s \in Contents /\ s.type = "FILE" /\ s.next = n /\ s.parent = fs[b].parent
          /\ s.name = fs[b].name
      <3>1. fs[b] \in Contents
        BY <1>2 DEF Image
      <3>2. QED
        BY <1>2, <2>1, <3>1 DEF Contents
    <2> HIDE DEF r, s, m
    <2>9. /\ m(n) \in Image /\ m(n)[n] = r /\ m(n)[b] = s
          /\ \A x \in Cluster \ {n, b} : m(n)[x] = fs[x]
      BY <1>2, <2>1, <2>6, <2>7, <2>8 DEF Image
    <2>10. Tree(m(n))
      BY <1>2, <2>1, <2>7, <2>8, <2>9, PartAdded
    <2>11. m(n)[wd].type = "DIRECTORY"
      BY <1>2, <2>1, <2>9
    <2>12. after(n) \in Job /\ after(n) # NoJob /\ Fits(m(n), wd, after(n))
      <3>1. CASE read < BlockSize
        <4>1. after(n) = Flushing
          BY <3>1
        <4>2. QED
          BY <1>2, <2>11, <4>1, FlushingIs DEF Fits
      <3>2. CASE ~(read < BlockSize)
        <4> DEFINE j == [job EXCEPT !.at = n]
        <4>1. after(n) = j
          BY <3>2
        <4>2. /\ j \in Job /\ j.op = "part" /\ j.at = n /\ j.src = job.src
              /\ j.start = job.start
          BY <1>1, <1>2, <2>1 DEF Job
        <4>3. m(n)[n].data[2] * BlockSize <= Size[job.src]
          BY <2>5, <2>7, <2>9, <3>2
        <4> HIDE DEF j, after
        <4>4. QED
          BY <1>2, <2>7, <2>9, <2>11, <4>1, <4>2, <4>3, NoJobIs DEF Fits
      <3>3. QED
        BY <3>1, <3>2
    <2>13. /\ w \in Seq(Cluster \X Contents) /\ Settled(w, m(n), b) /\ Settled(w, m(n), n)
           /\ \A x \in Cluster : Agrees(w, m(n), x, 1)
      BY <1>2, <2>1, <2>9, BothWritten
    <2> HIDE DEF after, w
    <2>14. Good(m(n), w, after(n))
      BY <2>9, <2>10, <2>12, <2>13 DEF Good
    <2>15. Do(m(n), w, after(n))
      BY <1>5 DEF w
    <2>16. QED
      BY <1>1, <1>2, <2>14, <2>15, DoKeeps
  <1>6. QED
    BY <1>3, <1>4, <1>5

(* A copied block is a block of a file.                                    *)
LEMMA CopyIs ==
  ASSUME NEW m \in Image, NEW from \in Cluster
  PROVE  LET r == CopyOf(m, from)
         IN  r \in Contents /\ r.type = "FILE" /\ r.next = NONE /\ r.subs = <<>>
             /\ r.used = m[from].used
             /\ r.data = IF m[from].type = "DIRECTORY" THEN NoData ELSE m[from].data
  <1> DEFINE a == IF m[from].type = "DIRECTORY" THEN NoData ELSE m[from].data
             e == <<>>
             r == [m[from] EXCEPT !.type = "FILE", !.next = NONE, !.subs = e, !.name = "",
                                  !.parent = Root, !.data = a]
  <1>1. CopyOf(m, from) = r
    BY DEF CopyOf, Root
  <1>2. m[from] \in Contents /\ m[from].data \in (Host \cup {NoHost}) \X Nat
    BY Fields DEF Image
  <1>3. a \in (Host \cup {NoHost}) \X Nat
    BY <1>2 DEF NoData, NoHost
  <1>4. Root \in Cluster /\ e \in Seq(Cluster) /\ e = <<>>
    BY Clusters
  <1> HIDE DEF a, e
  <1>5. /\ r \in Contents /\ r.type = "FILE" /\ r.next = NONE /\ r.subs = e
        /\ r.used = m[from].used /\ r.data = a
    BY <1>2, <1>3, <1>4 DEF Contents, Type
  <1>6. QED
    BY <1>1, <1>4, <1>5 DEF a

(* cp copies the next block.                                               *)
LEMMA CpStepKeeps ==
  ASSUME IInv, CpStep PROVE IInv'
  <1> DEFINE b == job.at
             from == fs[job.from].next
             linked(n) == [fs EXCEPT ![job.at].next = n]
             m(n) == [linked(n) EXCEPT ![n] = CopyOf(linked(n), from)]
             after(n) == [job EXCEPT !.from = from, !.at = n]
  <1>1. job.op = "copy" /\ writes = <<>> /\ process = "running" /\ UNCHANGED typed
    BY DEF CpStep
  <1>2. /\ fs \in Image /\ Tree(fs) /\ wd \in Cluster /\ TypeOK /\ typed' \in 0 .. MaxTyped
        /\ fs[wd].type = "DIRECTORY" /\ job \in Job /\ job.start \in {Root, wd}
        /\ job.from \in Cluster
        /\ b \in Cluster /\ fs[b].type = "FILE" /\ fs[b].next = NONE
    <2>1. fs \in Image /\ Tree(fs) /\ wd \in Cluster /\ TypeOK /\ Fits(fs, wd, job) /\ job \in Job
      BY <1>1, Types DEF IInv
    <2>2. QED
      BY <1>1, <2>1, TypedIs DEF Fits, Job
  <1>3. \/ Finish \/ Stop("failed", TRUE)
        \/ /\ from # NONE
           /\ \E n \in FreeCluster(fs) : Do(m(n), Written(m(n), <<b, n>>), after(n))
    BY DEF CpStep
  <1>4. CASE Finish
    BY <1>1, <1>2, <1>4, FinishKeeps
  <1>5. CASE Stop("failed", TRUE)
    BY <1>1, <1>2, <1>5, StopKeeps
  <1>6. ASSUME from # NONE, NEW n \in FreeCluster(fs),
               Do(m(n), Written(m(n), <<b, n>>), after(n))
        PROVE  IInv'
    <2>1. n \in Cluster /\ fs[n].type = "EMPTY" /\ n # b /\ n # wd
      BY <1>2 DEF FreeCluster, Empties
    <2>2. from \in Cluster
      BY <1>2, <1>6, Fields
    <2> DEFINE s == [fs[b] EXCEPT !.next = n]
               w == Written(m(n), <<b, n>>)
               r == CopyOf(linked(n), from)
    <2>3. /\ s \in Contents /\ s.type = "FILE" /\ s.next = n /\ s.parent = fs[b].parent
          /\ s.name = fs[b].name
      <3>1. fs[b] \in Contents
        BY <1>2 DEF Image
      <3>2. QED
        BY <1>2, <2>1, <3>1 DEF Contents
    <2>4. linked(n) = [fs EXCEPT ![b] = s]
      BY <1>2 DEF Image
    <2> HIDE DEF s, linked, from
    <2>5. /\ linked(n) \in Image /\ linked(n)[b] = s
          /\ \A x \in Cluster \ {b} : linked(n)[x] = fs[x]
      BY <1>2, <2>3, <2>4 DEF Image
    <2>6. r \in Contents /\ r.type = "FILE" /\ r.next = NONE
      BY <2>2, <2>5, CopyIs
    <2>7. m(n) = [linked(n) EXCEPT ![n] = r]
      OBVIOUS
    <2> HIDE DEF r, m
    <2>8. /\ m(n) \in Image /\ m(n)[n] = r /\ m(n)[b] = s
          /\ \A x \in Cluster \ {n, b} : m(n)[x] = fs[x]
      BY <1>2, <2>1, <2>5, <2>6, <2>7 DEF Image
    <2>9. Tree(m(n))
      BY <1>2, <2>1, <2>3, <2>6, <2>8, PartAdded
    <2>10. /\ after(n) \in Job /\ after(n).op = "copy" /\ after(n).at = n
           /\ after(n).start = job.start
      BY <1>1, <1>2, <2>1, <2>2 DEF Job
    <2> HIDE DEF after
    <2>11. after(n) # NoJob /\ Fits(m(n), wd, after(n))
      <3>1. m(n)[wd].type = "DIRECTORY"
        BY <1>2, <2>1, <2>8
      <3>2. QED
        BY <1>2, <2>6, <2>8, <2>10, <3>1, NoJobIs DEF Fits
    <2>12. /\ w \in Seq(Cluster \X Contents) /\ Settled(w, m(n), b) /\ Settled(w, m(n), n)
           /\ \A x \in Cluster : Agrees(w, m(n), x, 1)
      BY <1>2, <2>1, <2>8, BothWritten
    <2> HIDE DEF w
    <2>13. Good(m(n), w, after(n))
      BY <1>1, <2>8, <2>9, <2>10, <2>11, <2>12 DEF Good
    <2>14. Do(m(n), w, after(n))
      BY <1>6 DEF w
    <2>15. QED
      BY <1>1, <1>2, <2>13, <2>14, DoKeeps
  <1>7. QED
    BY <1>3, <1>4, <1>5, <1>6

(* cp makes the new file with its first block.                             *)
LEMMA CpKeeps ==
  ASSUME IInv, Cp PROVE IInv'
  <1>1. Ready /\ typed' \in 0 .. MaxTyped
    BY TypedIs DEF Cp, Typed, IInv
  <1>2. /\ process = "running" /\ fs \in Image /\ Tree(fs) /\ wd \in Cluster
        /\ fs[wd].type = "DIRECTORY" /\ job.op = "none" /\ writes = <<>> /\ TypeOK
    BY <1>1, Types, ReadyIs DEF IInv, Fits
  <1> DEFINE m(from, q, d, n) ==
               Listed([fs EXCEPT ![n] = [CopyOf(fs, from) EXCEPT !.name = Last(q.names)]], d, n)
             after(from, n) == [NoJob EXCEPT !.op = "copy", !.from = from, !.at = n]
             Into(from, q, d) ==
               IF fs[d].type = "FILE" THEN Stop("intoFile", TRUE)
               ELSE \E n \in FreeCluster(fs) :
                      Do(m(from, q, d, n), Written(m(from, q, d, n), <<d, n>>), after(from, n))
  <1>3. PICK from \in Cluster :
          \/ Stop("hung", TRUE) \/ Stop("failed", TRUE)
          \/ \E q \in {x \in Path : x.names # <<>>} : \E d \in Parents(Absolute(q)) : Into(from, q, d)
    BY DEF Cp
  <1>4. CASE Stop("hung", TRUE)
    BY <1>1, <1>2, <1>4, StopKeeps
  <1>5. CASE Stop("failed", TRUE)
    BY <1>1, <1>2, <1>5, StopKeeps
  <1>6. ASSUME NEW q \in {x \in Path : x.names # <<>>}, NEW d \in Parents(Absolute(q)),
               Into(from, q, d)
        PROVE  IInv'
    <2>1. /\ Absolute(q) \in [abs : {TRUE}, names : Seq(Name)] /\ Absolute(q).names # <<>>
          /\ q.names \in Seq(Name) /\ q.names # <<>>
      BY <1>2, AbsoluteIs, PathNames
    <2>2. d \in Cluster /\ fs[d].type \in {"DIRECTORY", "FILE"} /\ Last(q.names) \in Name
      <3>1. Absolute(q) \in [abs : BOOLEAN, names : Seq(Name)]
        BY <2>1
      <3>2. QED
        BY <1>2, <2>1, <3>1, ParentsAre, FrontIs
    <2>3. CASE fs[d].type = "FILE"
      <3>1. Stop("intoFile", TRUE)
        BY <1>6, <2>3
      <3>2. QED
        BY <1>1, <1>2, <3>1, StopKeeps
    <2>4. CASE fs[d].type = "DIRECTORY"
      <3>1. PICK n \in FreeCluster(fs) :
              Do(m(from, q, d, n), Written(m(from, q, d, n), <<d, n>>), after(from, n))
        BY <1>6, <2>4
      <3>2. n \in Cluster /\ fs[n].type = "EMPTY" /\ n # d /\ n # wd
        BY <1>2, <2>4 DEF FreeCluster, Empties
      <3> DEFINE name == Last(q.names)
                 r == [CopyOf(fs, from) EXCEPT !.name = name]
                 base == [fs EXCEPT ![n] = r]
                 done == m(from, q, d, n)
                 j == after(from, n)
                 w == Written(done, <<d, n>>)
      <3>3. done = Listed(base, d, n) /\ Do(done, w, j) /\ name \in Name
        BY <2>2, <3>1
      <3> HIDE DEF done, w, name
      <3>4. /\ r \in Contents /\ r.type = "FILE" /\ r.next = NONE /\ r.subs = <<>>
            /\ r.name = name
        <4>1. CopyOf(fs, from) \in Contents /\ CopyOf(fs, from).type = "FILE"
              /\ CopyOf(fs, from).next = NONE /\ CopyOf(fs, from).subs = <<>>
          BY <1>2, CopyIs
        <4>2. QED
          BY <3>3, <4>1 DEF Contents
      <3> HIDE DEF r
      <3>5. base \in Image /\ base[n] = r /\ \A x \in Cluster \ {n} : base[x] = fs[x]
        BY <1>2, <3>2, <3>4 DEF Image
      <3> HIDE DEF base
      <3>6. /\ done \in Image /\ done[n].type = "FILE" /\ done[n].parent = d
            /\ done[n].name \in Name /\ done[n].subs = <<>> /\ done[n].next = NONE
        <4>1. base[d].type = "DIRECTORY" /\ n # d
          BY <2>2, <2>4, <3>2, <3>5
        <4>2. /\ Listed(base, d, n) \in Image /\ Listed(base, d, n)[n].type = base[n].type
              /\ Listed(base, d, n)[n].parent = d /\ Listed(base, d, n)[n].name = base[n].name
              /\ Listed(base, d, n)[n].subs = base[n].subs
              /\ Listed(base, d, n)[n].next = base[n].next
          BY <2>2, <3>2, <3>5, <4>1, ListedIs
        <4>3. QED
          BY <3>3, <3>4, <3>5, <4>2
      <3>7. /\ Tree(done) /\ done[d].type = "DIRECTORY"
            /\ \A x \in Cluster \ {n, d} : done[x] = fs[x]
        <4>1. base[n].name \in Name /\ base[n].subs = <<>>
          BY <3>3, <3>4, <3>5
        <4>2. \A x \in Cluster \ {n} : done[x] = Listed(base, d, n)[x]
          BY <3>3
        <4>3. QED
          BY <1>2, <2>2, <2>4, <3>2, <3>5, <3>6, <4>1, <4>2, LeafMade
      <3>8. j \in Job /\ j.op = "copy" /\ j.at = n /\ j.start = Root
        BY <3>2, NoJobIs DEF Job
      <3> HIDE DEF j
      <3>9. j # NoJob /\ Fits(done, wd, j)
        <4>1. done[wd].type = "DIRECTORY"
          BY <1>2, <3>2, <3>7
        <4>2. QED
          BY <3>6, <3>8, <4>1, NoJobIs DEF Fits
      <3>10. /\ w \in Seq(Cluster \X Contents) /\ Settled(w, done, d) /\ Settled(w, done, n)
             /\ \A x \in Cluster : Agrees(w, done, x, 1)
        BY <2>2, <3>2, <3>6, BothWritten DEF w
      <3>11. Good(done, w, j)
        BY <1>2, <3>6, <3>7, <3>8, <3>9, <3>10 DEF Good
      <3>12. QED
        BY <1>1, <1>2, <3>3, <3>11, DoKeeps
    <2>5. QED
      BY <2>2, <2>3, <2>4
  <1>7. QED
    BY <1>3, <1>4, <1>5, <1>6

(* zox_fs_extract_file only reads.                                         *)
LEMMA ExtractKeeps ==
  ASSUME IInv, Extract PROVE IInv'
  <1>1. Ready /\ UNCHANGED typed /\ Stop("hung", TRUE)
    BY DEF Extract
  <1>2. typed' \in 0 .. MaxTyped
    BY <1>1, TypedIs DEF IInv
  <1>3. QED
    BY <1>1, <1>2, ReadyIs, StopKeeps

(* The next run finds the image file as it is.                             *)
LEMMA RestartKeeps ==
  ASSUME IInv, Restart PROVE IInv'
  <1>1. /\ fs' = disk /\ wd' = Root /\ writes' = <<>> /\ job' = NoJob /\ saved' = disk
        /\ process' = IF WellFormed(disk) THEN "running" ELSE "torn"
        /\ cut' = IF Ready THEN cut ELSE "yes"
        /\ UNCHANGED <<disk, typed>>
    BY DEF Restart
  <1>2. disk \in Image /\ TypeOK
    BY Types DEF IInv
  <1>3. <<>> \in Seq(Cluster \X Contents)
    OBVIOUS
  <1>4. TypeOK'
    BY <1>1, <1>2, <1>3, NoJobIs, Clusters DEF TypeOK, Image
  <1>5. (process # "torn" => Tree(fs) /\ Fits(fs, wd, job))'
    <2> SUFFICES ASSUME WellFormed(disk) PROVE Tree(disk) /\ Fits(disk, Root, NoJob)
      BY <1>1 DEF Fits
    <2>1. Tree(disk)
      BY <1>2, WellFormedIsTree
    <2>2. QED
      BY <2>1, NoJobIs DEF Tree, TreeRoot, Fits
  <1>6. DiskOK'
    BY <1>1 DEF DiskOK, Agrees, Settled
  <1>7. QED
    BY <1>4, <1>5, <1>6 DEF IInv

(* zox_fs_mv moves an entry, and writes the three clusters it changed.     *)
LEMMA MvKeeps ==
  ASSUME IInv, Mv PROVE IInv'
  <1>1. Ready /\ typed' \in 0 .. MaxTyped
    BY TypedIs DEF Mv, Typed, IInv
  <1>2. /\ process = "running" /\ fs \in Image /\ Tree(fs) /\ wd \in Cluster
        /\ fs[wd].type = "DIRECTORY" /\ job.op = "none" /\ writes = <<>> /\ TypeOK
    BY <1>1, Types, ReadyIs DEF IInv, Fits
  <1> DEFINE moved(c, q, d) == [Listed(Unlisted(fs, c), d, c) EXCEPT ![c].name = Last(q.names)]
             Into(p, s, c, q, plain, d) ==
               LET exact == d = Walk(fs, Root, Front(Absolute(q).names)) /\ s = p.names
               IN  IF d \in Below(fs, c) THEN Stop("cycle", plain /\ exact)
                   ELSE IF fs[d].type = "FILE" THEN Stop("intoFile", TRUE)
                   ELSE Do(moved(c, q, d), Written(moved(c, q, d), <<c, d, fs[c].parent>>),
                           Flushing)
  <1>3. PICK p \in Path : \E s \in Read(p) : \E c \in {Walk(fs, Start(p), s)} \cap Cluster :
          \E q \in Path : \E r \in Read(q) :
            /\ Walk(fs, Start(q), r) = NONE
            /\ \E plain \in Spelling : /\ ~(plain /\ Starts(Absolute(q).names, Absolute(p).names))
                                      /\ \E d \in Parents(Absolute(q)) : Into(p, s, c, q, plain, d)
    BY DEF Mv
  <1>4. PICK s \in Read(p) : \E c \in {Walk(fs, Start(p), s)} \cap Cluster :
          \E q \in Path : \E r \in Read(q) :
            /\ Walk(fs, Start(q), r) = NONE
            /\ \E plain \in Spelling : /\ ~(plain /\ Starts(Absolute(q).names, Absolute(p).names))
                                      /\ \E d \in Parents(Absolute(q)) : Into(p, s, c, q, plain, d)
    BY <1>3
  <1>5. PICK c \in {Walk(fs, Start(p), s)} \cap Cluster, q \in Path : \E r \in Read(q) :
            /\ Walk(fs, Start(q), r) = NONE
            /\ \E plain \in Spelling : /\ ~(plain /\ Starts(Absolute(q).names, Absolute(p).names))
                                      /\ \E d \in Parents(Absolute(q)) : Into(p, s, c, q, plain, d)
    BY <1>4
  <1>6. PICK r \in Read(q) :
            /\ Walk(fs, Start(q), r) = NONE
            /\ \E plain \in Spelling : /\ ~(plain /\ Starts(Absolute(q).names, Absolute(p).names))
                                      /\ \E d \in Parents(Absolute(q)) : Into(p, s, c, q, plain, d)
    BY <1>5
  <1>7. PICK plain \in Spelling, d \in Parents(Absolute(q)) : Into(p, s, c, q, plain, d)
    BY <1>6
  <1> HIDE DEF Into
  <1>8. /\ c = Walk(fs, Start(p), s) /\ c \in Cluster /\ (c # Root => Entry(fs, c))
    <2>1. /\ s \in Seq(Name) /\ Start(p) \in Cluster /\ fs[Start(p)].type = "DIRECTORY"
          /\ (s = <<>> => Start(p) = Root)
      BY <1>2, PathNames, ReadIs, StartIs DEF Start
    <2>2. c = Walk(fs, Start(p), s) /\ c \in Cluster /\ c # NONE
      BY <1>5, Clusters
    <2>3. QED
      BY <1>2, <2>1, <2>2, WalkEntry
  <1>9. q.names \in Seq(Name) /\ q.names # <<>>
    <2>1. q.names \in Seq(Name)
      BY PathNames
    <2>2. Start(q) \in Cluster /\ fs[Start(q)].type = "DIRECTORY"
      BY <1>2, StartIs
    <2>3. r # <<>>
      BY <1>2, <1>6, <2>2, WalkIs, Clusters
    <2>4. QED
      BY <2>1, <2>3, ReadIs
  <1>10. d \in Cluster /\ d \in Below(fs, Root) /\ fs[d].type \in {"DIRECTORY", "FILE"}
    <2>1. Absolute(q) \in [abs : BOOLEAN, names : Seq(Name)] /\ Absolute(q).names # <<>>
      BY <1>2, <1>9, AbsoluteIs
    <2>2. QED
      BY <1>2, <2>1, ParentsAre
  <1>11. CASE d \in Below(fs, c)
    <2> DEFINE exact == d = Walk(fs, Root, Front(Absolute(q).names)) /\ s = p.names
    <2>1. Stop("cycle", plain /\ exact)
      BY <1>7, <1>11 DEF Into
    <2>2. (plain /\ exact) \in BOOLEAN
      BY DEF Spelling
    <2>3. QED
      BY <1>1, <1>2, <2>1, <2>2, StopKeeps
  <1>12. CASE d \notin Below(fs, c) /\ fs[d].type = "FILE"
    <2>1. Stop("intoFile", TRUE)
      BY <1>7, <1>12 DEF Into
    <2>2. QED
      BY <1>1, <1>2, <2>1, StopKeeps
  <1>13. CASE d \notin Below(fs, c) /\ fs[d].type # "FILE"
    <2> DEFINE n == moved(c, q, d)
               w == Written(n, <<c, d, fs[c].parent>>)
    <2>1. Do(n, w, Flushing)
      BY <1>7, <1>13 DEF Into
    <2>2. PICK e \in Cluster : fs[e].type = "DIRECTORY" /\ c \in ToSet(fs[e].subs)
      <3>1. c # Root
        BY <1>10, <1>13
      <3>2. QED
        BY <1>8, <3>1 DEF Entry
    <2>3. MovedTo(fs, e, c, d, Last(q.names), n)
      <3>1. Last(q.names) \in Name /\ fs[d].type = "DIRECTORY"
        BY <1>9, <1>10, <1>13, FrontIs
      <3>2. QED
        BY <1>2, <1>10, <1>13, <2>2, <3>1, Moved
    <2> HIDE DEF n, moved
    <2>4. /\ n \in Image /\ Tree(n) /\ fs[c].parent = e
          /\ \A x \in Cluster \ {c, d, e} : n[x] = fs[x]
          /\ \A x \in Cluster : n[x].type = fs[x].type
      BY <2>3 DEF MovedTo
    <2>5. /\ w \in Seq(Cluster \X Contents)
          /\ \A x \in {c, d, e} : Settled(w, n, x)
          /\ \A x \in Cluster : Agrees(w, n, x, 1)
      <3>1. <<c, d, e>> \in Seq(Cluster) /\ ToSet(<<c, d, e>>) = {c, d, e}
        BY <1>8, <1>10 DEF ToSet
      <3>2. w = Written(n, <<c, d, e>>)
        BY <2>4
      <3> HIDE DEF w
      <3>3. QED
        BY <2>4, <3>1, <3>2, WrittenIs
    <2> HIDE DEF w
    <2>6. Flushing \in Job /\ Flushing # NoJob /\ Fits(n, wd, Flushing)
      BY <1>2, <2>4, FlushingIs DEF Fits
    <2>7. Good(n, w, Flushing)
      BY <1>2, <2>4, <2>5, <2>6 DEF Good
    <2>8. QED
      BY <1>1, <1>2, <2>1, <2>7, DoKeeps
  <1>14. QED
    BY <1>11, <1>12, <1>13

(* One write reaches the image file.                                       *)
LEMMA FlushKeeps ==
  ASSUME IInv, Flush PROVE IInv'
  <1> DEFINE c == Head(writes)[1]
             v == Head(writes)[2]
  <1>1. /\ writes # <<>> /\ process = "running"
        /\ disk' = [disk EXCEPT ![c] = v] /\ writes' = Tail(writes)
        /\ \/ writes' = <<>> /\ job.op = "flush" /\ job' = NoJob /\ saved' = disk'
           \/ ~(writes' = <<>> /\ job.op = "flush") /\ UNCHANGED <<job, saved>>
        /\ UNCHANGED <<fs, wd, cut, typed, process>>
    BY DEF Flush
  <1>2. /\ disk \in Image /\ TypeOK /\ Tree(fs) /\ Fits(fs, wd, job) /\ DiskOK
        /\ writes \in Seq(Cluster \X Contents)
    BY <1>1, Types DEF IInv
  <1>3. /\ Len(writes) \in Nat \ {0} /\ Head(writes) = writes[1]
        /\ Head(writes) \in Cluster \X Contents
        /\ writes' \in Seq(Cluster \X Contents) /\ Len(writes') = Len(writes) - 1
        /\ \A i \in 1 .. Len(writes') : writes'[i] = writes[i + 1]
    <2>1. Len(writes) \in Nat \ {0} /\ Head(writes) = writes[1]
      BY <1>1, <1>2, EmptySeq
    <2>2. QED
      BY <1>1, <1>2, <2>1, HeadTailProperties, ElementOfSeq
  <1>4. disk' \in Image /\ disk'[c] = v /\ \A x \in Cluster \ {c} : disk'[x] = disk[x]
    BY <1>1, <1>2, <1>3 DEF Image
  <1>5. TypeOK'
    <2>1. job' \in Job /\ saved' \in Image
      BY <1>1, <1>2, <1>4, NoJobIs DEF TypeOK, Image
    <2>2. QED
      BY <1>1, <1>2, <1>3, <1>4, <2>1 DEF TypeOK, Image
  <1>6. (Tree(fs) /\ Fits(fs, wd, job))'
    <2>1. CASE job' = job
      BY <1>1, <1>2, <2>1 DEF Fits
    <2>2. CASE job' = NoJob
      BY <1>1, <1>2, <2>2, NoJobIs DEF Fits
    <2>3. QED
      BY <1>1, <2>1, <2>2
  <1>7. DiskOK'
    <2>1. job' = NoJob => writes' = <<>>
      BY <1>1, <1>2 DEF DiskOK
    <2>2. ASSUME NEW x \in Cluster, Agrees(writes, fs, x, 1)
          PROVE  Agrees(writes', fs, x, 1)
      BY <1>3, <2>2 DEF Agrees
    <2>3. ASSUME NEW x \in Cluster
          PROVE  \/ Settled(writes', fs, x)
                 \/ disk'[x] = fs[x] /\ Agrees(writes', fs, x, 1)
                 \/ job'.op = "part" /\ x = job'.at
      <3>1. CASE Settled(writes, fs, x)
        <4>1. PICK i \in 1 .. Len(writes) : writes[i] = <<x, fs[x]>> /\ Agrees(writes, fs, x, i)
          BY <3>1 DEF Settled
        <4>2. CASE i = 1
          BY <1>3, <1>4, <2>2, <4>1, <4>2
        <4>3. CASE i # 1
          <5> DEFINE k == i - 1
          <5>0. k \in 1 .. Len(writes') /\ k + 1 = i
            BY <1>3, <4>1, <4>3
          <5>1. k \in 1 .. Len(writes') /\ writes'[k] = <<x, fs[x]>>
            <6> HIDE DEF k
            <6>1. writes'[k] = writes[i]
              BY <1>3, <5>0
            <6>2. QED
              BY <4>1, <5>0, <6>1
          <5>2. Agrees(writes', fs, x, i - 1)
            BY <1>3, <4>1, <4>3 DEF Agrees
          <5>3. QED
            BY <5>1, <5>2 DEF Settled
        <4>4. QED
          BY <4>2, <4>3
      <3>2. CASE disk[x] = fs[x] /\ Agrees(writes, fs, x, 1)
        <4>1. disk'[x] = fs[x]
          <5>1. CASE x = c
            BY <1>3, <1>4, <3>2, <5>1 DEF Agrees
          <5>2. CASE x # c
            BY <1>4, <3>2, <5>2
          <5>3. QED
            BY <5>1, <5>2
        <4>2. QED
          BY <2>2, <3>2, <4>1
      <3>3. CASE job.op = "part" /\ x = job.at
        BY <1>1, <3>3
      <3>4. QED
        BY <1>2, <3>1, <3>2, <3>3 DEF DiskOK
    <2>4. QED
      BY <1>1, <2>1, <2>3 DEF DiskOK, Settled, Agrees
  <1>8. QED
    BY <1>1, <1>5, <1>6, <1>7 DEF IInv

(* Every step keeps the invariant.                                         *)
LEMMA StepKeeps ==
  ASSUME IInv, [Next]_vars PROVE IInv'
  <1>1. CASE UNCHANGED vars
    BY <1>1 DEF vars, IInv, TypeOK, Fits, DiskOK, Settled, Agrees, NoJob
  <1>2. CASE Next
    BY <1>2, CdKeeps, MkdirKeeps, RmKeeps, LoadKeeps, MvKeeps, CpKeeps, ExtractKeeps,
       RmStepKeeps, LoadCreateKeeps, LoadPartKeeps, CpStepKeeps, FlushKeeps, RestartKeeps
       DEF Next
  <1>3. QED
    BY <1>1, <1>2

(* The invariant holds in every state.                                     *)
THEOREM Invariant == Spec => []IInv
  BY InitKeeps, StepKeeps, PTL DEF Spec

(* The variables keep their types.                                         *)
THEOREM Typing == Spec => []TypeOK
  <1>1. IInv => TypeOK
    BY DEF IInv
  <1>2. QED
    BY <1>1, Invariant, PTL

(* In the middle of a command too, the clusters in memory form one tree.   *)
THEOREM Sound == Spec => []TreeIsSound
  <1>1. IInv => TreeIsSound
    BY Types, WellFormedIsTree DEF IInv, TreeIsSound
  <1>2. QED
    BY <1>1, Invariant, PTL

(* Between two commands the image file holds what memory holds.            *)
THEOREM Durability == Spec => []Durable
  <1>1. IInv => Durable
    <2> SUFFICES ASSUME IInv, Ready PROVE fs = disk
      BY DEF Durable
    <2>1. /\ process = "running" /\ job = NoJob /\ writes = <<>> /\ job.op = "none"
          /\ fs \in Image /\ disk \in Image
      BY ReadyIs, Types DEF IInv
    <2>2. \A c \in Cluster : disk[c] = fs[c]
      BY <2>1 DEF IInv, DiskOK, Settled
    <2>3. QED
      BY <2>1, <2>2 DEF Image
  <1>2. QED
    BY <1>1, Invariant, PTL

-----------------------------------------------------------------------------
(***************************************************************************)
(* Comparing paths as text.                                                *)
(***************************************************************************)

(* s holds the names on a way from the root down to c.                     *)
Spells(m, c, s) ==
  /\ s \in Seq(Name)
  /\ \E at \in [0 .. Len(s) -> Cluster] :
       /\ at[0] = Root /\ at[Len(s)] = c
       /\ \A i \in 1 .. Len(s) : at[i] \in ToSet(m[at[i - 1]].subs) /\ m[at[i]].name = s[i]

(* No names lead to the root.                                              *)
LEMMA SpellsRoot ==
  ASSUME NEW m PROVE Spells(m, Root, <<>>)
  <1> DEFINE at == [i \in 0 .. 0 |-> Root]
             e == <<>>
  <1>1. e \in Seq(Name) /\ Len(e) = 0
    BY EmptySeq
  <1>2. at \in [0 .. 0 -> Cluster] /\ at[0] = Root
    BY Clusters
  <1> HIDE DEF at, e
  <1>3. Spells(m, Root, e)
    BY <1>1, <1>2 DEF Spells
  <1>4. QED
    BY <1>3 DEF e

(* The text of pwd leads to the working directory.                         *)
LEMMA SpellsPwd ==
  ASSUME fs \in Image, Tree(fs), wd \in Cluster, fs[wd].type = "DIRECTORY"
  PROVE  Spells(fs, wd, Pwd)
  <1>1. PICK way : /\ IsWay(fs, wd, way) /\ way[1] = Root
                   /\ Pwd \in Seq(Name) /\ Len(Pwd) = Len(way) - 1
                   /\ \A i \in 1 .. Len(way) - 1 : Pwd[i] = fs[way[i + 1]].name
    BY PwdIs
  <1>2. way \in Seq(Cluster) /\ Len(way) \in Nat \ {0} /\ way[Len(way)] = wd
    BY <1>1, EmptySeq DEF IsWay
  <1> DEFINE N == Len(Pwd)
             at == [i \in 0 .. N |-> way[i + 1]]
  <1>3. N \in Nat /\ Len(way) = N + 1
    BY <1>1, <1>2
  <1>4. at \in [0 .. N -> Cluster] /\ at[0] = Root /\ at[N] = wd
    <2>1. \A i \in 0 .. N : i + 1 \in 1 .. Len(way)
      BY <1>3
    <2>2. \A i \in 0 .. N : way[i + 1] \in Cluster
      BY <1>2, <2>1, ElementOfSeq
    <2>3. QED
      BY <1>1, <1>2, <1>3, <2>2
  <1>5. ASSUME NEW i \in 1 .. N
        PROVE  at[i] \in ToSet(fs[at[i - 1]].subs) /\ fs[at[i]].name = Pwd[i]
    <2>1. at[i] = way[i + 1] /\ at[i - 1] = way[i]
      BY <1>3
    <2>2. i \in 1 .. Len(way) - 1
      BY <1>3
    <2>3. QED
      BY <1>1, <2>1, <2>2 DEF IsWay
  <1> HIDE DEF at
  <1>6. QED
    BY <1>1, <1>4, <1>5 DEF Spells

(* Walking on by more names adds them.                                     *)
LEMMA SpellsWalk ==
  ASSUME NEW m \in Image, NEW d \in Cluster, NEW s, Spells(m, d, s),
         NEW names \in Seq(Name), Walk(m, d, names) # NONE
  PROVE  Spells(m, Walk(m, d, names), s \o names)
  <1> DEFINE K == Len(s)
             N == Len(names)
             t == s \o names
  <1>1. K \in Nat /\ N \in Nat /\ s \in Seq(Name)
    BY DEF Spells
  <1>2. PICK b \in [0 .. K -> Cluster] :
          /\ b[0] = Root /\ b[K] = d
          /\ \A i \in 1 .. K : b[i] \in ToSet(m[b[i - 1]].subs) /\ m[b[i]].name = s[i]
    BY DEF Spells
  <1>3. PICK u \in [0 .. N -> Below(m, d) \cup {NONE}] :
          /\ u[0] = d /\ u[N] = Walk(m, d, names)
          /\ \A n \in 1 .. N : u[n] = GetSubnode(m, u[n - 1], names[n])
    BY <1>1, WalkRun
  <1>4. Below(m, d) \subseteq Cluster
    BY BelowIs
  <1> HIDE DEF N
  <1>5. \A n \in 0 .. N : u[n] # NONE
    <2> DEFINE S == {k \in Nat : k <= N => u[N - k] # NONE}
    <2>1. 0 \in S
      BY <1>1, <1>3
    <2>2. ASSUME NEW k \in Nat, k \in S PROVE k + 1 \in S
      <3> SUFFICES ASSUME k + 1 <= N PROVE u[N - (k + 1)] # NONE
        OBVIOUS
      <3>1. N - k \in 1 .. N /\ (N - k) - 1 = N - (k + 1) /\ N - (k + 1) \in 0 .. N
        BY <1>1
      <3>2. u[N - k] # NONE /\ u[N - k] = GetSubnode(m, u[N - (k + 1)], names[N - k])
        BY <1>1, <1>3, <2>2, <3>1
      <3>3. u[N - (k + 1)] \in Cluster \cup {NONE}
        BY <1>3, <1>4, <3>1
      <3>4. u[N - (k + 1)] \in Cluster
        BY <3>2, <3>3, SubnodeIs
      <3>5. QED
        BY <3>4, Clusters
    <2> HIDE DEF S
    <2>3. Nat \subseteq S
      BY <2>1, <2>2, NatSet
    <2>4. QED
      <3> SUFFICES ASSUME NEW n \in 0 .. N PROVE u[n] # NONE
        OBVIOUS
      <3>1. N - n \in Nat /\ N - n <= N /\ N - (N - n) = n
        BY <1>1
      <3>2. N - n \in S
        BY <2>3, <3>1
      <3>3. QED
        BY <3>1, <3>2 DEF S
  <1>6. \A n \in 1 .. N : /\ u[n] \in ToSet(m[u[n - 1]].subs) /\ m[u[n]].name = names[n]
    <2> SUFFICES ASSUME NEW n \in 1 .. N
                 PROVE  u[n] \in ToSet(m[u[n - 1]].subs) /\ m[u[n]].name = names[n]
      OBVIOUS
    <2>1. n - 1 \in 0 .. N /\ n \in 0 .. N
      BY <1>1
    <2>2. u[n - 1] \in Cluster \cup {NONE} /\ GetSubnode(m, u[n - 1], names[n]) # NONE
          /\ u[n] = GetSubnode(m, u[n - 1], names[n])
      BY <1>3, <1>4, <1>5, <2>1
    <2>3. QED
      BY <2>2, SubnodeIs
  <1>7. \A n \in 0 .. N : u[n] \in Cluster
    BY <1>3, <1>4, <1>5
  <1> DEFINE at == [i \in 0 .. K + N |-> IF i <= K THEN b[i] ELSE u[i - K]]
  <1>8. /\ t \in Seq(Name) /\ Len(t) = K + N
        /\ \A i \in 1 .. K + N : t[i] = IF i <= K THEN s[i] ELSE names[i - K]
    BY <1>1, ConcatProperties DEF N
  <1> HIDE DEF t, K
  <1>9. at \in [0 .. K + N -> Cluster] /\ at[0] = Root /\ at[K + N] = Walk(m, d, names)
    <2>1. \A i \in 0 .. K + N : IF i <= K THEN i \in 0 .. K ELSE i - K \in 0 .. N
      BY <1>1
    <2>2. at \in [0 .. K + N -> Cluster]
      BY <1>2, <1>7, <2>1
    <2>3. at[0] = Root
      BY <1>1, <1>2
    <2>4. CASE N = 0
      BY <1>1, <1>2, <1>3, <2>4
    <2>5. CASE N # 0
      <3>1. K + N \in 0 .. K + N /\ ~(K + N <= K) /\ (K + N) - K = N
        BY <1>1, <2>5
      <3>2. QED
        BY <1>3, <2>2, <2>3, <3>1
    <2>6. QED
      BY <2>2, <2>3, <2>4, <2>5
  <1>10. ASSUME NEW i \in 1 .. K + N
         PROVE  at[i] \in ToSet(m[at[i - 1]].subs) /\ m[at[i]].name = t[i]
    <2>1. i \in 0 .. K + N /\ i - 1 \in 0 .. K + N
      BY <1>1
    <2>2. CASE i <= K
      <3>1. i \in 1 .. K /\ at[i] = b[i] /\ at[i - 1] = b[i - 1] /\ t[i] = s[i]
        BY <1>1, <1>8, <2>1, <2>2
      <3>2. QED
        BY <1>2, <3>1
    <2>3. CASE ~(i <= K)
      <3> DEFINE n == i - K
      <3>1. n \in 1 .. N /\ at[i] = u[n] /\ t[i] = names[n]
        BY <1>1, <1>8, <2>1, <2>3
      <3>2. at[i - 1] = u[n - 1]
        <4>1. CASE i - 1 = K
          <5>1. at[i - 1] = b[K] /\ n - 1 = 0
            BY <1>1, <2>1, <4>1
          <5>2. QED
            BY <1>2, <1>3, <5>1
        <4>2. CASE i - 1 # K
          BY <1>1, <2>1, <2>3, <4>2
        <4>3. QED
          BY <4>1, <4>2
      <3> HIDE DEF n
      <3>3. QED
        BY <1>6, <3>1, <3>2
    <2>4. QED
      BY <2>2, <2>3
  <1> HIDE DEF at
  <1>11. QED
    BY <1>8, <1>9, <1>10 DEF Spells, t

(* There is one way down to a cluster: the names that lead to what is      *)
(* below c begin with those that lead to c.                                *)
LEMMA SpellsBelow ==
  ASSUME NEW m \in Image, Tree(m), NEW c \in Cluster, NEW s, Spells(m, c, s),
         NEW d \in Below(m, c), NEW t, Spells(m, d, t)
  PROVE  Len(s) <= Len(t) /\ \A i \in 1 .. Len(s) : t[i] = s[i]
  <1> DEFINE Way(a, k, x) == /\ a \in [0 .. k -> Cluster] /\ a[0] = Root /\ a[k] = x
                             /\ \A i \in 1 .. k : a[i] \in ToSet(m[a[i - 1]].subs)
             K == Len(s)
  <1>1. K \in Nat /\ Len(t) \in Nat
    BY DEF Spells
  <1>2. PICK a : Way(a, K, c) /\ \A i \in 1 .. K : m[a[i]].name = s[i]
    BY DEF Spells
  <1>3. PICK b : Way(b, Len(t), d) /\ \A i \in 1 .. Len(t) : m[b[i]].name = t[i]
    BY DEF Spells
  <1> HIDE DEF K
  <1> DEFINE S == {x \in Cluster : \E k \in Nat : \E e : /\ k >= K /\ Way(e, k, x)
                                                     /\ \A i \in 0 .. K : e[i] = a[i]}
  <1>4. d \in S
    <2>1. c \in S
      BY <1>1, <1>2
    <2>2. ASSUME NEW x \in S, NEW y \in ToSet(m[x].subs) PROVE y \in S
      <3>0. PICK k \in Nat : \E e : k >= K /\ Way(e, k, x) /\ \A i \in 0 .. K : e[i] = a[i]
        OBVIOUS
      <3>1. PICK e : k >= K /\ Way(e, k, x) /\ \A i \in 0 .. K : e[i] = a[i]
        BY <3>0
      <3>2. y \in Cluster
        <4>1. m[x].subs \in Seq(Cluster)
          BY Fields
        <4>2. QED
          BY <4>1, Elements
      <3> DEFINE f == [i \in 0 .. k + 1 |-> IF i <= k THEN e[i] ELSE y]
      <3>3. f \in [0 .. k + 1 -> Cluster] /\ f[0] = Root /\ f[k + 1] = y
            /\ \A i \in 0 .. k : f[i] = e[i]
        BY <3>1, <3>2
      <3> HIDE DEF f
      <3>4. ASSUME NEW i \in 1 .. k + 1 PROVE f[i] \in ToSet(m[f[i - 1]].subs)
        <4>1. CASE i = k + 1
          <5>1. i - 1 = k /\ k \in 0 .. k
            BY <4>1
          <5>2. QED
            BY <3>1, <3>3, <4>1, <5>1
        <4>2. CASE i # k + 1
          <5>1. i \in 1 .. k /\ i \in 0 .. k /\ i - 1 \in 0 .. k
            BY <4>2
          <5>2. QED
            BY <3>1, <3>3, <5>1
        <4>3. QED
          BY <4>1, <4>2
      <3>5. Way(f, k + 1, y)
        BY <3>3, <3>4
      <3>6. \A i \in 0 .. K : f[i] = a[i]
        <4>1. \A i \in 0 .. K : i \in 0 .. k
          BY <1>1, <3>1
        <4>2. QED
          BY <3>1, <3>3, <4>1
      <3>7. k + 1 \in Nat /\ k + 1 >= K
        BY <1>1, <3>1
      <3> HIDE DEF Way
      <3>8. QED
        BY <3>2, <3>5, <3>6, <3>7
    <2>3. S \in SUBSET Cluster
      OBVIOUS
    <2> HIDE DEF S
    <2>4. QED
      BY <2>1, <2>2, <2>3, BelowIs
  <1>4a. PICK k \in Nat : \E e : k >= K /\ Way(e, k, d) /\ \A i \in 0 .. K : e[i] = a[i]
    BY <1>4
  <1>5. PICK e : k >= K /\ Way(e, k, d) /\ \A i \in 0 .. K : e[i] = a[i]
    BY <1>4a
  <1> DEFINE T == {n \in Nat : n <= k /\ n <= Len(t) => e[k - n] = b[Len(t) - n]}
             L == Len(t)
  <1>6. ASSUME NEW x \in Cluster, NEW y \in Cluster, NEW z,
               z \in ToSet(m[x].subs), z \in ToSet(m[y].subs)
        PROVE  x = y /\ z # Root
    <2>1. z \in Kids(m, x) /\ z \in Kids(m, y) /\ z \in Cluster
      BY <1>6, KidsType DEF Kids
    <2>2. QED
      BY <2>1 DEF Tree, TreeOwned
  <1>7. Nat \subseteq T
    <2> HIDE DEF L
    <2>1. 0 \in T
      BY <1>1, <1>3, <1>5
    <2>2. ASSUME NEW n \in Nat, n \in T PROVE n + 1 \in T
      <3> SUFFICES ASSUME n + 1 <= k, n + 1 <= L PROVE e[k - (n + 1)] = b[L - (n + 1)]
        BY DEF L
      <3>1. L \in Nat
        BY <1>1 DEF L
      <3>2. /\ k - n \in 1 .. k /\ (k - n) - 1 = k - (n + 1) /\ k - (n + 1) \in 0 .. k
            /\ L - n \in 1 .. L /\ (L - n) - 1 = L - (n + 1) /\ L - (n + 1) \in 0 .. L
        BY <3>1
      <3>3. e[k - n] = b[L - n]
        BY <2>2, <3>1 DEF L
      <3>4. e[k - n] \in ToSet(m[e[k - (n + 1)]].subs) /\ e[k - (n + 1)] \in Cluster
        BY <1>5, <3>2
      <3>5. b[L - n] \in ToSet(m[b[L - (n + 1)]].subs) /\ b[L - (n + 1)] \in Cluster
        BY <1>3, <3>2 DEF L
      <3> HIDE DEF Way
      <3>6. QED
        BY <1>6, <3>3, <3>4, <3>5
    <2> HIDE DEF T
    <2>3. QED
      BY <2>1, <2>2, NatSet
  <1>8. L \in Nat
    BY <1>1
  <1> HIDE DEF S
  <1>9. k = L
    <2>1. ASSUME k < L PROVE FALSE
      <3>1. k \in T
        BY <1>7
      <3>2. e[k - k] = b[L - k]
        BY <1>8, <2>1, <3>1
      <3>3. k - k = 0 /\ L - k \in 1 .. L /\ (L - k) - 1 \in 0 .. L
        BY <1>8, <2>1
      <3>4. b[L - k] \in ToSet(m[b[(L - k) - 1]].subs) /\ b[(L - k) - 1] \in Cluster
        BY <1>3, <3>3
      <3>5. b[L - k] = Root
        BY <1>5, <3>2, <3>3
      <3> HIDE DEF Way, T, L
      <3>6. QED
        BY <1>6, <3>4, <3>5
    <2>2. ASSUME L < k PROVE FALSE
      <3>1. L \in T
        BY <1>7, <1>8
      <3>2. e[k - L] = b[L - L]
        BY <1>8, <2>2, <3>1
      <3>3. L - L = 0 /\ k - L \in 1 .. k /\ (k - L) - 1 \in 0 .. k
        BY <1>8, <2>2
      <3>4. e[k - L] \in ToSet(m[e[(k - L) - 1]].subs) /\ e[(k - L) - 1] \in Cluster
        BY <1>5, <3>3
      <3>5. e[k - L] = Root
        BY <1>3, <3>2, <3>3
      <3> HIDE DEF Way, T, L
      <3>6. QED
        BY <1>6, <3>4, <3>5
    <2>3. QED
      BY <1>8, <2>1, <2>2
  <1>10. ASSUME NEW i \in 1 .. K PROVE t[i] = s[i]
    <2>1. i \in 0 .. K /\ k - i \in Nat /\ k - i <= k /\ k - i <= L /\ k - (k - i) = i
          /\ L - (k - i) = i /\ i \in 1 .. L
      BY <1>1, <1>5, <1>9
    <2>2. k - i \in T
      BY <1>7, <2>1
    <2>3. e[k - (k - i)] = b[L - (k - i)]
      BY <2>1, <2>2
    <2>4. e[i] = b[i] /\ e[i] = a[i]
      BY <1>5, <2>1, <2>3
    <2>5. QED
      BY <1>2, <1>3, <2>1, <2>4
  <1>11. QED
    BY <1>1, <1>5, <1>8, <1>9, <1>10 DEF K, L

(* Where names lead from the root.                                         *)
LEMMA SpellsNames ==
  ASSUME NEW m \in Image, NEW s \in Seq(Name), Walk(m, Root, s) # NONE
  PROVE  Spells(m, Walk(m, Root, s), s)
  <1>1. Spells(m, Walk(m, Root, s), <<>> \o s)
    BY Clusters, SpellsRoot, SpellsWalk
  <1>2. <<>> \o s = s
    BY ConcatEmptySeq
  <1>3. QED
    BY <1>1, <1>2

(* The text of a path begins with that of another: it is enough that its   *)
(* names do.                                                               *)
LEMMA StartsIs ==
  ASSUME NEW s \in Seq(Name), NEW t \in Seq(Name), Len(s) <= Len(t),
         \A i \in 1 .. Len(s) : t[i] = s[i]
  PROVE  Starts(t, s)
  BY DEF Starts

(* What rm_s lets pass when the path is plain and read as typed is not     *)
(* above the working directory.                                            *)
LEMMA TargetIsElsewhere ==
  ASSUME fs \in Image, Tree(fs), wd \in Cluster, fs[wd].type = "DIRECTORY",
         NEW p \in Path, Target(p, TRUE, Absolute(p).names) # NONE
  PROVE  wd \notin Below(fs, Target(p, TRUE, Absolute(p).names))
  <1> DEFINE s == Absolute(p).names
             x == Walk(fs, Root, s)
  <1>1. s \in Seq(Name)
    BY AbsoluteIs
  <1>2. ~Starts(Pwd, s) /\ Target(p, TRUE, s) = x /\ x # NONE
    BY DEF Target
  <1>3. x \in Cluster
    <2>1. Root \in Cluster /\ fs[Root].type = "DIRECTORY"
      BY Clusters DEF Tree, TreeRoot
    <2> HIDE DEF s
    <2>2. QED
      BY <1>1, <1>2, <2>1, WalkEntry
  <1> HIDE DEF s
  <1>4. Spells(fs, x, s)
    BY <1>1, <1>2, SpellsNames
  <1>5. Spells(fs, wd, Pwd) /\ Pwd \in Seq(Name)
    BY SpellsPwd DEF Spells
  <1> HIDE DEF x
  <1>6. ASSUME wd \in Below(fs, x) PROVE FALSE
    <2>1. Len(s) <= Len(Pwd) /\ \A i \in 1 .. Len(s) : Pwd[i] = s[i]
      BY <1>3, <1>4, <1>5, <1>6, SpellsBelow
    <2>2. QED
      BY <1>1, <1>2, <1>5, <2>1, StartsIs
  <1>7. QED
    BY <1>2, <1>6 DEF s

(* What mv lets pass when both paths are plain and read as typed is not    *)
(* moved below itself.                                                     *)
LEMMA MoveIsElsewhere ==
  ASSUME fs \in Image, Tree(fs), wd \in Cluster, fs[wd].type = "DIRECTORY",
         NEW p \in Path, NEW q \in Path, q.names # <<>>,
         Walk(fs, Start(p), p.names) # NONE,
         Walk(fs, Root, Front(Absolute(q).names)) # NONE,
         ~Starts(Absolute(q).names, Absolute(p).names)
  PROVE  Walk(fs, Root, Front(Absolute(q).names)) \notin Below(fs, Walk(fs, Start(p), p.names))
  <1> DEFINE s == Absolute(p).names
             t == Absolute(q).names
             c == Walk(fs, Start(p), p.names)
             d == Walk(fs, Root, Front(t))
  <1>1. s \in Seq(Name) /\ t \in Seq(Name) /\ t # <<>> /\ p.names \in Seq(Name)
    BY AbsoluteIs, PathNames
  <1>2. Start(p) \in Cluster /\ fs[Start(p)].type = "DIRECTORY"
    BY Clusters DEF Start, Tree, TreeRoot
  <1>3. c \in Cluster
    BY <1>1, <1>2, WalkEntry
  <1>4. Spells(fs, c, s)
    <2>1. CASE p.abs
      <3>1. s = p.names /\ Start(p) = Root
        BY <2>1, AbsoluteIs DEF Start
      <3> HIDE DEF s
      <3>2. QED
        BY <1>1, <3>1, SpellsNames
    <2>2. CASE ~p.abs
      <3>1. s = Pwd \o p.names /\ Start(p) = wd
        BY <2>2, AbsoluteIs DEF Start
      <3> HIDE DEF s
      <3>2. QED
        BY <1>1, <3>1, SpellsPwd, SpellsWalk
    <2>3. QED
      BY <2>1, <2>2
  <1> HIDE DEF s, t
  <1>5. Front(t) \in Seq(Name) /\ Len(Front(t)) = Len(t) - 1 /\ Len(t) \in Nat
        /\ \A i \in 1 .. Len(t) - 1 : Front(t)[i] = t[i]
    BY <1>1, FrontIs
  <1>6. d # NONE
    BY DEF t
  <1>7. Spells(fs, d, Front(t))
    BY <1>5, <1>6, SpellsNames
  <1> HIDE DEF c, d
  <1>8. ASSUME d \in Below(fs, c) PROVE FALSE
    <2>1. Len(s) <= Len(Front(t)) /\ \A i \in 1 .. Len(s) : Front(t)[i] = s[i]
      BY <1>3, <1>4, <1>7, <1>8, SpellsBelow
    <2>2. Len(s) <= Len(t) /\ \A i \in 1 .. Len(s) : t[i] = s[i]
      <3>1. Len(s) \in Nat
        BY <1>1
      <3>2. QED
        BY <1>5, <2>1, <3>1
    <2>3. Starts(t, s)
      BY <1>1, <2>2, StartsIs
    <2>4. QED
      BY <2>3 DEF s, t
  <1>9. QED
    BY <1>8 DEF c, d, t

(* A removal that stops inside what it removes was not typed so.           *)
LEMMA RemovalIsTyped ==
  ASSUME IInv, Ready, NEW p \in Path, NEW plain \in BOOLEAN, NEW t, NEW j,
         RemoveThen(Target(p, plain, t), j, plain /\ t = Absolute(p).names),
         process' # process
  PROVE  ~job'.asTyped
  <1> DEFINE x == Target(p, plain, t)
             asTyped == plain /\ t = Absolute(p).names
  <1>1. /\ fs \in Image /\ Tree(fs) /\ wd \in Cluster /\ fs[wd].type = "DIRECTORY"
        /\ job \in Job
    BY ReadyIs, Types DEF IInv, Fits
  <1>2. ~(x = NONE) /\ wd \in Below(fs, x) /\ Stop("removed", asTyped)
    BY DEF RemoveThen, Do
  <1>3. ~asTyped
    <2> SUFFICES ASSUME plain = TRUE, t = Absolute(p).names PROVE FALSE
      OBVIOUS
    <2>1. Target(p, TRUE, Absolute(p).names) = x
      OBVIOUS
    <2>2. QED
      BY <1>1, <1>2, <2>1, TargetIsElsewhere
  <1>4. job'.asTyped = asTyped
    BY <1>1, <1>2 DEF Stop, Job
  <1>5. QED
    BY <1>3, <1>4

(* rm.                                                                     *)
LEMMA RmIsTyped ==
  ASSUME IInv, Rm, process' # process PROVE ~job'.asTyped
  <1>1. Ready
    BY DEF Rm, Typed
  <1>2. PICK p \in Path, plain \in Spelling : \E t \in Read(Absolute(p)) :
          /\ Target(p, plain, t) # NONE
          /\ RemoveThen(Target(p, plain, t), NoJob, plain /\ t = Absolute(p).names)
    BY DEF Rm
  <1>3. PICK t \in Read(Absolute(p)) :
          /\ Target(p, plain, t) # NONE
          /\ RemoveThen(Target(p, plain, t), NoJob, plain /\ t = Absolute(p).names)
    BY <1>2
  <1>4. plain \in BOOLEAN
    BY DEF Spelling
  <1>5. QED
    BY <1>1, <1>3, <1>4, RemovalIsTyped

(* load.                                                                   *)
LEMMA LoadIsTyped ==
  ASSUME IInv, Load, process' \in {"removed", "cycle"}, process' # process PROVE ~job'.asTyped
  <1>1. Ready
    BY DEF Load, Typed
  <1> DEFINE there(p, s) == Walk(fs, Start(p), s)
             create(f, p, s) == [NoJob EXCEPT !.op = "create", !.src = f, !.over = there(p, s)]
             Begin(f, p, plain, s) ==
               IF there(p, s) = NONE
               THEN /\ Size[f] <= FreeBytes(fs)
                    /\ Do(fs, <<>>, [create(f, p, s) EXCEPT !.start = Start(p), !.path = s])
               ELSE IF Endless(fs, there(p, s)) THEN Stop("hung", TRUE)
               ELSE /\ Size[f] <= FreeBytes(fs) + FileSize(fs, there(p, s))
                    /\ \E t \in IF p.abs THEN {s} ELSE Read(Absolute(p)) :
                         RemoveThen(Target(p, plain, t),
                                    [create(f, p, s) EXCEPT !.start = Root, !.path = t],
                                    plain /\ t = Absolute(p).names)
  <1>2. PICK f \in Host, p \in Path, plain \in Spelling : \E s \in Read(p) : Begin(f, p, plain, s)
    BY DEF Load
  <1>3. PICK s \in Read(p) : Begin(f, p, plain, s)
    BY <1>2
  <1>4. \A j : ~Do(fs, <<>>, j)
    BY DEF Do
  <1>5. ~Stop("hung", TRUE)
    BY DEF Stop
  <1>6. PICK t : RemoveThen(Target(p, plain, t),
                            [create(f, p, s) EXCEPT !.start = Root, !.path = t],
                            plain /\ t = Absolute(p).names)
    <2> HIDE DEF create, there
    <2>1. QED
      BY <1>3, <1>4, <1>5
  <1>7. plain \in BOOLEAN
    BY DEF Spelling
  <1> HIDE DEF create, there
  <1>8. QED
    BY <1>1, <1>6, <1>7, RemovalIsTyped

(* mv.                                                                     *)
LEMMA MvIsTyped ==
  ASSUME IInv, Mv, process' \in {"removed", "cycle"}, process' # process PROVE ~job'.asTyped
  <1>1. Ready
    BY DEF Mv, Typed
  <1>2. /\ fs \in Image /\ Tree(fs) /\ wd \in Cluster /\ fs[wd].type = "DIRECTORY"
        /\ job \in Job
    BY <1>1, ReadyIs, Types DEF IInv, Fits
  <1> DEFINE moved(c, q, d) == [Listed(Unlisted(fs, c), d, c) EXCEPT ![c].name = Last(q.names)]
             Into(p, s, c, q, plain, d) ==
               LET exact == d = Walk(fs, Root, Front(Absolute(q).names)) /\ s = p.names
               IN  IF d \in Below(fs, c) THEN Stop("cycle", plain /\ exact)
                   ELSE IF fs[d].type = "FILE" THEN Stop("intoFile", TRUE)
                   ELSE Do(moved(c, q, d), Written(moved(c, q, d), <<c, d, fs[c].parent>>),
                           Flushing)
             To(p, s, c, q) ==
               \E plain \in Spelling :
                  /\ ~(plain /\ Starts(Absolute(q).names, Absolute(p).names))
                  /\ \E d \in Parents(Absolute(q)) : Into(p, s, c, q, plain, d)
  <1>3. PICK p \in Path : \E s \in Read(p) : \E c \in {Walk(fs, Start(p), s)} \cap Cluster :
          \E q \in Path : \E r \in Read(q) : Walk(fs, Start(q), r) = NONE /\ To(p, s, c, q)
    BY DEF Mv
  <1> HIDE DEF To
  <1>4. PICK s \in Read(p) : \E c \in {Walk(fs, Start(p), s)} \cap Cluster :
          \E q \in Path : \E r \in Read(q) : Walk(fs, Start(q), r) = NONE /\ To(p, s, c, q)
    BY <1>3
  <1>5. PICK c \in {Walk(fs, Start(p), s)} \cap Cluster, q \in Path :
          \E r \in Read(q) : Walk(fs, Start(q), r) = NONE /\ To(p, s, c, q)
    BY <1>4
  <1>6. PICK r \in Read(q) : Walk(fs, Start(q), r) = NONE /\ To(p, s, c, q)
    BY <1>5
  <1>7. PICK plain \in Spelling :
          /\ ~(plain /\ Starts(Absolute(q).names, Absolute(p).names))
          /\ \E d \in Parents(Absolute(q)) : Into(p, s, c, q, plain, d)
    BY <1>6 DEF To
  <1>8. PICK d \in Parents(Absolute(q)) : Into(p, s, c, q, plain, d)
    BY <1>7
  <1> DEFINE exact == d = Walk(fs, Root, Front(Absolute(q).names)) /\ s = p.names
  <1>9. d \in Below(fs, c) /\ Stop("cycle", plain /\ exact)
    BY <1>8 DEF Stop, Do
  <1>10. c \in Cluster /\ c = Walk(fs, Start(p), s) /\ c # NONE
    BY <1>5, Clusters
  <1>11. q.names # <<>>
    <2>1. q.names \in Seq(Name) /\ Start(q) \in Cluster
      BY <1>2, PathNames, Clusters DEF Start
    <2>2. r # <<>>
      BY <1>2, <1>6, <2>1, WalkIs, Clusters
    <2>3. QED
      BY <2>1, <2>2, ReadIs
  <1>12. ~(plain /\ exact)
    <2> SUFFICES ASSUME plain, d = Walk(fs, Root, Front(Absolute(q).names)), s = p.names
                 PROVE  FALSE
      OBVIOUS
    <2>1. d # NONE
      <3>1. d \in Cluster
        BY <1>2, <1>9, <1>10, BelowBelow
      <3>2. QED
        BY <3>1, Clusters
    <2>2. ~Starts(Absolute(q).names, Absolute(p).names)
      BY <1>7
    <2> HIDE DEF Into, exact
    <2>3. QED
      BY <1>2, <1>9, <1>10, <1>11, <2>1, <2>2, MoveIsElsewhere
  <1>13. job'.asTyped = (plain /\ exact)
    BY <1>2, <1>9 DEF Stop, Job
  <1>14. QED
    BY <1>12, <1>13

(* The other commands do not stop so.                                      *)
LEMMA OthersStop ==
  ASSUME Cd \/ Mkdir \/ Cp \/ Extract \/ RmStep \/ LoadCreate \/ LoadPart \/ CpStep \/ Flush \/ Restart
  PROVE  process' = process \/ process' \notin {"removed", "cycle"}
  <1>3. CASE Cd
    BY <1>3 DEF Cd
  <1>4. CASE Mkdir
    <2> DEFINE made(s, place) == Listed([fs EXCEPT ![place[2]].name = Last(s)],
                                        place[1], place[2])
               done(s, place) == [made(s, place) EXCEPT ![place[2]].type = "DIRECTORY",
                                                        ![place[2]].used = 0]
               Into(s, place) ==
                 IF fs[place[1]].type = "FILE" THEN Stop("intoFile", TRUE)
                 ELSE Do(done(s, place), Written(made(s, place), <<place[2], place[1]>>)
                                           \o Written(done(s, place), <<place[2]>>), Flushing)
    <2>1. PICK p \in Path : \E s \in Read(p) :
            \/ s = <<>> /\ Stop("failed", TRUE)
            \/ \E place \in Places(Start(p), s) : Into(s, place)
      BY <1>4 DEF Mkdir
    <2> HIDE DEF made, done
    <2>2. QED
      BY <2>1 DEF Do, Stop
  <1>5. CASE Cp
    BY <1>5 DEF Cp, Do, Stop
  <1>6. CASE Extract
    BY <1>6 DEF Extract, Stop
  <1>7. CASE RmStep
    BY <1>7 DEF RmStep, Do
  <1>8. CASE LoadCreate
    <2> DEFINE s == job.path
               made(place) == Listed([fs EXCEPT ![place[2]].name = Last(s)], place[1], place[2])
               read == AtMost(Size[job.src])
               done(place) == [made(place) EXCEPT ![place[2]].type = "FILE", ![place[2]].used = read,
                                 ![place[2]].next = NONE, ![place[2]].data = <<job.src, 1>>]
               begun(place) == Written(made(place), <<place[2], place[1]>>)
               Into(place) ==
                 IF fs[place[1]].type = "FILE" THEN Stop("intoFile", TRUE)
                 ELSE IF read < BlockSize
                 THEN Do(done(place), begun(place) \o Written(done(place), <<place[2]>>), Flushing)
                 ELSE Do(done(place), begun(place), [job EXCEPT !.op = "part", !.at = place[2]])
    <2>1. \/ Stop("failed", TRUE) \/ Finish
          \/ \E place \in Places(job.start, s) : Into(place)
      BY <1>8 DEF LoadCreate
    <2> HIDE DEF made, done, begun, read
    <2>2. QED
      BY <2>1 DEF Do, Stop, Finish
  <1>9. CASE LoadPart
    BY <1>9 DEF LoadPart, Finish, Do, Stop
  <1>10. CASE CpStep
    BY <1>10 DEF CpStep, Finish, Do, Stop
  <1>11. CASE Flush
    BY <1>11 DEF Flush
  <1>12. CASE Restart
    BY <1>12 DEF Restart
  <1>13. QED
    BY <1>3, <1>4, <1>5, <1>6, <1>7, <1>8, <1>9, <1>10, <1>11, <1>12

(* No command removes a directory the user is in, or moves one below       *)
(* itself, when the paths are plain and read as typed.                     *)
THEOREM GuardsSuffice == Spec => []TextGuardsSuffice
  <1>1. Init => TextGuardsSuffice
    BY DEF Init, TextGuardsSuffice
  <1>2. ASSUME IInv, TextGuardsSuffice, [Next]_vars PROVE TextGuardsSuffice'
    <2> SUFFICES ASSUME process' \in {"removed", "cycle"} PROVE ~job'.asTyped
      BY DEF TextGuardsSuffice
    <2>1. CASE UNCHANGED vars
      BY <1>2, <2>1 DEF vars, TextGuardsSuffice
    <2>2. CASE Next /\ process' # process
      BY <1>2, <2>2, RmIsTyped, LoadIsTyped, MvIsTyped, OthersStop DEF Next
    <2>3. CASE Next /\ process' = process
      <3>1. process \in {"running", "failed", "hung"}
        BY <2>3 DEF Next, Cd, Mkdir, Rm, Load, Mv, Cp, Extract, RmStep, LoadCreate, LoadPart,
                    CpStep, Flush, Restart, Typed, Ready
      <3>2. QED
        BY <2>3, <3>1
    <2>4. QED
      BY <1>2, <2>1, <2>2, <2>3
  <1>3. QED
    BY <1>1, <1>2, Invariant, PTL DEF Spec

-----------------------------------------------------------------------------
(***************************************************************************)
(* What is read back, what is kept, and the space: the second invariant.   *)
(* It speaks of all the versions of a cluster: what memory holds of it,    *)
(* what the image file holds, and what is still to be written in between.  *)
(***************************************************************************)

(* The versions of c where the image is m, the file dk, and the writes w   *)
(* are left.                                                               *)
VersionsOf(m, dk, w, c) ==
  {m[c], dk[c]} \cup {w[i][2] : i \in {j \in 1 .. Len(w) : w[j][1] = c}}

(* The versions of c now.                                                  *)
Versions(c) == VersionsOf(fs, disk, writes, c)

(* A cluster with data of a host file holds one block of it.               *)
DataFits(r) ==
  r.data # NoData =>
    /\ r.type = "FILE" /\ r.data[1] \in Host /\ r.data[2] \in Nat \ {0}
    /\ r.used = AtMost(Size[r.data[1]] - (r.data[2] - 1) * BlockSize)

(* The data of a copy.                                                     *)
CopiedData(r) == IF r.type = "DIRECTORY" THEN NoData ELSE r.data

(* s is the block after r, unless it is not written yet.                   *)
Follows(s, r) == s.type = "FILE" => s.data = <<r.data[1], r.data[2] + 1>>

(* c is the block that load or cp has yet to link to the next one.         *)
Filling(j, c) == j.op \in {"part", "copy"} /\ c = j.at

(* What is read back.  Every version of a cluster holds a block;           *)
BlocksFit == \A c \in Cluster : \A r \in Versions(c) : DataFits(r)

(* the next cluster of a file holds the next block;                        *)
BlocksFollow ==
  \A c \in Cluster : \A r \in Versions(c) :
    r.data # NoData /\ r.next # NONE => \A s \in Versions(r.next) : Follows(s, r)

(* what a directory lists holds the first block;                           *)
EntriesBegin ==
  \A d \in Cluster : \A r \in Versions(d) : \A c \in ToSet(r.subs) : \A s \in Versions(c) :
    s.data # NoData => s.data[2] = 1

(* where no command was ever cut the last block of a file is not full;     *)
FilesEnd ==
  cut = "no" =>
    \A c \in Cluster : fs[c].data # NoData /\ fs[c].next = NONE /\ ~Filling(job, c) =>
                         fs[c].used < BlockSize

(* cp has copied the block it is at, and never from the copy itself;       *)
CopyFits ==
  job.op = "copy" => /\ fs[job.at].data = CopiedData(fs[job.from])
                     /\ fs[job.at].data # NoData => job.from # job.at

(* load is at a block of the host file, which the image file does not hold *)
(* yet.                                                                    *)
PartFits ==
  job.op = "part" => /\ fs[job.at].data[1] = job.src /\ fs[job.at].data[2] \in Nat \ {0}
                     /\ \A r \in Versions(job.at) : r = fs[job.at] \/ r.type = "EMPTY"

(* The invariant of what is read back.                                     *)
ReadInv == BlocksFit /\ BlocksFollow /\ EntriesBegin /\ FilesEnd /\ CopyFits /\ PartFits

(* What load replaces is nothing, or a file that was removed for it.       *)
Meant == job.over = NONE \/ (saved[job.over].type = "FILE" /\ job.over \in job.touched)

(* What load takes has room in the image m.                                *)
Room(m, j) ==
  /\ j.op = "create" => Size[j.src] <= FreeBytes(m)
  /\ j.op = "part" => Size[j.src] <= FreeBytes(m) + m[j.at].data[2] * BlockSize
  /\ j.op = "rm" /\ j.src # NoHost =>
       \/ Size[j.src] <= FreeBytes(m)
       \/ /\ j.over \in Below(m, j.at) /\ m[j.over].type = "FILE"
          /\ Size[j.src] <= FreeBytes(m) + FileSize(m, j.over)

(* A cluster counts a block at most, a directory's entries included.       *)
AllSmall == \A c \in Cluster : \A r \in Versions(c) : r.used <= BlockSize

(* The invariant of the space.                                             *)
SpaceInv ==
  /\ AllSmall
  /\ job.op = "rm" /\ job.src # NoHost => job.over # NONE
  /\ process # "torn" /\ Meant => Room(fs, job)
  /\ process = "failed" /\ job.op = "part" => Empties(fs) = {}

(* Alike but for the name and the parent.                                  *)
Alike(r, s) ==
  /\ r.type = s.type /\ r.used = s.used /\ r.next = s.next /\ r.subs = s.subs
  /\ r.data = s.data

(* The clusters T are a branch of the tree m.                              *)
Branch(m, T) ==
  /\ Root \notin T
  /\ \A x \in T : ToSet(m[x].subs) \subseteq T
  /\ \A x \in Cluster \ T : m[x].type = "FILE" => m[x].next \notin T

(* c is what it was when the command began: a directory, or that block.    *)
Remains(c) ==
  \A r \in Versions(c) : r.type = saved[c].type /\ (r.type = "FILE" => Alike(r, saved[c]))

(* Entry k of directory e stays there;                                     *)
Stays(k, e) == \A r \in Versions(e) : k \in ToSet(r.subs)

(* or it moves to a directory d, which gets it before e loses it: d is not *)
(* below k, every write of d lists k, and every write of e that does not   *)
(* comes after such a write.                                               *)
MovesTo(k, e, d) ==
  /\ d \in Cluster \ job.touched /\ saved[d].type = "DIRECTORY" /\ d \notin Below(saved, k)
  /\ k \in ToSet(disk[e].subs) \/ k \in ToSet(disk[d].subs)
  /\ \A i \in 1 .. Len(writes) : writes[i][1] = d => k \in ToSet(writes[i][2].subs)
  /\ \A i \in 1 .. Len(writes) : writes[i][1] = e =>
       \/ k \in ToSet(writes[i][2].subs) \/ k \in ToSet(disk[d].subs)
       \/ \E j \in 1 .. i - 1 : writes[j][1] = d

(* The move is under way: only its writes are left.                        *)
Moves(k, e) == job.op = "flush" /\ \E d \in Cluster : MovesTo(k, e, d)

(* Every entry that is not to be removed stays, k may move.                *)
EntriesStay(k) ==
  \A e \in Cluster \ job.touched : \A x \in ToSet(saved[e].subs) \ job.touched :
    Stays(x, e) \/ (x = k /\ Moves(x, e))

(* rm is at something it was told to remove, and finds nothing else.       *)
RmFits ==
  job.op = "rm" => /\ job.at \in job.touched
                   /\ \A x \in job.touched : Kids(fs, x) \subseteq job.touched

(* load and cp fill clusters that held nothing worth keeping.              *)
FillFits == job.op \in {"part", "copy"} => job.at \in job.touched \/ saved[job.at].type = "EMPTY"

(* The invariant of what is kept: outside the branch that the command is   *)
(* to remove, clusters remain and directories keep their entries.          *)
KeepInv ==
  /\ process # "torn" => Tree(saved)
  /\ job = NoJob => saved = disk
  /\ Branch(saved, job.touched)
  /\ \A c \in Cluster \ job.touched : saved[c].type # "EMPTY" => Remains(c)
  /\ \E k \in Cluster : EntriesStay(k)
  /\ RmFits /\ FillFits

(* The second invariant.                                                   *)
MoreInv == ReadInv /\ SpaceInv /\ KeepInv

(* The versions, one by one.                                               *)
LEMMA VersionsAre ==
  ASSUME NEW m, NEW dk, NEW w, NEW c
  PROVE  \A r : r \in VersionsOf(m, dk, w, c) <=>
           \/ r = m[c] \/ r = dk[c]
           \/ \E i \in 1 .. Len(w) : w[i][1] = c /\ w[i][2] = r
  BY DEF VersionsOf

(* They are clusters.                                                      *)
LEMMA VersionsType ==
  ASSUME NEW m \in Image, NEW dk \in Image, NEW w \in Seq(Cluster \X Contents),
         NEW c \in Cluster
  PROVE  VersionsOf(m, dk, w, c) \subseteq Contents
  <1>1. \A i \in 1 .. Len(w) : w[i] \in Cluster \X Contents
    BY ElementOfSeq
  <1>2. \A i \in 1 .. Len(w) : w[i][2] \in Contents
    BY <1>1
  <1>3. m[c] \in Contents /\ dk[c] \in Contents
    BY DEF Image
  <1>4. QED
    BY <1>2, <1>3, VersionsAre

(* The fields of what a cluster holds.                                     *)
LEMMA ContentsAre ==
  ASSUME NEW r \in Contents
  PROVE  /\ r.type \in Type /\ r.used \in Nat /\ r.next \in Cluster \cup {NONE}
         /\ r.subs \in Seq(Cluster) /\ r.data \in (Host \cup {NoHost}) \X Nat
         /\ r.data[1] \in Host \cup {NoHost} /\ r.data[2] \in Nat
         /\ r.type # "DIRECTORY" => r.subs = <<>> /\ ToSet(r.subs) = {}
         /\ ToSet(r.subs) \subseteq Cluster
  <1>1. /\ r.type \in Type /\ r.used \in Nat /\ r.next \in Cluster \cup {NONE}
        /\ r.subs \in Seq(Cluster) /\ r.data \in (Host \cup {NoHost}) \X Nat
        /\ r.type # "DIRECTORY" => r.subs = <<>>
    BY DEF Contents
  <1>2. r.data[1] \in Host \cup {NoHost} /\ r.data[2] \in Nat
    BY <1>1
  <1>3. ToSet(r.subs) \subseteq Cluster
    BY <1>1, Elements
  <1>4. QED
    BY <1>1, <1>2, <1>3, NoElements

(* Alike is what the property compares.                                    *)
LEMMA AlikeIs ==
  ASSUME NEW r \in Contents, NEW s \in Contents, Alike(r, s)
  PROVE  [r EXCEPT !.parent = 0, !.name = ""] = [s EXCEPT !.parent = 0, !.name = ""]
  BY DEF Alike, Contents

(* Where nothing is left to write there is one version, but of the block   *)
(* that load is about to link.                                             *)
LEMMA OneVersion ==
  ASSUME IInv, process = "running", writes = <<>>
  PROVE  /\ \A c \in Cluster : \A r : r \in Versions(c) <=> r = fs[c] \/ r = disk[c]
         /\ \A c \in Cluster : disk[c] = fs[c] \/ (job.op = "part" /\ c = job.at)
  <1>1. ASSUME NEW c \in Cluster
        PROVE  \A r : r \in Versions(c) <=> r = fs[c] \/ r = disk[c]
    <2>1. ~\E i \in 1 .. Len(writes) : TRUE
      OBVIOUS
    <2>2. QED
      BY <2>1, VersionsAre DEF Versions
  <1>2. \A c \in Cluster : ~Settled(writes, fs, c)
    BY DEF Settled
  <1>3. QED
    BY <1>1, <1>2 DEF IInv, DiskOK

(* A write that reaches the image file makes no new version.               *)
LEMMA FlushedVersions ==
  ASSUME TypeOK, Flush, NEW c
  PROVE  Versions(c)' \subseteq Versions(c)
  <1>1. /\ writes # <<>> /\ writes \in Seq(Cluster \X Contents) /\ fs' = fs
        /\ disk' = [disk EXCEPT ![Head(writes)[1]] = Head(writes)[2]]
        /\ writes' = Tail(writes) /\ disk \in Image
    BY Types DEF Flush
  <1>2. /\ Len(writes) \in Nat \ {0} /\ Head(writes) = writes[1]
        /\ Len(writes') = Len(writes) - 1
        /\ \A i \in 1 .. Len(writes') : writes'[i] = writes[i + 1]
    BY <1>1, EmptySeq, HeadTailProperties
  <1>3. SUFFICES ASSUME NEW r \in Versions(c)' PROVE r \in Versions(c)
    OBVIOUS
  <1>4. \/ r = fs[c] \/ r = disk'[c]
        \/ \E i \in 1 .. Len(writes') : writes'[i][1] = c /\ writes'[i][2] = r
    <2>1. r \in VersionsOf(fs, disk', writes', c)
      BY <1>1, <1>3 DEF Versions
    <2>2. QED
      BY <2>1, VersionsAre
  <1>5. CASE r = fs[c]
    BY <1>5, VersionsAre DEF Versions
  <1>6. CASE r = disk'[c]
    <2>1. r = disk[c] \/ (writes[1][1] = c /\ writes[1][2] = r)
      BY <1>1, <1>2, <1>6 DEF Image
    <2>2. 1 \in 1 .. Len(writes)
      BY <1>2
    <2>3. QED
      BY <2>1, <2>2, VersionsAre DEF Versions
  <1>7. ASSUME NEW i \in 1 .. Len(writes'), writes'[i][1] = c, writes'[i][2] = r
        PROVE  r \in Versions(c)
    <2>1. i + 1 \in 1 .. Len(writes) /\ writes'[i] = writes[i + 1]
      BY <1>2
    <2>2. QED
      BY <1>7, <2>1, VersionsAre DEF Versions
  <1>8. QED
    BY <1>4, <1>5, <1>6, <1>7

-----------------------------------------------------------------------------
(***************************************************************************)
(* One step of a command: clusters E that were empty are filled, clusters  *)
(* G are emptied, entries M are moved.                                     *)
(***************************************************************************)

(* r is unused, and counts the bytes that s counts.                        *)
Unused(r, s) ==
  r.type = "EMPTY" /\ r.data = NoData /\ r.subs = <<>> /\ r.used = s.used

(* The clusters that are filled, which the command k may still be at.      *)
Taken(m, n, k, E) ==
  \A c \in E :
    /\ m[c].type = "EMPTY" /\ n[c].type # "EMPTY" /\ n[c].subs = <<>>
    /\ DataFits(n[c]) /\ n[c].used <= BlockSize
    /\ n[c].data # NoData => /\ n[c].next = NONE
                             /\ n[c].used < BlockSize \/ Filling(k, c)
    /\ \A d \in Cluster : c \in ToSet(n[d].subs) /\ n[c].data # NoData => n[c].data[2] = 1

(* The clusters that are neither filled nor emptied: a directory changes   *)
(* its entries, the block the command j is at is linked to the next.       *)
Others(m, n, j, E, G, M) ==
  \A c \in Cluster \ (E \cup G) :
    /\ n[c].type = m[c].type /\ n[c].data = m[c].data
    /\ m[c].type = "DIRECTORY" =>
         /\ ToSet(n[c].subs) \subseteq ToSet(m[c].subs) \cup E \cup M
         /\ ToSet(m[c].subs) \subseteq ToSet(n[c].subs) \cup G \cup M
    /\ m[c].type # "DIRECTORY" =>
         /\ n[c].used = m[c].used /\ n[c].subs = m[c].subs
         /\ ~Filling(j, c) => n[c].next = m[c].next
         /\ Filling(j, c) =>
              /\ n[c].next \in E
              /\ m[c].data # NoData =>
                   n[n[c].next].data = <<m[c].data[1], m[c].data[2] + 1>>

(* The writes w put into a cluster what memory holds at the end, or only   *)
(* the name of a new one.                                                  *)
Puts(m, n, w, E) ==
  \A i \in 1 .. Len(w) :
    \/ w[i][2] = n[w[i][1]]
    \/ w[i][1] \in E /\ Unused(w[i][2], m[w[i][1]])

(* The step: nothing else is written, and what load or cp goes on with is  *)
(* one of the new clusters.                                                *)
Does(E, G, M) ==
  /\ process = "running" /\ writes = <<>> /\ UNCHANGED <<disk, saved, cut, process>>
  /\ E \subseteq Cluster /\ G \subseteq Cluster /\ \A c \in M : Entry(fs, c)
  /\ Taken(fs, fs', job', E) /\ Others(fs, fs', job, E, G, M)
  /\ \A c \in G : Unused(fs'[c], fs[c])
  /\ Puts(fs, fs', writes', E)
  /\ job'.op \in {"part", "copy"} => job'.at \in E
  /\ job'.op = "part" => /\ fs'[job'.at].data[1] = job'.src
                         /\ fs'[job'.at].data[2] \in Nat \ {0}
  /\ job'.op = "copy" => /\ fs'[job'.at].data = CopiedData(fs'[job'.from])
                         /\ fs'[job'.at].data # NoData => job'.from # job'.at

(* What the clusters hold, or will hold, after the step.                   *)
LEMMA NewVersions ==
  ASSUME NEW E, NEW G, NEW M, Does(E, G, M), NEW c, NEW r, r \in Versions(c)'
  PROVE  r = disk[c] \/ r = fs'[c] \/ (c \in E /\ Unused(r, fs[c]))
  <1>1. r \in VersionsOf(fs', disk, writes', c)
    BY DEF Does, Versions
  <1>2. \/ r = fs'[c] \/ r = disk[c]
        \/ \E i \in 1 .. Len(writes') : writes'[i][1] = c /\ writes'[i][2] = r
    BY <1>1, VersionsAre
  <1>3. Puts(fs, fs', writes', E)
    BY DEF Does
  <1>4. QED
    BY <1>2, <1>3 DEF Puts

(* What the image file holds of them before it.                            *)
LEMMA OldVersions ==
  ASSUME IInv, PartFits, process = "running", writes = <<>>, NEW c \in Cluster
  PROVE  /\ fs[c] \in Versions(c) /\ disk[c] \in Versions(c)
         /\ \/ disk[c] = fs[c]
            \/ /\ disk[c].type = "EMPTY" /\ disk[c].subs = <<>>
               /\ job.op = "part" /\ c = job.at
  <1>1. /\ fs[c] \in Versions(c) /\ disk[c] \in Versions(c)
        /\ disk[c] = fs[c] \/ (job.op = "part" /\ c = job.at)
    BY OneVersion
  <1>2. disk \in Image
    BY Types DEF IInv
  <1>3. disk[c].type # "DIRECTORY" => disk[c].subs = <<>>
    BY <1>2, Fields
  <1>4. QED
    BY <1>1, <1>3 DEF PartFits

(* What refers to something refers to a cluster in use.                    *)
LEMMA RefersToUsed ==
  ASSUME NEW m \in Image, Tree(m), NEW c \in Cluster, NEW x
  PROVE  /\ x \in ToSet(m[c].subs) =>
              x \in Cluster /\ m[x].type # "EMPTY" /\ m[c].type = "DIRECTORY"
         /\ m[c].type = "FILE" /\ x = m[c].next /\ x # NONE => x \in Cluster /\ m[x].type = "FILE"
  <1>1. TreeOwned(m) /\ TreeFiles(m)
    BY DEF Tree
  <1>2. ASSUME x \in ToSet(m[c].subs)
        PROVE  x \in Cluster /\ m[x].type # "EMPTY" /\ m[c].type = "DIRECTORY"
    <2>1. x \in Kids(m, c) /\ x \in Cluster
      BY <1>2, KidsType DEF Kids
    <2>2. m[x].type # "EMPTY"
      BY <1>1, <2>1 DEF TreeOwned
    <2>3. m[c].type = "DIRECTORY"
      BY <1>2, Fields, NoElements
    <2>4. QED
      BY <2>1, <2>2, <2>3
  <1>3. ASSUME m[c].type = "FILE", x = m[c].next, x # NONE
        PROVE  x \in Cluster /\ m[x].type = "FILE"
    BY <1>1, <1>3, Fields DEF TreeFiles
  <1>4. QED
    BY <1>2, <1>3

(* A step leaves the blocks of files in order.                             *)
LEMMA DoesRead ==
  ASSUME IInv, IInv', ReadInv, NEW E, NEW G, NEW M, Does(E, G, M)
  PROVE  ReadInv'
  <1>1. /\ process = "running" /\ writes = <<>> /\ UNCHANGED <<disk, cut>>
        /\ E \subseteq Cluster /\ G \subseteq Cluster /\ \A c \in M : Entry(fs, c)
        /\ Taken(fs, fs', job', E) /\ Others(fs, fs', job, E, G, M)
        /\ \A c \in G : Unused(fs'[c], fs[c])
    BY DEF Does
  <1>2. /\ fs \in Image /\ fs' \in Image /\ disk \in Image /\ Tree(fs)
    <2>1. disk \in Image /\ fs \in Image /\ Tree(fs) /\ fs \in [Cluster -> Contents]
      BY <1>1, Types DEF IInv, TypeOK
    <2>2. fs' \in [Cluster -> Contents]
      BY DEF IInv, TypeOK
    <2>3. QED
      BY <2>1, <2>2 DEF Image
  <1>3. /\ BlocksFit /\ BlocksFollow /\ EntriesBegin /\ FilesEnd /\ CopyFits /\ PartFits
    BY DEF ReadInv
  <1>4. ASSUME NEW c \in Cluster
        PROVE  /\ fs[c] \in Versions(c) /\ disk[c] \in Versions(c)
               /\ \/ disk[c] = fs[c]
                  \/ /\ disk[c].type = "EMPTY" /\ disk[c].subs = <<>>
                     /\ job.op = "part" /\ c = job.at
               /\ DataFits(fs[c]) /\ DataFits(disk[c])
               /\ disk[c].data # NoData => disk[c] = fs[c]
    <2>1. /\ fs[c] \in Versions(c) /\ disk[c] \in Versions(c)
          /\ \/ disk[c] = fs[c]
             \/ /\ disk[c].type = "EMPTY" /\ disk[c].subs = <<>>
                /\ job.op = "part" /\ c = job.at
      BY <1>1, <1>3, OldVersions
    <2>2. DataFits(fs[c]) /\ DataFits(disk[c])
      BY <1>3, <2>1 DEF BlocksFit
    <2>3. disk[c].data # NoData => disk[c] = fs[c]
      BY <2>1, <2>2 DEF DataFits
    <2>4. QED
      BY <2>1, <2>2, <2>3
  <1>5. ASSUME NEW c \in Cluster, NEW r \in Versions(c)'
        PROVE  r = disk[c] \/ r = fs'[c] \/ (c \in E /\ Unused(r, fs[c]))
    BY NewVersions
  <1>6. ASSUME NEW c \in Cluster
        PROVE  DataFits(fs'[c])
    <2>1. CASE c \in E
      BY <1>1, <2>1 DEF Taken
    <2>2. CASE c \in G
      BY <1>1, <2>2 DEF Unused, DataFits
    <2>3. CASE c \notin E \cup G
      <3>1. /\ fs'[c].type = fs[c].type /\ fs'[c].data = fs[c].data
            /\ fs[c].type # "DIRECTORY" => fs'[c].used = fs[c].used
        BY <1>1, <2>3 DEF Others
      <3>2. DataFits(fs[c])
        BY <1>4
      <3>3. QED
        BY <3>1, <3>2 DEF DataFits
    <2>4. QED
      BY <2>1, <2>2, <2>3
  <1>7. BlocksFit'
    <2>1. SUFFICES ASSUME NEW c \in Cluster, NEW r \in Versions(c)' PROVE DataFits(r)
      BY DEF BlocksFit
    <2>2. CASE r = disk[c]
      BY <1>4, <2>2
    <2>3. CASE r = fs'[c]
      BY <1>6, <2>3
    <2>4. CASE Unused(r, fs[c])
      BY <2>4 DEF Unused, DataFits
    <2>5. QED
      BY <1>5, <2>2, <2>3, <2>4
  <1>8. ASSUME NEW c \in Cluster, fs[c].type = "FILE", NEW x, x = fs[c].next, x # NONE
        PROVE  x \in Cluster /\ x \notin E /\ fs[x].type = "FILE"
    <2>1. x \in Cluster /\ fs[x].type = "FILE"
      BY <1>2, <1>8, RefersToUsed
    <2>2. QED
      BY <1>1, <2>1 DEF Taken
  <1>9. ASSUME NEW x \in Cluster, x \notin E, NEW s \in Versions(x)', s.type = "FILE"
        PROVE  \E t \in Versions(x) : t.type = s.type /\ t.data = s.data
    <2>1. CASE s = disk[x]
      BY <1>4, <2>1
    <2>2. CASE s = fs'[x]
      <3>1. x \notin G
        BY <1>1, <1>9, <2>2 DEF Unused
      <3>2. fs'[x].type = fs[x].type /\ fs'[x].data = fs[x].data
        BY <1>1, <1>9, <3>1 DEF Others
      <3>3. QED
        BY <1>4, <2>2, <3>2
    <2>3. QED
      BY <1>5, <1>9, <2>1, <2>2
  <1>10. BlocksFollow'
    <2>1. SUFFICES ASSUME NEW c \in Cluster, NEW r \in Versions(c)', r.data # NoData, r.next # NONE,
                          NEW s \in Versions(r.next)'
                   PROVE  Follows(s, r)
      BY DEF BlocksFollow
    <2>2. ASSUME NEW q \in Versions(c), q = fs[c], q.type = "FILE", q.data = r.data, q.next = r.next
          PROVE  Follows(s, r)
      <3>1. r.next \in Cluster /\ r.next \notin E
        BY <1>8, <2>1, <2>2
      <3>2. SUFFICES ASSUME s.type = "FILE" PROVE s.data = <<r.data[1], r.data[2] + 1>>
        BY DEF Follows
      <3>3. PICK t \in Versions(r.next) : t.type = s.type /\ t.data = s.data
        BY <1>9, <2>1, <3>1, <3>2
      <3>4. Follows(t, q)
        BY <1>3, <2>1, <2>2, <3>3 DEF BlocksFollow
      <3>5. QED
        BY <2>2, <3>2, <3>3, <3>4 DEF Follows
    <2>3. CASE r = disk[c]
      <3>1. r = fs[c] /\ fs[c] \in Versions(c) /\ DataFits(fs[c])
        BY <1>4, <2>1, <2>3
      <3>2. QED
        BY <2>1, <2>2, <3>1 DEF DataFits
    <2>4. CASE r = fs'[c]
      <3>1. c \notin E
        BY <1>1, <2>1, <2>4 DEF Taken
      <3>2. c \notin G
        BY <1>1, <2>1, <2>4 DEF Unused
      <3>3. fs'[c].type = fs[c].type /\ fs'[c].data = fs[c].data
        BY <1>1, <3>1, <3>2 DEF Others
      <3>4. fs[c].type = "FILE" /\ fs[c] \in Versions(c)
        BY <1>4, <2>1, <2>4, <3>3 DEF DataFits
      <3>5. CASE ~Filling(job, c)
        <4>1. fs'[c].next = fs[c].next
          BY <1>1, <3>1, <3>2, <3>4, <3>5 DEF Others
        <4>2. QED
          BY <2>2, <2>4, <3>3, <3>4, <4>1
      <3>6. CASE Filling(job, c)
        <4>1. r.next \in E /\ fs'[r.next].data = <<r.data[1], r.data[2] + 1>>
          BY <1>1, <2>1, <2>4, <3>1, <3>2, <3>3, <3>4, <3>6 DEF Others
        <4>2. r.next \in Cluster /\ fs[r.next].type = "EMPTY"
          BY <1>1, <4>1 DEF Taken
        <4>3. disk[r.next].type = "EMPTY"
          BY <1>4, <4>2
        <4>4. s = fs'[r.next] \/ s.type = "EMPTY"
          BY <1>5, <2>1, <4>2, <4>3 DEF Unused
        <4>5. QED
          BY <4>1, <4>4 DEF Follows
      <3>7. QED
        BY <3>5, <3>6
    <2>5. CASE Unused(r, fs[c])
      BY <2>1, <2>5 DEF Unused
    <2>6. QED
      BY <1>5, <2>1, <2>3, <2>4, <2>5
  <1>11. ASSUME NEW c \in Cluster, NEW d \in Cluster, NEW q \in Versions(d), q = fs[d],
                c \in ToSet(q.subs), NEW s \in Versions(c)', s.data # NoData
         PROVE  s.data[2] = 1
    <2>1. fs[c].type # "EMPTY"
      BY <1>2, <1>11, RefersToUsed
    <2>2. c \notin E
      BY <1>1, <2>1 DEF Taken
    <2>3. s.type = "FILE"
      BY <1>7, <1>11 DEF BlocksFit, DataFits
    <2>4. PICK t \in Versions(c) : t.type = s.type /\ t.data = s.data
      BY <1>9, <1>11, <2>2, <2>3
    <2>5. QED
      BY <1>3, <1>11, <2>4 DEF EntriesBegin
  <1>12. EntriesBegin'
    <2>1. SUFFICES ASSUME NEW d \in Cluster, NEW r \in Versions(d)', NEW c \in ToSet(r.subs),
                          NEW s \in Versions(c)', s.data # NoData
                   PROVE  s.data[2] = 1
      BY DEF EntriesBegin
    <2>2. CASE r = disk[d]
      <3>1. r = fs[d] /\ fs[d] \in Versions(d)
        BY <1>4, <2>1, <2>2, NoElements
      <3>2. c \in Cluster
        BY <1>2, <2>1, <3>1, RefersToUsed
      <3>3. QED
        BY <1>11, <2>1, <3>1, <3>2
    <2>3. CASE r = fs'[d]
      <3>1. d \notin E /\ d \notin G
        BY <1>1, <2>1, <2>3, NoElements DEF Taken, Unused
      <3>2. fs[d].type = "DIRECTORY"
        <4>1. fs[d].type # "DIRECTORY" => fs'[d].subs = fs[d].subs
          BY <1>1, <3>1 DEF Others
        <4>2. QED
          BY <1>2, <2>1, <2>3, <4>1, RefersToUsed
      <3>3. c \in ToSet(fs[d].subs) \/ c \in E \/ c \in M
        BY <1>1, <2>1, <2>3, <3>1, <3>2 DEF Others
      <3>4. CASE c \in ToSet(fs[d].subs)
        <4>1. c \in Cluster /\ fs[d] \in Versions(d)
          BY <1>2, <1>4, <3>4, RefersToUsed
        <4>2. QED
          BY <1>11, <2>1, <3>4, <4>1
      <3>5. CASE c \in E
        <4>1. fs[c].type = "EMPTY" /\ c \in Cluster
          BY <1>1, <3>5 DEF Taken
        <4>2. disk[c].data = NoData
          BY <1>4, <4>1 DEF DataFits
        <4>3. s = fs'[c]
          BY <1>5, <2>1, <4>1, <4>2 DEF Unused
        <4>4. QED
          BY <1>1, <2>1, <2>3, <3>5, <4>3 DEF Taken
      <3>6. CASE c \in M
        <4>1. PICK e \in Cluster : c \in ToSet(fs[e].subs)
          BY <1>1, <3>6 DEF Entry
        <4>2. c \in Cluster /\ fs[e] \in Versions(e)
          BY <1>2, <1>4, <4>1, RefersToUsed
        <4>3. QED
          BY <1>11, <2>1, <4>1, <4>2
      <3>7. QED
        BY <3>3, <3>4, <3>5, <3>6
    <2>4. CASE Unused(r, fs[d])
      BY <2>1, <2>4, NoElements DEF Unused
    <2>5. QED
      BY <1>5, <2>1, <2>2, <2>3, <2>4
  <1>13. FilesEnd'
    <2>1. SUFFICES ASSUME cut = "no", NEW c \in Cluster, fs'[c].data # NoData,
                          fs'[c].next = NONE, ~Filling(job', c)
                   PROVE  fs'[c].used < BlockSize
      BY <1>1 DEF FilesEnd
    <2>2. CASE c \in E
      BY <1>1, <2>1, <2>2 DEF Taken
    <2>3. c \notin G
      BY <1>1, <2>1 DEF Unused
    <2>4. CASE c \notin E
      <3>1. fs'[c].type = fs[c].type /\ fs'[c].data = fs[c].data
        BY <1>1, <2>3, <2>4 DEF Others
      <3>2. fs[c].type = "FILE"
        BY <1>4, <2>1, <3>1 DEF DataFits
      <3>3. ~Filling(job, c)
        <4>1. Filling(job, c) => fs'[c].next \in E
          BY <1>1, <2>3, <2>4, <3>2 DEF Others
        <4>2. NONE \notin E
          BY <1>1, Clusters
        <4>3. QED
          BY <2>1, <4>1, <4>2
      <3>4. fs'[c].next = fs[c].next /\ fs'[c].used = fs[c].used
        BY <1>1, <2>3, <2>4, <3>2, <3>3 DEF Others
      <3>5. QED
        BY <1>3, <2>1, <3>1, <3>3, <3>4 DEF FilesEnd
    <2>5. QED
      BY <2>2, <2>4
  <1>14. CopyFits'
    BY DEF Does, CopyFits
  <1>15. PartFits'
    <2>1. SUFFICES ASSUME job'.op = "part", NEW r \in VersionsOf(fs', disk', writes', job'.at)
                   PROVE  /\ fs'[job'.at].data[1] = job'.src /\ fs'[job'.at].data[2] \in Nat \ {0}
                          /\ r = fs'[job'.at] \/ r.type = "EMPTY"
      <3>1. fs'[job'.at] \in VersionsOf(fs', disk', writes', job'.at)
        BY VersionsAre
      <3>2. QED
        BY <3>1 DEF PartFits, Versions
    <2>2. /\ fs'[job'.at].data[1] = job'.src /\ fs'[job'.at].data[2] \in Nat \ {0}
          /\ job'.at \in E
      BY <2>1 DEF Does
    <2>3. fs[job'.at].type = "EMPTY" /\ job'.at \in Cluster
      BY <1>1, <2>2 DEF Taken
    <2>4. disk[job'.at].type = "EMPTY"
      BY <1>4, <2>3
    <2>5. PICK b \in Cluster : b = job'.at
      BY <2>3
    <2>6. r \in Versions(b)'
      BY <2>1, <2>5 DEF Versions
    <2>7. QED
      BY <1>5, <2>2, <2>3, <2>4, <2>5, <2>6 DEF Unused
  <1>16. QED
    BY <1>7, <1>10, <1>12, <1>13, <1>14, <1>15 DEF ReadInv

(* A sequence without repetition is as long as its set at most.            *)
LEMMA ManyElements ==
  ASSUME NEW T, IsFiniteSet(T), NEW s \in Seq(T), IsInjective(s)
  PROVE  Len(s) <= Cardinality(T) /\ Len(s) \in Nat /\ Cardinality(T) \in Nat
  <1>1. Len(s) \in Nat /\ Cardinality(T) \in Nat /\ s \in [1 .. Len(s) -> T]
    BY FS_CardinalityType
  <1>2. IsFiniteSet(1 .. Len(s)) /\ Cardinality(1 .. Len(s)) = Len(s)
    <2>1. PICK n \in Nat : n = Len(s)
      BY <1>1
    <2>2. IsFiniteSet(1 .. n) /\ Cardinality(1 .. n) = n
      BY FS_Interval
    <2>3. QED
      BY <2>1, <2>2
  <1>3. SUFFICES ASSUME Cardinality(T) < Len(s) PROVE FALSE
    BY <1>1
  <1>4. \E x, y \in 1 .. Len(s) : x # y /\ s[x] = s[y]
    BY <1>1, <1>2, <1>3, FS_PigeonHole
  <1>5. QED
    BY <1>1, <1>4 DEF IsInjective

(* The count of a directory's entries is at most a block.                  *)
LEMMA DirectorySmall ==
  ASSUME NEW m \in Image, Tree(m), NEW c \in Cluster, m[c].type = "DIRECTORY"
  PROVE  m[c].used <= BlockSize
  <1>1. m[c].used = Len(m[c].subs) /\ IsInjective(m[c].subs)
    BY DEF Tree, TreeDirs
  <1>2. m[c].subs \in Seq(Cluster \ {Root})
    <2>1. m[c].subs \in Seq(Cluster)
      BY Fields
    <2>2. Root \notin ToSet(m[c].subs)
      BY Clusters DEF Tree, TreeOwned, Kids
    <2>3. \A i \in 1 .. Len(m[c].subs) : m[c].subs[i] \in Cluster \ {Root}
      BY <2>1, <2>2, Elements
    <2>4. QED
      BY <2>1, <2>3
  <1>3. IsFiniteSet(Cluster \ {Root}) /\ Cardinality(Cluster \ {Root}) = Count - 1
    BY Clusters, FS_RemoveElement
  <1>4. Len(m[c].subs) <= Count - 1
    BY <1>1, <1>2, <1>3, ManyElements
  <1>5. QED
    BY <1>1, <1>2, <1>4, DirectoriesFit, SizesAreNumbers

(* A step leaves no cluster with more than a block.                        *)
LEMMA DoesSmall ==
  ASSUME IInv, IInv', PartFits, AllSmall, NEW E, NEW G, NEW M, Does(E, G, M)
  PROVE  AllSmall'
  <1>1. /\ process = "running" /\ process' = process /\ writes = <<>>
        /\ E \subseteq Cluster /\ G \subseteq Cluster
        /\ Taken(fs, fs', job', E) /\ Others(fs, fs', job, E, G, M)
        /\ \A c \in G : Unused(fs'[c], fs[c])
    BY DEF Does
  <1>2. fs' \in Image /\ Tree(fs')
    <2>1. fs' \in [Cluster -> Contents]
      BY DEF IInv, TypeOK
    <2>2. Tree(fs')
      BY <1>1 DEF IInv
    <2>3. QED
      BY <2>1, <2>2 DEF Image
  <1>3. \A c \in Cluster : fs[c].used <= BlockSize /\ disk[c].used <= BlockSize
    BY <1>1, OldVersions DEF AllSmall
  <1>4. ASSUME NEW c \in Cluster
        PROVE  fs'[c].used <= BlockSize
    <2>1. CASE c \in E
      BY <1>1, <2>1 DEF Taken
    <2>2. CASE c \in G
      BY <1>1, <1>3, <2>2 DEF Unused
    <2>3. CASE c \notin E \cup G /\ fs[c].type = "DIRECTORY"
      <3>1. fs'[c].type = "DIRECTORY"
        BY <1>1, <2>3 DEF Others
      <3>2. QED
        BY <1>2, <3>1, DirectorySmall
    <2>4. CASE c \notin E \cup G /\ fs[c].type # "DIRECTORY"
      BY <1>1, <1>3, <2>4 DEF Others
    <2>5. QED
      BY <2>1, <2>2, <2>3, <2>4
  <1>5. SUFFICES ASSUME NEW c \in Cluster, NEW r \in Versions(c)' PROVE r.used <= BlockSize
    BY DEF AllSmall
  <1>6. r = disk[c] \/ r = fs'[c] \/ Unused(r, fs[c])
    BY NewVersions
  <1>7. QED
    BY <1>3, <1>4, <1>6 DEF Unused

(* A step that empties nothing but what it was told to, and moves nothing, *)
(* loses nothing else.                                                     *)
LEMMA DoesKeep ==
  ASSUME IInv, IInv', PartFits, KeepInv, NEW E, NEW G, Does(E, G, {}),
         G \subseteq job.touched, job.op # "flush",
         job'.touched = job.touched, job' # NoJob,
         job'.op = "rm" => /\ job.op = "rm" /\ job'.at = job.at
                           /\ \A x \in Cluster : Kids(fs', x) \subseteq Kids(fs, x)
  PROVE  KeepInv'
  <1>1. /\ process = "running" /\ writes = <<>> /\ UNCHANGED <<disk, saved, process>>
        /\ E \subseteq Cluster /\ G \subseteq Cluster
        /\ Taken(fs, fs', job', E) /\ Others(fs, fs', job, E, G, {})
        /\ \A c \in G : Unused(fs'[c], fs[c])
        /\ job'.op \in {"part", "copy"} => job'.at \in E
    BY DEF Does
  <1>2. /\ fs \in Image /\ Tree(fs) /\ saved \in Image
        /\ job \in Job /\ job.touched \in SUBSET Cluster
    BY <1>1, Types DEF IInv, Job
  <1>3. \A c \in Cluster : fs[c] \in Versions(c) /\ disk[c] \in Versions(c)
    BY <1>1, OldVersions
  <1>4. ASSUME NEW c \in Cluster, NEW r \in Versions(c)'
        PROVE  r = disk[c] \/ r = fs'[c] \/ (c \in E /\ Unused(r, fs[c]))
    BY NewVersions
  <1>5. ASSUME NEW c \in Cluster \ job.touched, saved[c].type # "EMPTY"
        PROVE  c \notin E /\ c \notin G /\ fs[c].type = saved[c].type /\ Remains(c)
    <2>1. Remains(c)
      BY <1>5 DEF KeepInv
    <2>2. fs[c].type = saved[c].type
      BY <1>3, <2>1 DEF Remains
    <2>3. QED
      BY <1>1, <1>5, <2>1, <2>2 DEF Taken
  <1>6. ASSUME NEW c \in Cluster \ job.touched, saved[c].type # "EMPTY"
        PROVE  Remains(c)'
    <2>1. c \notin E /\ c \notin G /\ fs[c].type = saved[c].type /\ Remains(c)
      BY <1>5, <1>6
    <2>2. SUFFICES ASSUME NEW r \in Versions(c)'
                   PROVE  r.type = saved[c].type /\ (r.type = "FILE" => Alike(r, saved[c]))
      BY <1>1 DEF Remains
    <2>3. CASE r = disk[c]
      BY <1>3, <2>1, <2>3 DEF Remains
    <2>4. CASE r = fs'[c]
      <3>1. fs'[c].type = fs[c].type /\ fs'[c].data = fs[c].data
        BY <1>1, <2>1 DEF Others
      <3>2. SUFFICES ASSUME fs[c].type = "FILE" PROVE Alike(fs'[c], saved[c])
        BY <2>1, <2>4, <3>1
      <3>3. ~Filling(job, c)
        BY <1>6, <3>2 DEF KeepInv, FillFits, Filling
      <3>4. /\ fs'[c].used = fs[c].used /\ fs'[c].subs = fs[c].subs /\ fs'[c].next = fs[c].next
        BY <1>1, <2>1, <3>2, <3>3 DEF Others
      <3>5. Alike(fs[c], saved[c])
        BY <1>3, <2>1, <3>2 DEF Remains
      <3>6. QED
        BY <3>1, <3>4, <3>5 DEF Alike
    <2>5. QED
      BY <1>4, <2>1, <2>3, <2>4
  <1>7. \A k, e : ~Moves(k, e)
    BY DEF Moves
  <1>8. PICK k \in Cluster : EntriesStay(k)
    BY DEF KeepInv
  <1>9. ASSUME NEW e \in Cluster \ job.touched, NEW x \in ToSet(saved[e].subs) \ job.touched
        PROVE  Stays(x, e)'
    <2>1. Stays(x, e)
      BY <1>7, <1>8, <1>9 DEF EntriesStay
    <2>2. x \in ToSet(fs[e].subs) /\ x \in ToSet(disk[e].subs)
      BY <1>3, <2>1 DEF Stays
    <2>3. fs[e].type = "DIRECTORY"
      BY <1>2, <2>2, RefersToUsed
    <2>4. e \notin E /\ e \notin G
      BY <1>1, <1>9, <2>3 DEF Taken
    <2>5. x \in ToSet(fs'[e].subs)
      BY <1>1, <1>9, <2>2, <2>3, <2>4 DEF Others
    <2>6. SUFFICES ASSUME NEW r \in Versions(e)' PROVE x \in ToSet(r.subs)
      BY DEF Stays
    <2>7. QED
      BY <1>4, <2>2, <2>4, <2>5
  <1>10. EntriesStay(k)'
    BY <1>1, <1>9 DEF EntriesStay
  <1>11. RmFits'
    <2>1. SUFFICES ASSUME job'.op = "rm"
                   PROVE  /\ job'.at \in job'.touched
                          /\ \A x \in job'.touched : Kids(fs', x) \subseteq job'.touched
      BY DEF RmFits
    <2>2. job.at \in job.touched /\ \A x \in job.touched : Kids(fs, x) \subseteq job.touched
      BY <2>1 DEF KeepInv, RmFits
    <2>3. QED
      BY <1>2, <2>1, <2>2
  <1>12. FillFits'
    <2>1. SUFFICES ASSUME job'.op \in {"part", "copy"}
                   PROVE  job'.at \in job.touched \/ saved[job'.at].type = "EMPTY"
      BY <1>1 DEF FillFits
    <2>2. job'.at \in E /\ job'.at \in Cluster
      BY <1>1, <2>1
    <2>3. QED
      BY <1>5, <2>2
  <1>13. /\ (process # "torn" => Tree(saved))' /\ (job = NoJob => saved = disk)'
         /\ Branch(saved, job.touched)'
    BY <1>1 DEF KeepInv, Branch
  <1>14. \A c \in Cluster \ job'.touched : saved'[c].type # "EMPTY" => Remains(c)'
    BY <1>1, <1>6
  <1>15. QED
    BY <1>10, <1>11, <1>12, <1>13, <1>14 DEF KeepInv

-----------------------------------------------------------------------------
(***************************************************************************)
(* The other steps: a write reaches the image file, a command ends, stops, *)
(* or is cut.                                                              *)
(***************************************************************************)

(* Where no cluster gets a new version, blocks fit and follow as before.   *)
LEMMA FewerVersions ==
  ASSUME \A c : Versions(c)' \subseteq Versions(c)
  PROVE  /\ BlocksFit => BlocksFit'
         /\ BlocksFollow => BlocksFollow'
         /\ EntriesBegin => EntriesBegin'
         /\ AllSmall => AllSmall'
  <1>1. ASSUME BlocksFit PROVE BlocksFit'
    BY <1>1 DEF BlocksFit
  <1>2. ASSUME BlocksFollow PROVE BlocksFollow'
    <2>1. SUFFICES ASSUME NEW c \in Cluster, NEW r \in Versions(c)', r.data # NoData, r.next # NONE,
                          NEW s \in Versions(r.next)'
                   PROVE  Follows(s, r)
      BY DEF BlocksFollow
    <2>2. r \in Versions(c) /\ s \in Versions(r.next)
      OBVIOUS
    <2>3. QED
      BY <1>2, <2>1, <2>2 DEF BlocksFollow
  <1>3. ASSUME EntriesBegin PROVE EntriesBegin'
    <2>1. SUFFICES ASSUME NEW d \in Cluster, NEW r \in Versions(d)', NEW c \in ToSet(r.subs),
                          NEW s \in Versions(c)', s.data # NoData
                   PROVE  s.data[2] = 1
      BY DEF EntriesBegin
    <2>2. r \in Versions(d) /\ s \in Versions(c)
      OBVIOUS
    <2>3. QED
      BY <1>3, <2>1, <2>2 DEF EntriesBegin
  <1>4. ASSUME AllSmall PROVE AllSmall'
    BY <1>4 DEF AllSmall
  <1>5. QED
    BY <1>1, <1>2, <1>3, <1>4

(* A command that goes on, or stops, with memory as it is.                 *)
SameJob ==
  /\ job'.op = job.op /\ job'.at = job.at /\ job'.from = job.from /\ job'.src = job.src
  /\ job'.over = job.over /\ job'.touched = job.touched

(* It reads back as much, and takes no more room.                          *)
LEMMA SameReads ==
  ASSUME ReadInv, SpaceInv, UNCHANGED <<fs, saved, cut>>, SameJob,
         \A c : Versions(c)' \subseteq Versions(c),
         process' = process \/ process = "running",
         process' = "failed" /\ job.op = "part" => Empties(fs) = {}
  PROVE  ReadInv' /\ SpaceInv'
  <1>1. BlocksFit' /\ BlocksFollow' /\ EntriesBegin' /\ AllSmall'
    BY FewerVersions DEF ReadInv, SpaceInv
  <1>2. FilesEnd' /\ CopyFits'
    BY DEF ReadInv, FilesEnd, CopyFits, SameJob, Filling
  <1>3. PartFits'
    <2>1. SUFFICES ASSUME job'.op = "part", NEW r \in Versions(job.at)'
                   PROVE  /\ fs[job.at].data[1] = job.src /\ fs[job.at].data[2] \in Nat \ {0}
                          /\ r = fs[job.at] \/ r.type = "EMPTY"
      <3>1. fs'[job'.at] \in VersionsOf(fs', disk', writes', job'.at)
        BY VersionsAre
      <3>2. QED
        BY <3>1 DEF PartFits, Versions, SameJob
    <2>2. r \in VersionsOf(fs', disk', writes', job.at)
      BY <2>1 DEF Versions, SameJob
    <2>3. \A c : VersionsOf(fs', disk', writes', c) \subseteq Versions(c)
      BY DEF Versions
    <2>4. r \in Versions(job.at)
      BY <2>2, <2>3
    <2>5. QED
      BY <2>1, <2>4 DEF ReadInv, PartFits, SameJob
  <1>4. (job.op = "rm" /\ job.src # NoHost => job.over # NONE)'
    BY DEF SpaceInv, SameJob
  <1>5. (process # "torn" /\ Meant => Room(fs, job))'
    BY DEF SpaceInv, SameJob, Meant, Room
  <1>6. (process = "failed" /\ job.op = "part" => Empties(fs) = {})'
    BY DEF SameJob
  <1>7. QED
    BY <1>1, <1>2, <1>3, <1>4, <1>5, <1>6 DEF ReadInv, SpaceInv

(* No command is left.                                                     *)
LEMMA NoJobReads ==
  ASSUME ReadInv, SpaceInv, job' = NoJob, FilesEnd',
         \A c : Versions(c)' \subseteq Versions(c)
  PROVE  ReadInv' /\ SpaceInv'
  <1>1. BlocksFit' /\ BlocksFollow' /\ EntriesBegin' /\ AllSmall'
    BY FewerVersions DEF ReadInv, SpaceInv
  <1>2. job'.op = "none"
    BY NoJobIs
  <1>3. CopyFits' /\ PartFits'
    BY <1>2 DEF CopyFits, PartFits
  <1>4. Room(fs, job)'
    BY <1>2 DEF Room
  <1>5. QED
    BY <1>1, <1>2, <1>3, <1>4 DEF ReadInv, SpaceInv

(* And it loses nothing.                                                   *)
LEMMA SameKeeps ==
  ASSUME KeepInv, UNCHANGED <<fs, disk, writes, saved>>, SameJob,
         process' # "torn" => process # "torn", job' = NoJob => job = NoJob
  PROVE  KeepInv'
  <1>1. \A c : Versions(c)' = Versions(c)
    BY DEF Versions
  <1>2. ASSUME NEW c PROVE Remains(c)' <=> Remains(c)
    BY <1>1 DEF Remains
  <1>3. ASSUME NEW x, NEW e PROVE Stays(x, e)' <=> Stays(x, e)
    BY <1>1 DEF Stays
  <1>4. ASSUME NEW x, NEW e PROVE Moves(x, e)' <=> Moves(x, e)
    BY DEF Moves, MovesTo, SameJob
  <1>5. PICK k \in Cluster : EntriesStay(k)
    BY DEF KeepInv
  <1>6. EntriesStay(k)'
    BY <1>3, <1>4, <1>5 DEF EntriesStay, SameJob
  <1>7. \A c \in Cluster \ job'.touched : saved'[c].type # "EMPTY" => Remains(c)'
    BY <1>2 DEF KeepInv, SameJob
  <1>8. /\ (process # "torn" => Tree(saved))' /\ (job = NoJob => saved = disk)'
        /\ Branch(saved, job.touched)'
        /\ RmFits' /\ FillFits'
    BY DEF KeepInv, RmFits, FillFits, SameJob, Branch
  <1>9. QED
    BY <1>6, <1>7, <1>8 DEF KeepInv

(* Between two commands nothing can be lost.                               *)
AtRest ==
  /\ fs = disk /\ saved = disk /\ writes = <<>> /\ job = NoJob
  /\ TypeOK /\ (process # "torn" => Tree(fs))

(* In such a state the third part holds.                                   *)
LEMMA RestKeeps == AtRest => KeepInv
  <1> SUFFICES ASSUME AtRest PROVE KeepInv
    OBVIOUS
  <1>1. /\ fs = disk /\ saved = disk /\ writes = <<>> /\ job = NoJob
        /\ (process # "torn" => Tree(fs)) /\ job.touched = {} /\ job.op = "none"
    BY NoJobIs DEF AtRest
  <1>2. \A c, r : r \in Versions(c) => r = saved[c]
    <2>1. ~\E i \in 1 .. Len(writes) : TRUE
      BY <1>1
    <2>2. QED
      BY <1>1, <2>1, VersionsAre DEF Versions
  <1>3. \A c : Remains(c)
    BY <1>2 DEF Remains, Alike
  <1>4. \A e, x : x \in ToSet(saved[e].subs) => Stays(x, e)
    BY <1>2 DEF Stays
  <1>5. Root \in Cluster /\ EntriesStay(Root)
    BY <1>4, Clusters DEF EntriesStay
  <1>6. Branch(saved, job.touched)
    BY <1>1 DEF Branch
  <1>7. QED
    BY <1>1, <1>3, <1>5, <1>6 DEF KeepInv, RmFits, FillFits

(* In the next one too.                                                    *)
LEMMA RestKeepsThen == AtRest' => KeepInv'
  BY RestKeeps, PTL

(* The next command finds nothing left to write.                           *)
LEMMA NoJobRests ==
  ASSUME IInv', process' = "running", job' = NoJob, saved' = disk'
  PROVE  AtRest'
  <1>1. writes' = <<>>
    BY DEF IInv, DiskOK
  <1>2. \A c \in Cluster : ~Settled(writes', fs', c)
    BY <1>1 DEF Settled
  <1>3. job'.op = "none"
    BY NoJobIs
  <1>4. \A c \in Cluster : disk'[c] = fs'[c]
    BY <1>2, <1>3 DEF IInv, DiskOK
  <1>5. fs' \in [Cluster -> Contents] /\ disk' \in [Cluster -> Contents]
    BY DEF IInv, TypeOK
  <1>6. fs' = disk'
    BY <1>4, <1>5
  <1>7. QED
    BY <1>1, <1>6 DEF IInv, AtRest

(* A write that reaches the image file loses nothing: what moves is listed *)
(* in its new directory before it is not in the old one any more.          *)
LEMMA FlushMoves ==
  ASSUME TypeOK, Flush, job' = job, NEW k, NEW e \in Cluster, Moves(k, e)
  PROVE  Moves(k, e)'
  <1> DEFINE h == Head(writes)[1]
             v == Head(writes)[2]
  <1>1. /\ writes # <<>> /\ writes \in Seq(Cluster \X Contents) /\ saved' = saved
        /\ disk' = [disk EXCEPT ![h] = v] /\ writes' = Tail(writes)
        /\ disk \in Image /\ job \in Job
    <2>1. IF writes' = <<>> /\ job.op = "flush" THEN job' = NoJob /\ saved' = disk'
          ELSE UNCHANGED <<job, saved>>
      BY DEF Flush
    <2>2. job.op = "flush"
      BY DEF Moves
    <2>3. saved' = saved
      BY <2>1, <2>2, NoJobIs
    <2>4. QED
      BY <2>3, Types DEF Flush
  <1>2. /\ Len(writes) \in Nat \ {0} /\ Head(writes) = writes[1]
        /\ Len(writes') = Len(writes) - 1
        /\ \A i \in 1 .. Len(writes') : writes'[i] = writes[i + 1] /\ i + 1 \in 1 .. Len(writes)
        /\ 1 \in 1 .. Len(writes)
    BY <1>1, EmptySeq, HeadTailProperties
  <1>3. PICK d \in Cluster : MovesTo(k, e, d)
    BY DEF Moves
  <1>4. /\ d \in Cluster \ job.touched /\ saved[d].type = "DIRECTORY" /\ d \notin Below(saved, k)
        /\ k \in ToSet(disk[e].subs) \/ k \in ToSet(disk[d].subs)
        /\ \A i \in 1 .. Len(writes) : writes[i][1] = d => k \in ToSet(writes[i][2].subs)
        /\ \A i \in 1 .. Len(writes) : writes[i][1] = e =>
             \/ k \in ToSet(writes[i][2].subs) \/ k \in ToSet(disk[d].subs)
             \/ \E j \in 1 .. i - 1 : writes[j][1] = d
    BY <1>3 DEF MovesTo
  <1>5. disk'[d] = (IF d = h THEN v ELSE disk[d]) /\ disk'[e] = (IF e = h THEN v ELSE disk[e])
    BY <1>1 DEF Image
  <1>6. k \in ToSet(disk[d].subs) \/ h = d => k \in ToSet(disk'[d].subs)
    BY <1>2, <1>4, <1>5
  <1>7. k \in ToSet(disk'[e].subs) \/ k \in ToSet(disk'[d].subs)
    <2>1. CASE h = e /\ h # d
      <3>1. k \in ToSet(v.subs) \/ k \in ToSet(disk[d].subs)
        BY <1>2, <1>4, <2>1
      <3>2. QED
        BY <1>5, <1>6, <2>1, <3>1
    <2>2. CASE h # e
      BY <1>4, <1>5, <1>6, <2>2
    <2>3. QED
      BY <1>6, <2>1, <2>2
  <1>8. ASSUME NEW i \in 1 .. Len(writes'), writes'[i][1] = d
        PROVE  k \in ToSet(writes'[i][2].subs)
    BY <1>2, <1>4, <1>8
  <1>9. ASSUME NEW i \in 1 .. Len(writes'), writes'[i][1] = e
        PROVE  \/ k \in ToSet(writes'[i][2].subs) \/ k \in ToSet(disk'[d].subs)
               \/ \E j \in 1 .. i - 1 : writes'[j][1] = d
    <2>1. i + 1 \in 1 .. Len(writes) /\ writes[i + 1] = writes'[i]
      BY <1>2
    <2>2. \/ k \in ToSet(writes[i + 1][2].subs) \/ k \in ToSet(disk[d].subs)
          \/ \E j \in 1 .. (i + 1) - 1 : writes[j][1] = d
      BY <1>4, <1>9, <2>1
    <2>3. ASSUME NEW j \in 1 .. (i + 1) - 1, writes[j][1] = d
          PROVE  k \in ToSet(disk'[d].subs) \/ \E l \in 1 .. i - 1 : writes'[l][1] = d
      <3>1. CASE j = 1
        BY <1>2, <1>6, <2>3, <3>1
      <3>2. CASE j # 1
        <4>1. j - 1 \in 1 .. i - 1 /\ j - 1 \in 1 .. Len(writes') /\ (j - 1) + 1 = j
          BY <1>2, <3>2
        <4>2. writes'[j - 1] = writes[j]
          BY <1>2, <4>1
        <4>3. QED
          BY <2>3, <4>1, <4>2
      <3>3. QED
        BY <3>1, <3>2
    <2>4. QED
      BY <1>6, <2>1, <2>2, <2>3
  <1>10. MovesTo(k, e, d)'
    BY <1>1, <1>4, <1>7, <1>8, <1>9 DEF MovesTo
  <1>11. QED
    BY <1>10 DEF Moves

(* flush_cluster.                                                          *)
LEMMA FlushMore ==
  ASSUME IInv, IInv', MoreInv, Flush PROVE MoreInv'
  <1>1. /\ process = "running" /\ UNCHANGED <<fs, cut, process>> /\ TypeOK
        /\ IF writes' = <<>> /\ job.op = "flush" THEN job' = NoJob /\ saved' = disk'
           ELSE UNCHANGED <<job, saved>>
        /\ ReadInv /\ SpaceInv /\ KeepInv
    BY DEF Flush, IInv, MoreInv
  <1>2. \A c : Versions(c)' \subseteq Versions(c)
    BY <1>1, FlushedVersions
  <1>3. CASE writes' = <<>> /\ job.op = "flush"
    <2>1. job' = NoJob /\ saved' = disk' /\ job'.op = "none"
      BY <1>1, <1>3, NoJobIs
    <2>2. FilesEnd'
      BY <1>1, <1>3, <2>1 DEF ReadInv, FilesEnd, Filling
    <2>3. ReadInv' /\ SpaceInv'
      BY <1>1, <1>2, <2>1, <2>2, NoJobReads
    <2>4. KeepInv'
      BY <1>1, <2>1, NoJobRests, RestKeepsThen
    <2>5. QED
      BY <2>3, <2>4 DEF MoreInv
  <1>4. CASE ~(writes' = <<>> /\ job.op = "flush")
    <2>1. UNCHANGED <<job, saved>> /\ SameJob
      BY <1>1, <1>4 DEF SameJob
    <2>2. ReadInv' /\ SpaceInv'
      BY <1>1, <1>2, <2>1, SameReads
    <2>3. job # NoJob
      <3>1. writes # <<>>
        BY DEF Flush
      <3>2. QED
        BY <1>1, <3>1 DEF IInv, DiskOK
    <2>4. \A c : Remains(c) => Remains(c)'
      BY <1>2, <2>1 DEF Remains
    <2>5. \A x, e : Stays(x, e) => Stays(x, e)'
      BY <1>2 DEF Stays
    <2>6. PICK k \in Cluster : EntriesStay(k)
      BY <1>1 DEF KeepInv
    <2>7. EntriesStay(k)'
      <3>1. \A e \in Cluster : Moves(k, e) => Moves(k, e)'
        BY <1>1, <2>1, FlushMoves
      <3>2. QED
        BY <2>1, <2>5, <2>6, <3>1 DEF EntriesStay
    <2>8. \A c \in Cluster \ job'.touched : saved'[c].type # "EMPTY" => Remains(c)'
      BY <1>1, <2>1, <2>4 DEF KeepInv
    <2>9. /\ (process # "torn" => Tree(saved))' /\ (job = NoJob => saved = disk)'
          /\ Branch(saved, job.touched)'
          /\ RmFits' /\ FillFits'
      BY <1>1, <2>1, <2>3 DEF KeepInv, RmFits, FillFits, Branch
    <2>10. KeepInv'
      BY <2>7, <2>8, <2>9 DEF KeepInv
    <2>11. QED
      BY <2>2, <2>10 DEF MoreInv
  <1>5. QED
    BY <1>3, <1>4

(* A process that stops.                                                   *)
LEMMA StopMore ==
  ASSUME IInv, MoreInv, process = "running", job = NoJob \/ job.op # "none",
         NEW why \in {"failed", "hung", "removed", "cycle", "intoFile"}, NEW asTyped,
         why = "failed" /\ job.op = "part" => Empties(fs) = {},
         Stop(why, asTyped)
  PROVE  MoreInv'
  <1>1. /\ process' = why /\ job' = [job EXCEPT !.asTyped = asTyped]
        /\ UNCHANGED <<fs, wd, disk, writes, saved, cut>> /\ job \in Job
    BY DEF Stop, IInv, TypeOK
  <1>2. SameJob
    BY <1>1 DEF Job, SameJob
  <1>3. \A c : Versions(c)' \subseteq Versions(c)
    BY <1>1 DEF Versions
  <1>4. ReadInv' /\ SpaceInv'
    BY <1>1, <1>2, <1>3, SameReads DEF MoreInv
  <1>5. job' = NoJob => job = NoJob
    BY <1>2, NoJobIs DEF SameJob
  <1>6. KeepInv'
    BY <1>1, <1>2, <1>5, SameKeeps DEF MoreInv
  <1>7. QED
    BY <1>4, <1>6 DEF MoreInv

(* A command that ends with nothing left to write.                         *)
LEMMA FinishMore ==
  ASSUME IInv, IInv', MoreInv, process = "running",
         cut = "no" => \A c \in Cluster : fs[c].data # NoData /\ fs[c].next = NONE =>
                                            fs[c].used < BlockSize,
         Finish
  PROVE  MoreInv'
  <1>1. job' = NoJob /\ saved' = disk /\ UNCHANGED <<fs, wd, disk, writes, cut, process>>
    BY DEF Finish
  <1>2. \A c : Versions(c)' \subseteq Versions(c)
    BY <1>1 DEF Versions
  <1>3. FilesEnd'
    BY <1>1 DEF FilesEnd
  <1>4. ReadInv' /\ SpaceInv'
    BY <1>1, <1>2, <1>3, NoJobReads DEF MoreInv
  <1>5. KeepInv'
    BY <1>1, NoJobRests, RestKeepsThen
  <1>6. QED
    BY <1>4, <1>5 DEF MoreInv

(* A kill and a start.                                                     *)
LEMMA RestartMore ==
  ASSUME IInv, IInv', MoreInv, Restart PROVE MoreInv'
  <1>1. /\ fs' = disk /\ writes' = <<>> /\ job' = NoJob /\ saved' = disk /\ disk' = disk
        /\ cut' = IF Ready THEN cut ELSE "yes"
    BY DEF Restart
  <1>2. \A c : Versions(c)' \subseteq Versions(c)
    <2>1. SUFFICES ASSUME NEW c, NEW r \in Versions(c)' PROVE r \in Versions(c)
      OBVIOUS
    <2>2. r \in VersionsOf(disk, disk, <<>>, c)
      BY <1>1, <2>1 DEF Versions
    <2>3. r = disk[c]
      BY <2>2, VersionsAre
    <2>4. QED
      BY <2>3, VersionsAre DEF Versions
  <1>3. FilesEnd'
    <2>1. SUFFICES ASSUME cut' = "no" PROVE FilesEnd'
      BY DEF FilesEnd
    <2>2. Ready /\ cut = "no"
      BY <1>1, <2>1
    <2>3. writes = <<>> /\ job.op = "none" /\ process = "running"
      BY <2>2, ReadyIs
    <2>4. \A c \in Cluster : disk[c] = fs[c] /\ ~Filling(job, c)
      BY <2>3, OneVersion DEF Filling
    <2>5. QED
      BY <1>1, <2>2, <2>4 DEF FilesEnd, MoreInv, ReadInv
  <1>4. ReadInv' /\ SpaceInv'
    BY <1>1, <1>2, <1>3, NoJobReads DEF MoreInv
  <1>5. AtRest'
    BY <1>1 DEF IInv, AtRest
  <1>6. QED
    BY <1>4, <1>5, RestKeepsThen DEF MoreInv

(* A step that changes no cluster.                                         *)
LEMMA StutterMore ==
  ASSUME MoreInv, UNCHANGED <<fs, disk, writes, job, saved, cut, process>>
  PROVE  MoreInv'
  <1>1. SameJob /\ \A c : Versions(c)' \subseteq Versions(c)
    BY DEF SameJob, Versions
  <1>2. process = "failed" /\ job.op = "part" => Empties(fs) = {}
    BY DEF MoreInv, SpaceInv
  <1>3. ReadInv' /\ SpaceInv'
    BY <1>1, <1>2, SameReads DEF MoreInv
  <1>4. KeepInv'
    BY <1>1, SameKeeps DEF MoreInv
  <1>5. QED
    BY <1>3, <1>4 DEF MoreInv

(* The start.                                                              *)
LEMMA InitMore ==
  ASSUME IInv, Init PROVE MoreInv
  <1>1. /\ fs = [[c \in Cluster |-> Blank] EXCEPT ![Root].type = "DIRECTORY",
                                            ![Root].parent = NONE, ![Root].name = "/"]
        /\ disk = fs /\ writes = <<>> /\ job = NoJob /\ saved = disk /\ process = "running"
        /\ job.op = "none"
    BY NoJobIs DEF Init
  <1>2. \A c \in Cluster : fs[c].data = NoData /\ fs[c].subs = <<>> /\ fs[c].used = 0
    BY <1>1, BlankIs DEF Blank
  <1>3. \A c \in Cluster : \A r \in Versions(c) : r = fs[c]
    <2>1. ~\E i \in 1 .. Len(writes) : TRUE
      BY <1>1
    <2>2. QED
      BY <1>1, <2>1, VersionsAre DEF Versions
  <1>4. BlocksFit /\ BlocksFollow /\ EntriesBegin /\ FilesEnd /\ AllSmall
    BY <1>2, <1>3, NoElements, SizesAreNumbers
       DEF BlocksFit, BlocksFollow, EntriesBegin, FilesEnd, AllSmall, DataFits
  <1>5. CopyFits /\ PartFits /\ Room(fs, job)
    BY <1>1 DEF CopyFits, PartFits, Room
  <1>6. AtRest
    BY <1>1 DEF AtRest, IInv
  <1>7. QED
    BY <1>1, <1>4, <1>5, <1>6, RestKeeps DEF MoreInv, ReadInv, SpaceInv

-----------------------------------------------------------------------------
(***************************************************************************)
(* The steps of the commands.                                              *)
(***************************************************************************)

(* A step that moves nothing keeps all of it.                              *)
LEMMA DoesMore ==
  ASSUME IInv, IInv', MoreInv, NEW E, NEW G, Does(E, G, {}),
         G \subseteq job.touched, job.op # "flush",
         job'.touched = job.touched, job' # NoJob,
         job'.op = "rm" => /\ job.op = "rm" /\ job'.at = job.at
                           /\ \A x \in Cluster : Kids(fs', x) \subseteq Kids(fs, x)
                           /\ job'.src # NoHost => job'.over # NONE,
         Meant' => Room(fs', job')
  PROVE  MoreInv'
  <1>1. ReadInv'
    BY DoesRead DEF MoreInv
  <1>2. PartFits /\ AllSmall /\ KeepInv
    BY DEF MoreInv, ReadInv, SpaceInv
  <1>3. AllSmall'
    BY <1>2, DoesSmall
  <1>4. KeepInv'
    BY <1>2, DoesKeep
  <1>5. process' = "running"
    BY DEF Does
  <1>6. SpaceInv'
    BY <1>3, <1>5 DEF SpaceInv
  <1>7. QED
    BY <1>1, <1>4, <1>6 DEF MoreInv

(* A new leaf c of directory d.                                            *)
LEMMA LeafDoes ==
  ASSUME NEW m \in Image, Tree(m), NEW d \in Cluster, m[d].type = "DIRECTORY",
         NEW c \in Cluster, m[c].type = "EMPTY",
         NEW n, \A x \in Cluster \ {c, d} : n[x] = m[x],
         n[d].type = "DIRECTORY", n[d].data = m[d].data, n[d].subs = Append(m[d].subs, c),
         n[c].type # "EMPTY", n[c].subs = <<>>, DataFits(n[c]), n[c].used <= BlockSize,
         NEW j, j.op \notin {"part", "copy"}, NEW k,
         n[c].data # NoData => /\ n[c].next = NONE /\ n[c].data[2] = 1
                               /\ n[c].used < BlockSize \/ Filling(k, c)
  PROVE  Taken(m, n, k, {c}) /\ Others(m, n, j, {c}, {}, {})
  <1>1. Taken(m, n, k, {c})
    BY DEF Taken
  <1>2. ToSet(n[d].subs) = ToSet(m[d].subs) \cup {c}
    <2>1. m[d].subs \in Seq(Cluster)
      BY Fields
    <2>2. QED
      BY <2>1, AppendIs
  <1>3. \A x : ~Filling(j, x)
    BY DEF Filling
  <1>4. Others(m, n, j, {c}, {}, {})
    BY <1>2, <1>3 DEF Others
  <1>5. QED
    BY <1>1, <1>4

(* The writes put what memory holds.                                       *)
LEMMA WrittenPuts ==
  ASSUME NEW m, NEW n \in Image, NEW cs \in Seq(Cluster), NEW E
  PROVE  Puts(m, n, Written(n, cs), E)
  BY WrittenIs DEF Puts

(* The writes of one, two and three clusters.                              *)
LEMMA WrittenFew ==
  ASSUME NEW m \in Image, NEW b \in Cluster, NEW c \in Cluster, NEW d \in Cluster
  PROVE  /\ Len(Written(m, <<b>>)) = 1 /\ Written(m, <<b>>)[1] = <<b, m[b]>>
         /\ Len(Written(m, <<b, c>>)) = 2
         /\ Written(m, <<b, c>>)[1] = <<b, m[b]>> /\ Written(m, <<b, c>>)[2] = <<c, m[c]>>
         /\ Len(Written(m, <<b, c, d>>)) = 3
         /\ Written(m, <<b, c, d>>)[1] = <<b, m[b]>>
         /\ Written(m, <<b, c, d>>)[2] = <<c, m[c]>>
         /\ Written(m, <<b, c, d>>)[3] = <<d, m[d]>>
  BY DEF Written

(* Or the name of a new cluster.                                           *)
LEMMA BegunPuts ==
  ASSUME NEW c \in Cluster, NEW d \in Cluster, c # d,
         NEW made \in Image, NEW done \in Image, \A x \in Cluster \ {c} : done[x] = made[x],
         NEW m, Unused(made[c], m[c])
  PROVE  LET v == Written(made, <<c, d>>)
         IN  Puts(m, done, v, {c}) /\ Puts(m, done, v \o Written(done, <<c>>), {c})
  <1> DEFINE v == Written(made, <<c, d>>)
             u == Written(done, <<c>>)
  <1>1. /\ Len(v) = 2 /\ Len(u) = 1
        /\ v[1] = <<c, made[c]>> /\ v[2] = <<d, made[d]>> /\ u[1] = <<c, done[c]>>
    BY WrittenFew
  <1>2. v \in Seq(Cluster \X Contents) /\ u \in Seq(Cluster \X Contents)
    <2>1. <<c, d>> \in Seq(Cluster) /\ <<c>> \in Seq(Cluster)
      OBVIOUS
    <2>2. QED
      BY <2>1, WrittenIs
  <1> HIDE DEF v, u
  <1>3. /\ Len(v \o u) = 3 /\ (v \o u)[1] = v[1] /\ (v \o u)[2] = v[2] /\ (v \o u)[3] = u[1]
    <2>1. /\ Len(v \o u) = Len(v) + Len(u)
          /\ \A i \in 1 .. Len(v) : (v \o u)[i] = v[i]
          /\ \A i \in 1 .. Len(u) : (v \o u)[Len(v) + i] = u[i]
      BY <1>2, ConcatProperties
    <2>2. 1 \in 1 .. Len(v) /\ 2 \in 1 .. Len(v) /\ 1 \in 1 .. Len(u) /\ Len(v) + 1 = 3
      BY <1>1
    <2>3. QED
      BY <1>1, <2>1, <2>2
  <1>4. Puts(m, done, v, {c})
    BY <1>1 DEF Puts
  <1>5. Puts(m, done, v \o u, {c})
    BY <1>1, <1>3 DEF Puts
  <1>6. QED
    BY <1>4, <1>5 DEF v, u

(* create_cluster: the new cluster is still unused.                        *)
LEMMA ListedUnused ==
  ASSUME NEW m \in Image, NEW d \in Cluster, m[d].type = "DIRECTORY",
         NEW c \in Cluster, c # d, m[c].type = "EMPTY", DataFits(m[c]),
         NEW base \in Image, \A x \in Cluster \ {c} : base[x] = m[x],
         base[c].type = "EMPTY", base[c].subs = <<>>, base[c].used = m[c].used,
         base[c].data = m[c].data
  PROVE  LET made == Listed(base, d, c)
         IN  /\ made \in Image /\ c # d
             /\ Unused(made[c], m[c]) /\ made[d].data = m[d].data
             /\ made[d].type = "DIRECTORY" /\ made[d].subs = Append(m[d].subs, c)
             /\ \A x \in Cluster \ {c, d} : made[x] = m[x]
  <1> DEFINE made == Listed(base, d, c)
  <1>1. base[d].type = "DIRECTORY" /\ base[d] = m[d]
    OBVIOUS
  <1>2. /\ made \in Image /\ made[c].type = base[c].type /\ made[c].used = base[c].used
        /\ made[c].subs = base[c].subs /\ made[c].data = base[c].data
        /\ made[d].data = base[d].data /\ made[d].type = "DIRECTORY"
        /\ made[d].subs = Append(base[d].subs, c)
        /\ \A x \in Cluster \ {c, d} : made[x] = base[x]
    BY <1>1, ListedIs
  <1>3. m[c].data = NoData
    BY DEF DataFits
  <1> HIDE DEF made
  <1>4. /\ made \in Image /\ c # d
        /\ Unused(made[c], m[c]) /\ made[d].data = m[d].data
        /\ made[d].type = "DIRECTORY" /\ made[d].subs = Append(m[d].subs, c)
        /\ \A x \in Cluster \ {c, d} : made[x] = m[x]
    BY <1>1, <1>2, <1>3 DEF Unused
  <1>5. QED
    BY <1>4 DEF made

(* Only its name is new.                                                   *)
Named(m, c, name) == [m EXCEPT ![c].name = name]

(* It is still an unused cluster.                                          *)
LEMMA NamedIs ==
  ASSUME NEW m \in Image, NEW c \in Cluster, m[c].type = "EMPTY", NEW name \in Name
  PROVE  LET base == Named(m, c, name)
         IN  /\ base \in Image /\ \A x \in Cluster \ {c} : base[x] = m[x]
             /\ base[c].type = "EMPTY" /\ base[c].subs = <<>> /\ base[c].used = m[c].used
             /\ base[c].data = m[c].data
  <1> DEFINE r == [m[c] EXCEPT !.name = name]
             base == Named(m, c, name)
  <1>1. /\ r \in Contents /\ r.type = "EMPTY" /\ r.subs = <<>> /\ r.used = m[c].used
        /\ r.data = m[c].data
    <2>1. m[c] \in Contents /\ m[c].subs = <<>>
      BY Fields DEF Image
    <2>2. QED
      BY <2>1 DEF Contents
  <1>2. base = [m EXCEPT ![c] = r]
    BY DEF Image, Named
  <1> HIDE DEF r, base
  <1>3. base \in Image /\ base[c] = r /\ \A x \in Cluster \ {c} : base[x] = m[x]
    BY <1>1, <1>2 DEF Image
  <1>4. QED
    BY <1>1, <1>3 DEF base

(* And so it is once it is listed.                                         *)
LEMMA MadeUnused ==
  ASSUME NEW m \in Image, NEW d \in Cluster, m[d].type = "DIRECTORY",
         NEW c \in Cluster, m[c].type = "EMPTY", DataFits(m[c]), NEW name \in Name
  PROVE  LET made == Listed(Named(m, c, name), d, c)
         IN  /\ made \in Image /\ c # d
             /\ Unused(made[c], m[c]) /\ made[d].data = m[d].data
             /\ made[d].type = "DIRECTORY" /\ made[d].subs = Append(m[d].subs, c)
             /\ \A x \in Cluster \ {c, d} : made[x] = m[x]
  <1> DEFINE base == Named(m, c, name)
  <1>1. /\ base \in Image /\ \A x \in Cluster \ {c} : base[x] = m[x]
        /\ base[c].type = "EMPTY" /\ base[c].subs = <<>> /\ base[c].used = m[c].used
        /\ base[c].data = m[c].data
    BY NamedIs
  <1>2. c # d
    OBVIOUS
  <1> HIDE DEF base
  <1>3. LET made == Listed(base, d, c)
        IN  /\ made \in Image /\ c # d
            /\ Unused(made[c], m[c]) /\ made[d].data = m[d].data
            /\ made[d].type = "DIRECTORY" /\ made[d].subs = Append(m[d].subs, c)
            /\ \A x \in Cluster \ {c, d} : made[x] = m[x]
    BY <1>1, <1>2, ListedUnused
  <1>4. QED
    BY <1>3 DEF base

(* What every command may rely on.                                         *)
LEMMA MoreIs ==
  ASSUME IInv, MoreInv, process = "running", writes = <<>>
  PROVE  /\ fs \in Image /\ Tree(fs) /\ wd \in Cluster /\ TypeOK /\ job \in Job
         /\ fs[wd].type = "DIRECTORY"
         /\ \A c \in Cluster : DataFits(fs[c]) /\ fs[c].used <= BlockSize /\ fs[c] \in Versions(c)
  <1>1. /\ fs \in Image /\ Tree(fs) /\ wd \in Cluster /\ TypeOK /\ job \in Job
        /\ fs[wd].type = "DIRECTORY"
    BY Types DEF IInv, Fits
  <1>2. \A c \in Cluster : fs[c] \in Versions(c)
    BY OneVersion
  <1>3. QED
    BY <1>1, <1>2 DEF MoreInv, ReadInv, SpaceInv, BlocksFit, AllSmall

(* zox_fs_mkdir.                                                           *)
LEMMA MkdirMore ==
  ASSUME IInv, IInv', MoreInv, Mkdir PROVE MoreInv'
  <1>1. /\ Ready /\ process = "running" /\ job = NoJob /\ writes = <<>> /\ job.op = "none"
    BY ReadyIs DEF Mkdir, Typed
  <1>2. /\ fs \in Image /\ Tree(fs) /\ wd \in Cluster /\ fs[wd].type = "DIRECTORY" /\ TypeOK
        /\ \A x \in Cluster : DataFits(fs[x])
    BY <1>1, MoreIs
  <1> DEFINE Into(s, place) ==
               LET d == place[1]
                   c == place[2]
                   made == Listed([fs EXCEPT ![c].name = Last(s)], d, c)
                   done == [made EXCEPT ![c].type = "DIRECTORY", ![c].used = 0]
               IN  IF fs[d].type = "FILE" THEN Stop("intoFile", TRUE)
                   ELSE Do(done, Written(made, <<c, d>>) \o Written(done, <<c>>), Flushing)
             From(p, s) == \/ s = <<>> /\ Stop("failed", TRUE)
                           \/ \E place \in Places(Start(p), s) : Into(s, place)
  <1>3. PICK p \in Path : \E s \in Read(p) : From(p, s)
    BY DEF Mkdir
  <1>4. PICK s \in Read(p) : From(p, s)
    BY <1>3
  <1>5. CASE Stop("failed", TRUE)
    BY <1>1, <1>5, StopMore
  <1>6. ASSUME NEW place \in Places(Start(p), s), Into(s, place)
        PROVE  MoreInv'
    <2> DEFINE d == place[1]
               c == place[2]
               name == Last(s)
               base == Named(fs, c, name)
               made == Listed(base, d, c)
               done == [made EXCEPT ![c].type = "DIRECTORY", ![c].used = 0]
               w == Written(made, <<c, d>>) \o Written(done, <<c>>)
    <2>1. /\ name \in Name /\ d \in Cluster /\ fs[d].type \in {"DIRECTORY", "FILE"}
          /\ c \in Cluster /\ fs[c].type = "EMPTY" /\ DataFits(fs[c])
      <3>1. s \in Seq(Name) /\ Start(p) \in Cluster /\ fs[Start(p)].type = "DIRECTORY"
        BY <1>1, <1>2, PathNames, ReadIs, StartIs
      <3>2. QED
        BY <1>2, <3>1, PlacesAre
    <2>2. CASE fs[d].type = "FILE"
      <3>1. Stop("intoFile", TRUE)
        BY <1>6, <2>2
      <3>2. QED
        BY <1>1, <3>1, StopMore
    <2>3. CASE fs[d].type = "DIRECTORY"
      <3>1. Do(done, w, Flushing)
        BY <1>6, <2>3 DEF Named
      <3> HIDE DEF c, d, name
      <3>3. /\ made \in Image /\ c # d
            /\ Unused(made[c], fs[c]) /\ made[d].data = fs[d].data
            /\ made[d].type = "DIRECTORY" /\ made[d].subs = Append(fs[d].subs, c)
            /\ \A x \in Cluster \ {c, d} : made[x] = fs[x]
        BY <1>2, <2>1, <2>3, MadeUnused
      <3> HIDE DEF base, made, w
      <3>4. /\ done \in Image /\ \A x \in Cluster \ {c} : done[x] = made[x]
            /\ done[c].type = "DIRECTORY" /\ done[c].subs = <<>> /\ done[c].used = 0
            /\ done[c].data = NoData
        <4> DEFINE r == [made[c] EXCEPT !.type = "DIRECTORY", !.used = 0]
        <4>1. /\ r \in Contents /\ r.type = "DIRECTORY" /\ r.subs = made[c].subs /\ r.used = 0
              /\ r.data = made[c].data
          <5>1. made[c] \in Contents /\ made[c].subs = <<>>
            BY <2>1, <3>3, Fields DEF Image, Unused
          <5>2. QED
            BY <5>1 DEF Contents, Type
        <4>2. done = [made EXCEPT ![c] = r]
          BY <2>1, <3>3 DEF Image
        <4> HIDE DEF r, done
        <4>3. done \in Image /\ done[c] = r /\ \A x \in Cluster \ {c} : done[x] = made[x]
          BY <2>1, <3>3, <4>1, <4>2 DEF Image
        <4>4. QED
          BY <3>3, <4>1, <4>3 DEF Unused
      <3> HIDE DEF done
      <3>5. Puts(fs, done, w, {c})
        BY <2>1, <3>3, <3>4, BegunPuts DEF w
      <3>6. fs' = done /\ writes' = w /\ job' = Flushing /\ UNCHANGED <<disk, saved, cut, process>>
        BY <3>1 DEF Do
      <3>7. Taken(fs, done, Flushing, {c}) /\ Others(fs, done, job, {c}, {}, {})
        <4>1. DataFits(done[c]) /\ done[c].used <= BlockSize
          BY <3>4, SizesAreNumbers DEF DataFits
        <4>2. QED
          BY <1>1, <1>2, <2>1, <2>3, <3>3, <3>4, <4>1, LeafDoes
      <3>8. Does({c}, {}, {}) /\ job'.op = "flush" /\ job' # NoJob /\ job'.touched = job.touched
        <4>1. job'.op = "flush" /\ job' # NoJob
          BY <1>2, <3>6, FlushingIs
        <4>2. job'.touched = job.touched
          BY <3>6, NoJobIs DEF Flushing
        <4>3. QED
          BY <1>1, <2>1, <3>5, <3>6, <3>7, <4>1, <4>2 DEF Does
      <3>9. Room(fs', job')
        BY <3>8 DEF Room
      <3>10. QED
        BY <1>1, <3>8, <3>9, DoesMore
    <2>4. QED
      BY <2>1, <2>2, <2>3
  <1>7. QED
    BY <1>4, <1>5, <1>6

(* A cluster more is used.                                                 *)
LEMMA OneFilled ==
  ASSUME NEW m, NEW n, NEW c \in Cluster, m[c].type = "EMPTY", n[c].type # "EMPTY",
         \A x \in Cluster \ {c} : n[x].type = "EMPTY" <=> m[x].type = "EMPTY"
  PROVE  FreeBytes(m) = FreeBytes(n) + BlockSize /\ FreeBytes(m) \in Nat /\ FreeBytes(n) \in Nat
  <1>1. Empties(n) = Empties(m) \ {c} /\ c \in Empties(m)
    BY DEF Empties
  <1>2. IsFiniteSet(Empties(m)) /\ IsFiniteSet(Empties(n))
    BY Clusters, FS_Subset DEF Empties
  <1>3. /\ Cardinality(Empties(n)) = Cardinality(Empties(m)) - 1
        /\ Cardinality(Empties(m)) \in Nat /\ Cardinality(Empties(n)) \in Nat
    BY <1>1, <1>2, FS_RemoveElement, FS_CardinalityType
  <1>4. BlockSize \in Nat
    BY SizesAreNumbers
  <1>5. \A a, b, s \in Nat : b = a - 1 => a * s = b * s + s /\ a * s \in Nat /\ b * s \in Nat
    OBVIOUS
  <1>6. QED
    BY <1>3, <1>4, <1>5 DEF FreeBytes

(* zox_fs_load_file: the new file and its first block.                     *)
LEMMA LoadCreateMore ==
  ASSUME IInv, IInv', MoreInv, LoadCreate PROVE MoreInv'
  <1>1. job.op = "create" /\ process = "running" /\ writes = <<>>
    BY DEF LoadCreate
  <1>2. /\ fs \in Image /\ Tree(fs) /\ TypeOK /\ job \in Job
        /\ \A x \in Cluster : DataFits(fs[x])
    BY <1>1, MoreIs
  <1>3. /\ job.start \in Cluster /\ fs[job.start].type = "DIRECTORY" /\ job.path \in Seq(Name)
        /\ job.src \in Host
    <2>1. Fits(fs, wd, job)
      BY <1>1 DEF IInv
    <2>2. fs[Root].type = "DIRECTORY"
      BY <1>2 DEF Tree, TreeRoot
    <2>3. QED
      BY <1>1, <1>2, <2>1, <2>2 DEF Fits, Job
  <1>4. CASE job.path = <<>>
    <2>1. Stop("failed", TRUE)
      BY <1>4 DEF LoadCreate
    <2>2. QED
      BY <1>1, <2>1, StopMore
  <1>5. CASE job.path # <<>> /\ Places(job.start, job.path) = {}
    <2>1. Finish
      BY <1>5 DEF LoadCreate
    <2>2. cut = "no" => \A c \in Cluster : fs[c].data # NoData /\ fs[c].next = NONE =>
                                            fs[c].used < BlockSize
      BY <1>1 DEF MoreInv, ReadInv, FilesEnd, Filling
    <2>3. QED
      BY <1>1, <2>1, <2>2, FinishMore
  <1>6. CASE job.path # <<>> /\ Places(job.start, job.path) # {}
    <2> DEFINE Into(place) ==
                 LET d == place[1]
                     c == place[2]
                     made == Listed([fs EXCEPT ![c].name = Last(job.path)], d, c)
                     read == AtMost(Size[job.src])
                     done == [made EXCEPT ![c].type = "FILE", ![c].used = read,
                                          ![c].next = NONE, ![c].data = <<job.src, 1>>]
                     begun == Written(made, <<c, d>>)
                 IN  IF fs[d].type = "FILE" THEN Stop("intoFile", TRUE)
                     ELSE IF read < BlockSize
                     THEN Do(done, begun \o Written(done, <<c>>), Flushing)
                     ELSE Do(done, begun, [job EXCEPT !.op = "part", !.at = c])
    <2>1. PICK place \in Places(job.start, job.path) : Into(place)
      BY <1>6 DEF LoadCreate
    <2> DEFINE d == place[1]
               c == place[2]
               name == Last(job.path)
               made == Listed(Named(fs, c, name), d, c)
               read == AtMost(Size[job.src])
               done == [made EXCEPT ![c].type = "FILE", ![c].used = read,
                                    ![c].next = NONE, ![c].data = <<job.src, 1>>]
               begun == Written(made, <<c, d>>)
               part == [job EXCEPT !.op = "part", !.at = c]
    <2>2. /\ name \in Name /\ d \in Cluster /\ fs[d].type \in {"DIRECTORY", "FILE"}
          /\ c \in Cluster /\ fs[c].type = "EMPTY" /\ DataFits(fs[c])
      BY <1>2, <1>3, <2>1, PlacesAre
    <2>3. CASE fs[d].type = "FILE"
      <3>1. Stop("intoFile", TRUE)
        BY <2>1, <2>3
      <3>2. QED
        BY <1>1, <3>1, StopMore
    <2>4. CASE fs[d].type = "DIRECTORY"
      <3>1. \/ read < BlockSize /\ Do(done, begun \o Written(done, <<c>>), Flushing)
            \/ ~(read < BlockSize) /\ Do(done, begun, part)
        BY <2>1, <2>4 DEF Named
      <3> HIDE DEF c, d, name
      <3>2. /\ made \in Image /\ c # d
            /\ Unused(made[c], fs[c]) /\ made[d].data = fs[d].data
            /\ made[d].type = "DIRECTORY" /\ made[d].subs = Append(fs[d].subs, c)
            /\ \A x \in Cluster \ {c, d} : made[x] = fs[x]
        BY <1>2, <2>2, <2>4, MadeUnused
      <3> HIDE DEF made
      <3>3. read \in Nat /\ read <= BlockSize /\ Size[job.src] \in Nat /\ BlockSize \in Nat
        BY <1>3, SizesAreNumbers, AtMostIs
      <3>4. read = AtMost(Size[job.src] - (1 - 1) * BlockSize)
        BY <3>3
      <3> HIDE DEF read
      <3>5. /\ done \in Image /\ \A x \in Cluster \ {c} : done[x] = made[x]
            /\ done[c].type = "FILE" /\ done[c].subs = <<>> /\ done[c].used = read
            /\ done[c].next = NONE /\ done[c].data = <<job.src, 1>>
        <4> DEFINE r == [made[c] EXCEPT !.type = "FILE", !.used = read, !.next = NONE,
                                        !.data = <<job.src, 1>>]
        <4>1. /\ r \in Contents /\ r.type = "FILE" /\ r.subs = made[c].subs /\ r.used = read
              /\ r.next = NONE /\ r.data = <<job.src, 1>>
          <5>1. made[c] \in Contents /\ made[c].subs = <<>>
            BY <2>2, <3>2, Fields DEF Image, Unused
          <5>2. QED
            BY <1>3, <3>3, <5>1 DEF Contents, Type
        <4>2. done = [made EXCEPT ![c] = r]
          BY <2>2, <3>2 DEF Image
        <4> HIDE DEF r, done
        <4>3. done \in Image /\ done[c] = r /\ \A x \in Cluster \ {c} : done[x] = made[x]
          BY <2>2, <3>2, <4>1, <4>2 DEF Image
        <4>4. QED
          BY <3>2, <4>1, <4>3 DEF Unused
      <3> HIDE DEF done
      <3>6. Puts(fs, done, begun, {c}) /\ Puts(fs, done, begun \o Written(done, <<c>>), {c})
        BY <2>2, <3>2, <3>5, BegunPuts
      <3>7. /\ done[c].data[2] = 1 /\ done[c].type # "EMPTY" /\ job.op \notin {"part", "copy"}
            /\ \A x \in Cluster \ {c, d} : done[x] = fs[x]
            /\ done[d].type = "DIRECTORY" /\ done[d].data = fs[d].data
            /\ done[d].subs = Append(fs[d].subs, c)
        BY <1>1, <2>2, <3>2, <3>5
      <3>8. DataFits(done[c]) /\ done[c].used <= BlockSize
        BY <1>3, <3>3, <3>4, <3>5 DEF DataFits
      <3> HIDE DEF begun
      <3>9. /\ part.op = "part" /\ part.at = c /\ part.src = job.src /\ part.over = job.over
            /\ part.touched = job.touched
        BY <1>2 DEF Job
      <3> HIDE DEF part
      <3>10. FreeBytes(fs) = FreeBytes(done) + BlockSize /\ FreeBytes(done) \in Nat
        <4>1. \A x \in Cluster \ {c} : done[x].type = fs[x].type
          BY <2>4, <3>2, <3>5
        <4>2. QED
          BY <2>2, <3>5, <4>1, OneFilled
      <3>11. CASE read < BlockSize
        <4>1. /\ fs' = done /\ writes' = begun \o Written(done, <<c>>) /\ job' = Flushing
              /\ UNCHANGED <<disk, saved, cut, process>>
          BY <3>1, <3>11 DEF Do
        <4>2. Taken(fs, done, Flushing, {c}) /\ Others(fs, done, job, {c}, {}, {})
          BY <1>2, <2>2, <2>4, <3>5, <3>7, <3>8, <3>11, LeafDoes
        <4>3. job'.op = "flush" /\ job' # NoJob /\ job'.touched = job.touched
          <5>1. Flushing.touched = job.touched
            BY NoJobIs DEF Flushing
          <5>2. QED
            BY <1>2, <4>1, <5>1, FlushingIs
        <4>4. Does({c}, {}, {})
          BY <1>1, <2>2, <3>6, <4>1, <4>2, <4>3 DEF Does
        <4>5. Room(fs', job')
          BY <4>3 DEF Room
        <4>6. QED
          BY <1>1, <4>3, <4>4, <4>5, DoesMore
      <3>12. CASE ~(read < BlockSize)
        <4>1. /\ fs' = done /\ writes' = begun /\ job' = part
              /\ UNCHANGED <<disk, saved, cut, process>>
          BY <3>1, <3>12 DEF Do
        <4>2. Taken(fs, done, part, {c}) /\ Others(fs, done, job, {c}, {}, {})
          <5>1. Filling(part, c)
            BY <3>9 DEF Filling
          <5>2. QED
            BY <1>2, <2>2, <2>4, <3>5, <3>7, <3>8, <5>1, LeafDoes
        <4>3. job'.op = "part" /\ job' # NoJob /\ job'.touched = job.touched
          BY <3>9, <4>1, NoJobIs
        <4>4. Does({c}, {}, {})
          BY <1>1, <2>2, <3>5, <3>6, <3>9, <4>1, <4>2 DEF Does
        <4>5. ASSUME Meant' PROVE Room(fs', job')
          <5>1. Meant
            BY <3>9, <4>1, <4>5 DEF Meant
          <5>2. Size[job.src] <= FreeBytes(fs)
            BY <1>1, <5>1 DEF MoreInv, SpaceInv, Room
          <5>3. Size[job.src] <= FreeBytes(done) + 1 * BlockSize
            BY <3>3, <3>10, <5>2
          <5>4. QED
            BY <3>5, <3>9, <4>1, <5>3 DEF Room
        <4>6. QED
          BY <1>1, <4>3, <4>4, <4>5, DoesMore
      <3>13. QED
        BY <3>11, <3>12
    <2>5. QED
      BY <2>2, <2>3, <2>4
  <1>7. QED
    BY <1>4, <1>5, <1>6

(* A new last block c of a file, whose last block was b.                   *)
LEMMA PartDoes ==
  ASSUME NEW m \in Image, Tree(m), NEW b \in Cluster, m[b].type = "FILE",
         NEW c \in Cluster, m[c].type = "EMPTY",
         NEW n \in Image, \A x \in Cluster \ {b, c} : n[x] = m[x],
         n[b].type = "FILE", n[b].data = m[b].data, n[b].used = m[b].used, n[b].next = c,
         n[c].type = "FILE", n[c].next = NONE, DataFits(n[c]), n[c].used <= BlockSize,
         m[b].data # NoData => n[c].data = <<m[b].data[1], m[b].data[2] + 1>>,
         NEW j, Filling(j, b), NEW k, n[c].used < BlockSize \/ Filling(k, c)
  PROVE  Taken(m, n, k, {c}) /\ Others(m, n, j, {c}, {}, {})
  <1>1. n[c].subs = <<>> /\ n[b].subs = m[b].subs /\ m[c].subs = <<>>
    BY Fields
  <1>2. \A d \in Cluster : c \notin ToSet(n[d].subs)
    <2>1. \A d \in Cluster : n[d].subs = m[d].subs
      BY <1>1
    <2>2. QED
      BY <2>1, RefersToUsed
  <1>3. Taken(m, n, k, {c})
    BY <1>1, <1>2 DEF Taken
  <1>4. \A x : Filling(j, x) <=> x = b
    BY DEF Filling
  <1>5. Others(m, n, j, {c}, {}, {})
    <2>1. ASSUME NEW x \in Cluster \ {c}
          PROVE  /\ n[x].type = m[x].type /\ n[x].data = m[x].data
                 /\ n[x].used = m[x].used /\ n[x].subs = m[x].subs
                 /\ ~Filling(j, x) => n[x].next = m[x].next
                 /\ Filling(j, x) => /\ n[x].next = c
                                     /\ m[x].data # NoData =>
                                          n[c].data = <<m[x].data[1], m[x].data[2] + 1>>
      BY <1>1, <1>4
    <2>2. QED
      BY <2>1 DEF Others
  <1>6. QED
    BY <1>3, <1>5

(* zox_fs_load_file: one more block.                                       *)
LEMMA LoadPartMore ==
  ASSUME IInv, IInv', MoreInv, LoadPart PROVE MoreInv'
  <1> DEFINE b == job.at
             k == fs[job.at].data[2]
             read == AtMost(Size[job.src] - k * BlockSize)
             m(n) == [fs EXCEPT ![n].type = "FILE", ![n].next = NONE, ![n].used = read,
                                ![n].data = <<job.src, k + 1>>, ![job.at].next = n]
             after(n) == IF read < BlockSize THEN Flushing ELSE [job EXCEPT !.at = n]
  <1>1. job.op = "part" /\ writes = <<>> /\ process = "running"
    BY DEF LoadPart
  <1>2. /\ fs \in Image /\ Tree(fs) /\ TypeOK /\ job \in Job
        /\ job.src \in Host /\ b \in Cluster /\ fs[b].type = "FILE" /\ fs[b].next = NONE
        /\ k * BlockSize <= Size[job.src]
    <2>1. fs \in Image /\ Tree(fs) /\ TypeOK /\ Fits(fs, wd, job) /\ job \in Job
      BY <1>1, Types DEF IInv
    <2>2. QED
      BY <1>1, <2>1 DEF Fits, Job
  <1>3. \/ Empties(fs) = {} /\ Stop("failed", TRUE)
        \/ \E n \in FreeCluster(fs) : Do(m(n), Written(m(n), <<b, n>>), after(n))
    BY DEF LoadPart
  <1>4. CASE Empties(fs) = {} /\ Stop("failed", TRUE)
    BY <1>1, <1>4, StopMore
  <1>5. ASSUME NEW n \in FreeCluster(fs), Do(m(n), Written(m(n), <<b, n>>), after(n))
        PROVE  MoreInv'
    <2>1. n \in Cluster /\ fs[n].type = "EMPTY" /\ n # b /\ fs[n].subs = <<>>
      BY <1>2, Fields DEF FreeCluster, Empties
    <2>2. k \in Nat /\ Size[job.src] \in Nat /\ BlockSize \in Nat \ {0}
      <3>1. fs[b].data \in (Host \cup {NoHost}) \X Nat
        BY <1>2, Fields
      <3>2. QED
        BY <1>2, <3>1, SizesAreNumbers
    <2>3. /\ k * BlockSize \in Nat /\ (k + 1) * BlockSize = k * BlockSize + BlockSize
          /\ ((k + 1) - 1) * BlockSize = k * BlockSize
      BY <2>2
    <2> DEFINE left == Size[job.src] - k * BlockSize
    <2>4. left \in Nat
      BY <1>2, <2>2, <2>3
    <2>5. /\ read \in Nat /\ read <= BlockSize
          /\ read = AtMost(Size[job.src] - ((k + 1) - 1) * BlockSize)
      <3>1. read = AtMost(left)
        OBVIOUS
      <3>2. AtMost(left) \in Nat /\ AtMost(left) <= BlockSize
        BY <2>4, AtMostIs
      <3>3. QED
        BY <2>3, <3>1, <3>2
    <2>6. fs[b].data[1] = job.src
      BY <1>1 DEF MoreInv, ReadInv, PartFits
    <2> HIDE DEF read, left
    <2> DEFINE r == [fs[n] EXCEPT !.type = "FILE", !.next = NONE, !.used = read,
                                  !.data = <<job.src, k + 1>>]
               s == [fs[b] EXCEPT !.next = n]
               w == Written(m(n), <<b, n>>)
    <2>7. m(n) = [fs EXCEPT ![n] = r, ![b] = s]
      BY <1>2, <2>1 DEF Image
    <2>8. /\ r \in Contents /\ r.type = "FILE" /\ r.next = NONE /\ r.used = read
          /\ r.data = <<job.src, k + 1>>
      <3> DEFINE a == <<job.src, k + 1>>
      <3>1. a \in (Host \cup {NoHost}) \X Nat
        BY <1>2, <2>2
      <3> HIDE DEF a, k
      <3>2. fs[n] \in Contents
        BY <1>2, <2>1 DEF Image
      <3>3. QED
        BY <2>1, <2>5, <3>1, <3>2 DEF Contents, Type, a
    <2>9. /\ s \in Contents /\ s.type = "FILE" /\ s.next = n /\ s.data = fs[b].data
          /\ s.used = fs[b].used
      <3>1. fs[b] \in Contents
        BY <1>2 DEF Image
      <3>2. QED
        BY <1>2, <2>1, <3>1 DEF Contents
    <2> HIDE DEF r, s, m
    <2>10. /\ m(n) \in Image /\ m(n)[n] = r /\ m(n)[b] = s
           /\ \A x \in Cluster \ {n, b} : m(n)[x] = fs[x]
      BY <1>2, <2>1, <2>7, <2>8, <2>9 DEF Image
    <2>11. DataFits(m(n)[n])
      <3>1. r.data[1] = job.src /\ r.data[2] = k + 1 /\ k + 1 \in Nat \ {0}
        BY <2>2, <2>8
      <3>2. DataFits(r)
        BY <1>2, <2>5, <2>8, <3>1 DEF DataFits
      <3>3. QED
        BY <2>10, <3>2
    <2>12. /\ fs' = m(n) /\ writes' = w /\ job' = after(n)
           /\ UNCHANGED <<disk, saved, cut, process>>
      BY <1>5 DEF Do
    <2>13. Puts(fs, m(n), w, {n})
      <3>1. <<b, n>> \in Seq(Cluster)
        BY <1>2, <2>1
      <3>2. QED
        BY <2>10, <3>1, WrittenPuts
    <2> HIDE DEF w
    <2>14. FreeBytes(fs) = FreeBytes(m(n)) + BlockSize /\ FreeBytes(m(n)) \in Nat
      <3>1. \A x \in Cluster \ {n} : m(n)[x].type = "EMPTY" <=> fs[x].type = "EMPTY"
        BY <1>2, <2>9, <2>10
      <3>2. QED
        BY <2>1, <2>8, <2>10, <3>1, OneFilled
    <2>15. /\ job'.op \in {"flush", "part"} /\ job'.touched = job.touched /\ job' # NoJob
           /\ job'.op = "part" => job'.at = n /\ job'.src = job.src /\ job'.over = job.over
           /\ read < BlockSize \/ Filling(job', n)
      <3>1. CASE read < BlockSize
        <4>1. job' = Flushing
          BY <2>12, <3>1
        <4>2. Flushing.touched = job.touched
          BY NoJobIs DEF Flushing
        <4>3. QED
          BY <1>2, <3>1, <4>1, <4>2, FlushingIs
      <3>2. CASE ~(read < BlockSize)
        <4> DEFINE j == [job EXCEPT !.at = n]
        <4>1. job' = j
          BY <2>12, <3>2
        <4>2. /\ j.op = "part" /\ j.at = n /\ j.src = job.src /\ j.over = job.over
              /\ j.touched = job.touched
          BY <1>1, <1>2 DEF Job
        <4> HIDE DEF j, after
        <4>3. QED
          BY <4>1, <4>2, NoJobIs DEF Filling
      <3>3. QED
        BY <3>1, <3>2
    <2> HIDE DEF after
    <2>16. Taken(fs, m(n), job', {n}) /\ Others(fs, m(n), job, {n}, {}, {})
      <3>1. Filling(job, b)
        BY <1>1 DEF Filling
      <3>2. m(n)[n].data = <<fs[b].data[1], fs[b].data[2] + 1>>
        BY <2>6, <2>8, <2>10
      <3>3. m(n)[n].used <= BlockSize /\ (m(n)[n].used < BlockSize \/ Filling(job', n))
        BY <2>5, <2>8, <2>10, <2>15
      <3> HIDE DEF b
      <3>4. QED
        BY <1>2, <2>1, <2>8, <2>9, <2>10, <2>11, <3>1, <3>2, <3>3, PartDoes
    <2>17. Does({n}, {}, {})
      <3>1. m(n)[n].data[1] = job.src /\ m(n)[n].data[2] \in Nat \ {0}
        BY <2>2, <2>8, <2>10
      <3>2. QED
        BY <1>1, <2>1, <2>12, <2>13, <2>15, <2>16, <3>1 DEF Does
    <2>18. ASSUME Meant' PROVE Room(fs', job')
      <3>1. CASE job'.op = "flush"
        BY <3>1 DEF Room
      <3>2. CASE job'.op = "part"
        <4>1. Meant
          BY <2>12, <2>15, <2>18, <3>2 DEF Meant
        <4>2. Size[job.src] <= FreeBytes(fs) + k * BlockSize
          BY <1>1, <4>1 DEF MoreInv, SpaceInv, Room
        <4>3. Size[job.src] <= FreeBytes(m(n)) + (k + 1) * BlockSize
          <5> HIDE DEF k
          <5>1. QED
            BY <2>2, <2>3, <2>14, <4>2
        <4>4. fs'[job'.at].data[2] = k + 1 /\ job'.src = job.src
          BY <2>8, <2>10, <2>12, <2>15, <3>2
        <4>5. QED
          BY <2>12, <3>2, <4>3, <4>4 DEF Room
      <3>3. QED
        BY <2>15, <3>1, <3>2
    <2>19. QED
      BY <1>1, <2>15, <2>17, <2>18, DoesMore
  <1>6. QED
    BY <1>3, <1>4, <1>5

(* What cp copies of a cluster fits.                                       *)
LEMMA CopiedFits ==
  ASSUME NEW m \in Image, NEW from \in Cluster, DataFits(m[from]), NEW r,
         r.type = "FILE", r.used = m[from].used, r.data = CopiedData(m[from])
  PROVE  DataFits(r) /\ (r.data # NoData => m[from].type = "FILE" /\ r.data = m[from].data)
  BY DEF DataFits, CopiedData

(* zox_fs_cp: one more block.                                              *)
LEMMA CpStepMore ==
  ASSUME IInv, IInv', MoreInv, CpStep PROVE MoreInv'
  <1> DEFINE b == job.at
             a == job.from
             from == fs[job.from].next
             linked(n) == [fs EXCEPT ![job.at].next = n]
             m(n) == [linked(n) EXCEPT ![n] = CopyOf(linked(n), from)]
             after(n) == [job EXCEPT !.from = from, !.at = n]
  <1>1. job.op = "copy" /\ writes = <<>> /\ process = "running"
    BY DEF CpStep
  <1>2. /\ fs \in Image /\ Tree(fs) /\ TypeOK /\ job \in Job /\ a \in Cluster
        /\ b \in Cluster /\ fs[b].type = "FILE" /\ fs[b].next = NONE
        /\ from \in Cluster \cup {NONE}
        /\ \A c \in Cluster : DataFits(fs[c]) /\ fs[c].used <= BlockSize /\ fs[c] \in Versions(c)
    <2>1. Fits(fs, wd, job)
      BY <1>1 DEF IInv
    <2>2. fs \in Image /\ Tree(fs) /\ TypeOK /\ job \in Job
      BY <1>1, MoreIs
    <2>3. a \in Cluster /\ b \in Cluster
      BY <2>2 DEF Job
    <2>4. from \in Cluster \cup {NONE}
      BY <2>2, <2>3, Fields
    <2>5. QED
      BY <1>1, <2>1, <2>2, <2>3, <2>4, MoreIs DEF Fits
  <1>3. /\ fs[b].data = CopiedData(fs[a])
        /\ fs[b].data # NoData => a # b /\ fs[a].type = "FILE" /\ fs[a].data = fs[b].data
    <2>1. fs[b].data = CopiedData(fs[a]) /\ (fs[b].data # NoData => a # b)
      BY <1>1 DEF MoreInv, ReadInv, CopyFits
    <2>2. ASSUME fs[b].data # NoData PROVE fs[a].type = "FILE" /\ fs[a].data = fs[b].data
      <3>1. fs[a].data = fs[b].data
        BY <2>1, <2>2 DEF CopiedData
      <3>2. DataFits(fs[a])
        BY <1>2
      <3>3. QED
        BY <2>2, <3>1, <3>2 DEF DataFits
    <2>3. QED
      BY <2>1, <2>2
  <1>4. \/ from = NONE /\ Finish
        \/ Stop("failed", TRUE)
        \/ /\ from # NONE
           /\ \E n \in FreeCluster(fs) : Do(m(n), Written(m(n), <<b, n>>), after(n))
    BY DEF CpStep
  <1>5. CASE from = NONE /\ Finish
    <2>1. ASSUME cut = "no", NEW c \in Cluster, fs[c].data # NoData, fs[c].next = NONE
          PROVE  fs[c].used < BlockSize
      <3>1. \A x \in Cluster : x # b /\ fs[x].data # NoData /\ fs[x].next = NONE =>
                                 fs[x].used < BlockSize
        BY <2>1 DEF MoreInv, ReadInv, FilesEnd, Filling
      <3>2. CASE c # b
        BY <2>1, <3>1, <3>2
      <3>3. CASE c = b
        <4>1. fs[a].data # NoData /\ fs[a].used < BlockSize
          BY <1>2, <1>3, <1>5, <2>1, <3>1, <3>3
        <4>2. fs[c].used = fs[a].used
          BY <1>2, <1>3, <2>1, <3>3 DEF DataFits
        <4>3. QED
          BY <4>1, <4>2
      <3>4. QED
        BY <3>2, <3>3
    <2>2. Finish
      BY <1>5
    <2>3. QED
      BY <1>1, <2>1, <2>2, FinishMore
  <1>6. CASE Stop("failed", TRUE)
    BY <1>1, <1>6, StopMore
  <1>7. ASSUME from # NONE, NEW n \in FreeCluster(fs),
               Do(m(n), Written(m(n), <<b, n>>), after(n))
        PROVE  MoreInv'
    <2>1. n \in Cluster /\ fs[n].type = "EMPTY" /\ n # b
      BY <1>2 DEF FreeCluster, Empties
    <2>2. from \in Cluster
      BY <1>2, <1>7
    <2>3. fs[b].data # NoData =>
            fs[from].type = "FILE" /\ fs[from].data = <<fs[b].data[1], fs[b].data[2] + 1>>
      <3>1. ASSUME fs[b].data # NoData
            PROVE  fs[from].type = "FILE" /\ fs[from].data = <<fs[b].data[1], fs[b].data[2] + 1>>
        <4>1. fs[from].type = "FILE"
          BY <1>2, <1>3, <1>7, <3>1, RefersToUsed
        <4>2. fs[a] \in Versions(a) /\ fs[from] \in Versions(from)
          BY <1>2, <2>2
        <4>3. Follows(fs[from], fs[a])
          BY <1>2, <1>3, <1>7, <3>1, <4>2 DEF MoreInv, ReadInv, BlocksFollow
        <4>4. QED
          BY <1>3, <3>1, <4>1, <4>3 DEF Follows
      <3>2. QED
        BY <3>1
    <2> DEFINE s == [fs[b] EXCEPT !.next = n]
               w == Written(m(n), <<b, n>>)
               r == CopyOf(linked(n), from)
    <2>4. /\ s \in Contents /\ s.type = "FILE" /\ s.next = n /\ s.data = fs[b].data
          /\ s.used = fs[b].used
      <3>1. fs[b] \in Contents
        BY <1>2 DEF Image
      <3>2. QED
        BY <1>2, <2>1, <3>1 DEF Contents
    <2>5. linked(n) = [fs EXCEPT ![b] = s]
      BY <1>2 DEF Image
    <2>6. /\ after(n).op = "copy" /\ after(n).at = n /\ after(n).from = from
          /\ after(n).touched = job.touched
      BY <1>1, <1>2 DEF Job
    <2> HIDE DEF s, linked, from, after
    <2>7. /\ linked(n) \in Image /\ linked(n)[b] = s
          /\ \A x \in Cluster \ {b} : linked(n)[x] = fs[x]
      BY <1>2, <2>4, <2>5 DEF Image
    <2>8. /\ r \in Contents /\ r.type = "FILE" /\ r.next = NONE
          /\ r.used = fs[from].used /\ r.data = CopiedData(fs[from])
      <3>1. /\ linked(n)[from].type = fs[from].type /\ linked(n)[from].used = fs[from].used
            /\ linked(n)[from].data = fs[from].data
        BY <1>2, <2>2, <2>4, <2>7
      <3>2. /\ r \in Contents /\ r.type = "FILE" /\ r.next = NONE
            /\ r.used = linked(n)[from].used
            /\ r.data = IF linked(n)[from].type = "DIRECTORY" THEN NoData ELSE linked(n)[from].data
        BY <2>2, <2>7, CopyIs
      <3>3. QED
        BY <3>1, <3>2 DEF CopiedData
    <2>9. m(n) = [linked(n) EXCEPT ![n] = r]
      OBVIOUS
    <2> HIDE DEF r, m
    <2>10. /\ m(n) \in Image /\ m(n)[n] = r /\ m(n)[b] = s
           /\ \A x \in Cluster \ {n, b} : m(n)[x] = fs[x]
      BY <1>2, <2>1, <2>7, <2>8, <2>9 DEF Image
    <2>11. DataFits(m(n)[n]) /\ m(n)[n].used <= BlockSize
      <3>1. DataFits(fs[from]) /\ fs[from].used <= BlockSize
        BY <1>2, <2>2
      <3>2. QED
        BY <1>2, <2>2, <2>8, <2>10, <3>1, CopiedFits
    <2>12. fs[b].data # NoData => m(n)[n].data = <<fs[b].data[1], fs[b].data[2] + 1>>
      BY <2>3, <2>8, <2>10 DEF CopiedData
    <2>13. m(n)[n].data = CopiedData(m(n)[from]) /\ (m(n)[n].data # NoData => from # n)
      <3>1. CASE from = n
        <4>1. fs[n].data = NoData
          BY <1>2, <2>1 DEF DataFits
        <4>2. m(n)[n].data = NoData
          BY <2>8, <2>10, <3>1, <4>1 DEF CopiedData
        <4>3. QED
          BY <3>1, <4>2 DEF CopiedData
      <3>2. CASE from # n
        <4>1. m(n)[from].type = fs[from].type /\ m(n)[from].data = fs[from].data
          BY <1>2, <2>2, <2>4, <2>10, <3>2
        <4>2. QED
          BY <2>8, <2>10, <3>2, <4>1 DEF CopiedData
      <3>3. QED
        BY <3>1, <3>2
    <2>14. /\ fs' = m(n) /\ writes' = w /\ job' = after(n)
           /\ UNCHANGED <<disk, saved, cut, process>>
      BY <1>7 DEF Do
    <2>15. Puts(fs, m(n), w, {n})
      <3>1. <<b, n>> \in Seq(Cluster)
        BY <1>2, <2>1
      <3>2. QED
        BY <2>10, <3>1, WrittenPuts
    <2> HIDE DEF w
    <2>16. Taken(fs, m(n), job', {n}) /\ Others(fs, m(n), job, {n}, {}, {})
      <3>1. Filling(job, b) /\ Filling(job', n)
        BY <1>1, <2>6, <2>14 DEF Filling
      <3> HIDE DEF b
      <3>2. QED
        BY <1>2, <2>1, <2>4, <2>8, <2>10, <2>11, <2>12, <3>1, PartDoes
    <2>17. Does({n}, {}, {})
      BY <1>1, <2>1, <2>6, <2>13, <2>14, <2>15, <2>16 DEF Does
    <2>18. job'.op = "copy" /\ job' # NoJob /\ job'.touched = job.touched
      BY <2>6, <2>14, NoJobIs
    <2>19. Room(fs', job')
      BY <2>18 DEF Room
    <2>20. QED
      BY <1>1, <2>17, <2>18, <2>19, DoesMore
  <1>8. QED
    BY <1>4, <1>5, <1>6, <1>7

(* zox_fs_cp: the new file and its first block.                            *)
LEMMA CpMore ==
  ASSUME IInv, IInv', MoreInv, Cp PROVE MoreInv'
  <1>1. /\ Ready /\ process = "running" /\ job = NoJob /\ writes = <<>> /\ job.op = "none"
    BY ReadyIs DEF Cp, Typed
  <1>2. /\ fs \in Image /\ Tree(fs) /\ wd \in Cluster /\ fs[wd].type = "DIRECTORY" /\ TypeOK
        /\ \A c \in Cluster : DataFits(fs[c]) /\ fs[c].used <= BlockSize /\ fs[c] \in Versions(c)
    BY <1>1, MoreIs
  <1> DEFINE m(from, q, d, n) ==
               Listed([fs EXCEPT ![n] = [CopyOf(fs, from) EXCEPT !.name = Last(q.names)]], d, n)
             after(from, n) == [NoJob EXCEPT !.op = "copy", !.from = from, !.at = n]
             Into(from, q, d) ==
               IF fs[d].type = "FILE" THEN Stop("intoFile", TRUE)
               ELSE \E n \in FreeCluster(fs) :
                      Do(m(from, q, d, n), Written(m(from, q, d, n), <<d, n>>), after(from, n))
             Source(from) ==
               \E p \in Path : \E s \in Read(p) : from \in {Walk(fs, Start(p), s)} \cap Cluster
  <1>3. PICK from \in Cluster :
          /\ Source(from)
          /\ \/ Stop("hung", TRUE)
             \/ Empties(fs) = {} /\ Stop("failed", TRUE)
             \/ \E q \in {x \in Path : x.names # <<>>} :
                  \E d \in Parents(Absolute(q)) : Into(from, q, d)
    BY DEF Cp
  <1>4. CASE Stop("hung", TRUE)
    BY <1>1, <1>4, StopMore
  <1>5. CASE Empties(fs) = {} /\ Stop("failed", TRUE)
    BY <1>1, <1>5, StopMore
  <1>6. fs[from].type = "DIRECTORY" \/ (fs[from].type = "FILE" /\ Entry(fs, from))
    <2>1. PICK p \in Path : \E s \in Read(p) : from \in {Walk(fs, Start(p), s)} \cap Cluster
      BY <1>3
    <2>2. PICK s \in Read(p) : from = Walk(fs, Start(p), s)
      BY <2>1
    <2>3. s \in Seq(Name) /\ Start(p) \in Cluster /\ fs[Start(p)].type = "DIRECTORY"
      BY <1>1, <1>2, PathNames, ReadIs, StartIs
    <2>4. Walk(fs, Start(p), s) # NONE
      BY <2>2, Clusters
    <2>5. QED
      BY <1>2, <2>2, <2>3, <2>4, WalkEntry
  <1>7. ASSUME NEW q \in {x \in Path : x.names # <<>>}, NEW d \in Parents(Absolute(q)),
               Into(from, q, d)
        PROVE  MoreInv'
    <2>1. /\ Absolute(q) \in [abs : {TRUE}, names : Seq(Name)] /\ Absolute(q).names # <<>>
          /\ q.names \in Seq(Name) /\ q.names # <<>>
      BY <1>2, AbsoluteIs, PathNames
    <2>2. d \in Cluster /\ fs[d].type \in {"DIRECTORY", "FILE"} /\ Last(q.names) \in Name
      <3>1. Absolute(q) \in [abs : BOOLEAN, names : Seq(Name)]
        BY <2>1
      <3>2. QED
        BY <1>2, <2>1, <3>1, ParentsAre, FrontIs
    <2>3. CASE fs[d].type = "FILE"
      <3>1. Stop("intoFile", TRUE)
        BY <1>7, <2>3
      <3>2. QED
        BY <1>1, <3>1, StopMore
    <2>4. CASE fs[d].type = "DIRECTORY"
      <3>1. PICK n \in FreeCluster(fs) :
              Do(m(from, q, d, n), Written(m(from, q, d, n), <<d, n>>), after(from, n))
        BY <1>7, <2>4
      <3>2. n \in Cluster /\ fs[n].type = "EMPTY" /\ n # d /\ n # from
        BY <1>2, <1>6, <2>4 DEF FreeCluster, Empties
      <3> DEFINE name == Last(q.names)
                 r == [CopyOf(fs, from) EXCEPT !.name = name]
                 base == [fs EXCEPT ![n] = r]
                 done == m(from, q, d, n)
                 j == after(from, n)
                 w == Written(done, <<d, n>>)
      <3>3. done = Listed(base, d, n) /\ Do(done, w, j) /\ name \in Name
        BY <2>2, <3>1
      <3> HIDE DEF done, w, name
      <3>4. /\ r \in Contents /\ r.type = "FILE" /\ r.next = NONE /\ r.subs = <<>>
            /\ r.used = fs[from].used /\ r.data = CopiedData(fs[from])
        <4>1. CopyOf(fs, from) \in Contents /\ CopyOf(fs, from).type = "FILE"
              /\ CopyOf(fs, from).next = NONE /\ CopyOf(fs, from).subs = <<>>
              /\ CopyOf(fs, from).used = fs[from].used
              /\ CopyOf(fs, from).data = CopiedData(fs[from])
          BY <1>2, CopyIs DEF CopiedData
        <4>2. QED
          BY <3>3, <4>1 DEF Contents
      <3> HIDE DEF r
      <3>5. base \in Image /\ base[n] = r /\ \A x \in Cluster \ {n} : base[x] = fs[x]
        BY <1>2, <3>2, <3>4 DEF Image
      <3> HIDE DEF base
      <3>6. /\ done \in Image /\ done[n].type = "FILE" /\ done[n].subs = <<>>
            /\ done[n].next = NONE /\ done[n].used = r.used /\ done[n].data = r.data
            /\ done[d].type = "DIRECTORY" /\ done[d].data = fs[d].data
            /\ done[d].subs = Append(fs[d].subs, n)
            /\ \A x \in Cluster \ {n, d} : done[x] = fs[x]
        <4>1. base[d].type = "DIRECTORY" /\ n # d /\ base[d] = fs[d]
          BY <2>2, <2>4, <3>2, <3>5
        <4> DEFINE l == Listed(base, d, n)
        <4>2. /\ l \in Image /\ l[n].type = base[n].type /\ l[n].subs = base[n].subs
              /\ l[n].next = base[n].next /\ l[n].used = base[n].used /\ l[n].data = base[n].data
              /\ l[d].type = "DIRECTORY" /\ l[d].data = base[d].data
              /\ l[d].subs = Append(base[d].subs, n)
              /\ \A x \in Cluster \ {n, d} : l[x] = base[x]
          <5>1. /\ base \in Image /\ d \in Cluster /\ n \in Cluster
                /\ base[d].type = "DIRECTORY" /\ d # n
            BY <2>2, <3>2, <3>5, <4>1
          <5>2. QED
            BY <5>1, ListedIs
        <4>3. done = l
          BY <3>3
        <4> HIDE DEF l
        <4>4. QED
          BY <3>4, <3>5, <4>1, <4>2, <4>3
      <3>7. DataFits(done[n]) /\ done[n].used <= BlockSize
            /\ (done[n].data # NoData => fs[from].type = "FILE" /\ done[n].data = fs[from].data)
        <4>1. DataFits(fs[from]) /\ fs[from].used <= BlockSize
          BY <1>2
        <4>2. QED
          BY <1>2, <3>4, <3>6, <4>1, CopiedFits
      <3>8. done[n].data # NoData => done[n].data[2] = 1
        <4>1. ASSUME done[n].data # NoData PROVE done[n].data[2] = 1
          <5>1. fs[from].type = "FILE" /\ fs[from].data # NoData /\ done[n].data = fs[from].data
            BY <3>7, <4>1
          <5>2. PICK e \in Cluster : from \in ToSet(fs[e].subs)
            BY <1>6, <5>1 DEF Entry
          <5>3. fs[e] \in Versions(e) /\ fs[from] \in Versions(from)
            BY <1>2, <5>2
          <5>4. QED
            BY <5>1, <5>2, <5>3 DEF MoreInv, ReadInv, EntriesBegin
        <4>2. QED
          BY <4>1
      <3>9. j.op = "copy" /\ j.at = n /\ j.from = from /\ j.touched = job.touched /\ j # NoJob
        BY <1>1, <3>2, NoJobIs DEF Job
      <3> HIDE DEF j
      <3>10. Puts(fs, done, w, {n})
        <4>1. <<d, n>> \in Seq(Cluster)
          BY <2>2, <3>2
        <4>2. QED
          BY <3>6, <4>1, WrittenPuts DEF w
      <3>11. fs' = done /\ writes' = w /\ job' = j /\ UNCHANGED <<disk, saved, cut, process>>
        BY <3>3 DEF Do
      <3>12. Taken(fs, done, j, {n}) /\ Others(fs, done, job, {n}, {}, {})
        <4>1. Filling(j, n) /\ job.op \notin {"part", "copy"} /\ done[n].type # "EMPTY"
          BY <1>1, <3>6, <3>9 DEF Filling
        <4>2. QED
          BY <1>2, <2>2, <2>4, <3>2, <3>6, <3>7, <3>8, <4>1, LeafDoes
      <3>13. done[n].data = CopiedData(done[from])
        <4>1. done[from].type = fs[from].type /\ done[from].data = fs[from].data
          BY <2>4, <3>2, <3>6
        <4>2. QED
          BY <3>4, <3>6, <4>1 DEF CopiedData
      <3>14. Does({n}, {}, {})
        BY <1>1, <3>2, <3>9, <3>10, <3>11, <3>12, <3>13 DEF Does
      <3>15. Room(fs', job')
        BY <3>9, <3>11 DEF Room
      <3>16. QED
        BY <1>1, <3>9, <3>11, <3>14, <3>15, DoesMore
    <2>5. QED
      BY <2>2, <2>3, <2>4
  <1>8. QED
    BY <1>3, <1>4, <1>5, <1>7

(* The walk along the blocks of a file meets none of them twice.           *)
LEMMA ChainInjective ==
  ASSUME NEW m \in Image, Tree(m), NEW c \in Cluster, m[c].type = "FILE"
  PROVE  IsInjective(Chain(m, c))
  <1> DEFINE s == Chain(m, c)
             L == Len(s)
             S == {k \in Nat : k < L => \A i \in 1 .. L - k - 1 : s[i] # s[L - k]}
  <1>1. /\ s \in Seq(Cluster) /\ s # <<>> /\ L \in Nat /\ L # 0 /\ s[L] = Last(s)
        /\ \A i \in 1 .. L - 1 : m[s[i]].next # NONE /\ s[i + 1] = m[s[i]].next
    BY ChainIs DEF IsWalk, Last
  <1>2. m[s[L]].next = NONE
    BY <1>1, FileEnds
  <1> HIDE DEF s, L
  <1>3. 0 \in S
    BY <1>1, <1>2
  <1>4. ASSUME NEW k \in Nat, k \in S PROVE k + 1 \in S
    <2>1. ASSUME k + 1 < L, NEW i \in 1 .. L - (k + 1) - 1, s[i] = s[L - (k + 1)]
          PROVE  FALSE
      <3>1. /\ i \in 1 .. L - 1 /\ L - (k + 1) \in 1 .. L - 1
            /\ i + 1 \in 1 .. L - k - 1 /\ (L - (k + 1)) + 1 = L - k /\ k < L
        BY <1>1, <2>1
      <3>2. s[i + 1] = s[L - k]
        BY <1>1, <2>1, <3>1
      <3>3. QED
        BY <1>4, <3>1, <3>2
    <2>2. QED
      BY <2>1
  <1>5. Nat \subseteq S
    <2> HIDE DEF S
    <2>1. QED
      BY <1>3, <1>4, NatSet
  <1>6. ASSUME NEW i \in 1 .. L, NEW j \in 1 .. L, i < j PROVE s[i] # s[j]
    <2>1. L - j \in Nat /\ L - j < L /\ i \in 1 .. L - (L - j) - 1 /\ L - (L - j) = j
      BY <1>1, <1>6
    <2>2. L - j \in S
      BY <1>5, <2>1
    <2>3. QED
      BY <2>1, <2>2
  <1>7. \A i, j \in 1 .. L : s[i] = s[j] => i = j
    BY <1>1, <1>6
  <1>8. IsInjective(s)
    BY <1>1, <1>7 DEF IsInjective, L
  <1>9. QED
    BY <1>8 DEF s

(* A file has no more bytes than its blocks.                               *)
LEMMA FileSizeIs ==
  ASSUME NEW m \in Image, Tree(m), NEW c \in Cluster, m[c].type = "FILE",
         \A x \in Cluster : m[x].used <= BlockSize
  PROVE  LET F == {c} \cup ToSet(Parts(m, c))
         IN  FileSize(m, c) <= Cardinality(F) * BlockSize /\ FileSize(m, c) \in Nat
             /\ Cardinality(F) \in Nat
  <1> DEFINE F == {c} \cup ToSet(Parts(m, c))
             s == Chain(m, c)
  <1>1. /\ s \in Seq(Cluster) /\ Len(s) \in Nat \ {0} /\ s[1] = c
        /\ Last(s) \in Cluster
    <2>1. /\ s \in Seq(Cluster) /\ s # <<>> /\ s[1] = c
      BY ChainIs DEF IsWalk
    <2> HIDE DEF s
    <2>2. Len(s) \in Nat \ {0} /\ Last(s) = s[Len(s)]
      BY <2>1 DEF Last
    <2>3. QED
      BY <2>1, <2>2
  <1>2. F \subseteq Cluster /\ IsFiniteSet(F)
    <2>1. F \subseteq Cluster
      BY PartsAre
    <2>2. QED
      BY <2>1, Clusters, FS_Subset
  <1>3. \A i \in 1 .. Len(s) : s[i] \in F
    <2>1. \A x : x \in ToSet(Parts(m, c)) <=>
              m[c].type = "FILE" /\ \E i \in 2 .. Len(Chain(m, c)) : x = Chain(m, c)[i]
      BY PartsType
    <2> HIDE DEF s
    <2>2. \A i \in 2 .. Len(s) : s[i] \in F
      BY <2>1 DEF s
    <2>3. QED
      BY <1>1, <2>2
  <1>4. IsInjective(s)
    BY ChainInjective
  <1> HIDE DEF s, F
  <1>5. s \in Seq(F)
    BY <1>1, <1>3
  <1>6. Len(s) <= Cardinality(F) /\ Cardinality(F) \in Nat
    BY <1>2, <1>4, <1>5, ManyElements
  <1>7. FileSize(m, c) = (Len(s) - 1) * BlockSize + m[Last(s)].used
    BY DEF FileSize, s
  <1>8. m[Last(s)].used \in Nat /\ m[Last(s)].used <= BlockSize /\ BlockSize \in Nat
    BY <1>1, Fields, SizesAreNumbers
  <1>9. \A l, k, b, u \in Nat : l # 0 /\ l <= k /\ u <= b =>
          (l - 1) * b + u <= k * b /\ (l - 1) * b + u \in Nat
    <2> TAKE l, k, b, u \in Nat
    <2> HAVE l # 0 /\ l <= k /\ u <= b
    <2>1. PICK e \in Nat : e = k - l
      OBVIOUS
    <2>2. k * b = (l - 1) * b + b + e * b /\ e * b \in Nat /\ (l - 1) * b \in Nat
      BY <2>1
    <2>3. QED
      BY <2>2
  <1>10. FileSize(m, c) <= Cardinality(F) * BlockSize /\ FileSize(m, c) \in Nat
    BY <1>1, <1>6, <1>7, <1>8, <1>9
  <1>11. QED
    BY <1>6, <1>10 DEF F

(* Clusters that are emptied are free.                                     *)
LEMMA MoreFree ==
  ASSUME NEW m, NEW n, NEW F \in SUBSET Cluster,
         \A x \in F : m[x].type # "EMPTY" /\ n[x].type = "EMPTY",
         \A x \in Cluster \ F : n[x].type = "EMPTY" <=> m[x].type = "EMPTY"
  PROVE  /\ FreeBytes(n) = FreeBytes(m) + Cardinality(F) * BlockSize
         /\ FreeBytes(m) \in Nat /\ FreeBytes(n) \in Nat /\ Cardinality(F) * BlockSize \in Nat
  <1>1. Empties(n) = Empties(m) \cup F /\ Empties(m) \cap F = {}
    BY DEF Empties
  <1>2. IsFiniteSet(Empties(m)) /\ IsFiniteSet(F) /\ IsFiniteSet(Empties(n))
    BY Clusters, FS_Subset DEF Empties
  <1>3. Cardinality(Empties(n)) = Cardinality(Empties(m)) + Cardinality(F) - Cardinality({})
    BY <1>1, <1>2, FS_Union
  <1>4. /\ Cardinality(Empties(m)) \in Nat /\ Cardinality(F) \in Nat /\ Cardinality({}) = 0
        /\ BlockSize \in Nat
    BY <1>2, FS_CardinalityType, FS_EmptySet, SizesAreNumbers
  <1>5. \A a, b, s \in Nat : (a + b) * s = a * s + b * s /\ a * s \in Nat /\ b * s \in Nat
    OBVIOUS
  <1>6. Cardinality(Empties(n)) = Cardinality(Empties(m)) + Cardinality(F)
    BY <1>3, <1>4
  <1>7. QED
    BY <1>4, <1>5, <1>6 DEF FreeBytes

(* What is below an entry is an entry.                                     *)
LEMMA BelowEntries ==
  ASSUME NEW m \in Image, NEW x \in Cluster, Entry(m, x)
  PROVE  \A y \in Below(m, x) : Entry(m, y)
  <1> DEFINE S == {y \in Cluster : Entry(m, y)}
  <1>1. ASSUME NEW y \in S, NEW z \in ToSet(m[y].subs) PROVE z \in S
    <2>1. z \in Cluster /\ m[y].type = "DIRECTORY"
      <3>1. m[y].subs \in Seq(Cluster) /\ (m[y].type # "DIRECTORY" => m[y].subs = <<>>)
        BY Fields
      <3>2. QED
        BY <3>1, Elements, NoElements
    <2>2. QED
      BY <2>1 DEF Entry
  <1>2. x \in S /\ \A y \in S : ToSet(m[y].subs) \subseteq S
    BY <1>1
  <1> HIDE DEF S
  <1>3. Below(m, x) \subseteq S
    <2>1. S \in SUBSET Cluster
      BY DEF S
    <2>2. QED
      BY <1>2, <2>1, BelowIs
  <1>4. QED
    BY <1>3 DEF S

(* The file that is yet to be removed is still there.                      *)
LEMMA StillBelow ==
  ASSUME NEW m \in Image, Tree(m), NEW n, NEW d \in Cluster, m[d].type = "DIRECTORY",
         NEW c \in ToSet(m[d].subs), m[c].subs = <<>>, NEW F, c \in F, LeafGone(m, d, c, F, n),
         NEW x \in Cluster, Entry(m, x), x # c, NEW f \in Below(m, x), f # c, m[f].type = "FILE"
  PROVE  f \in Below(n, x) /\ n[f].type = "FILE" /\ FileSize(n, f) = FileSize(m, f)
  <1>1. /\ F \in SUBSET Cluster /\ d \notin F /\ n \in Image /\ c \in Cluster
        /\ \A y \in F \ {c} : m[y].type = "FILE"
        /\ \A y \in Cluster \ (F \cup {d}) : n[y] = m[y]
        /\ ToSet(n[d].subs) = ToSet(m[d].subs) \ {c}
        /\ \A y \in F \ {c} : \A z \in Cluster : y \in Kids(m, z) => z \in F
    BY DEF LeafGone
  <1>2. f \in Below(n, x)
    <2> DEFINE S == Below(n, x) \cup {c}
    <2>1. /\ Below(n, x) \in SUBSET Cluster /\ x \in Below(n, x)
          /\ \A y \in Below(n, x) : ToSet(n[y].subs) \subseteq Below(n, x)
      BY <1>1, BelowIs
    <2>2. ASSUME NEW y \in S PROVE ToSet(m[y].subs) \subseteq S
      <3>1. CASE y \in F
        <4>1. m[y].subs = <<>>
          BY <1>1, <3>1, Fields
        <4>2. QED
          BY <4>1, NoElements
      <3>2. CASE y \notin F
        <4>1. /\ y \in Below(n, x) /\ y \in Cluster
              /\ ToSet(m[y].subs) \subseteq ToSet(n[y].subs) \cup {c}
          BY <1>1, <2>1, <2>2, <3>2
        <4>2. QED
          BY <2>1, <4>1
      <3>3. QED
        BY <3>1, <3>2
    <2>3. S \in SUBSET Cluster /\ x \in S
      BY <1>1, <2>1
    <2> HIDE DEF S
    <2>4. Below(m, x) \subseteq S
      BY <2>2, <2>3, BelowIs
    <2>5. QED
      BY <2>4 DEF S
  <1>3. f \in Cluster \ F
    <2>1. Entry(m, f) /\ f \in Cluster
      BY BelowEntries, BelowIs
    <2>2. PICK e \in Cluster : m[e].type = "DIRECTORY" /\ f \in Kids(m, e)
      BY <2>1 DEF Entry, Kids
    <2>3. ASSUME f \in F PROVE FALSE
      <3>1. e \in F /\ e = c
        BY <1>1, <2>2, <2>3
      <3>2. Kids(m, e) = {}
        BY <2>2, <3>1, NoElements, KidsAre
      <3>3. QED
        BY <2>2, <3>2
    <2>4. QED
      BY <2>1, <2>3
  <1>4. n[f] = m[f] /\ n[f].type = "FILE"
    BY <1>1, <1>3
  <1>5. FileSize(n, f) = FileSize(m, f)
    <2> DEFINE s == Chain(m, f)
               S == Cluster \ F
    <2>1. ASSUME NEW y \in S, m[y].type = "FILE", m[y].next # NONE PROVE m[y].next \in S
      <3>1. m[y].next \in Cluster /\ m[y].next \in Kids(m, y) /\ y \in Cluster
        BY <2>1, Fields DEF Kids
      <3>2. m[y].next # c
        <4>1. c \in Kids(m, d)
          BY DEF Kids
        <4>2. QED
          BY <1>1, <2>1, <3>1, <4>1 DEF Tree, TreeOwned
      <3>3. QED
        BY <1>1, <2>1, <3>1, <3>2
    <2>2. TreeFiles(m)
      BY DEF Tree
    <2>3. \A i \in 1 .. Len(s) : s[i] \in S \cap Cluster /\ m[s[i]].type = "FILE"
      <3> HIDE DEF S
      <3>1. /\ f \in S
            /\ \A y \in S \cap Cluster :
                 m[y].type = "FILE" /\ m[y].next # NONE => m[y].next \in S
        BY <1>3, <2>1 DEF S
      <3>2. QED
        BY <1>3, <2>2, <3>1, ChainInside
    <2>4. /\ IsWalk(m, f, s) /\ Len(s) \in 1 .. Count + 1
          /\ m[Last(s)].next # NONE => Len(s) = Count + 1
      BY <1>3, ChainIs
    <2> HIDE DEF s
    <2>5. \A i \in 1 .. Len(s) : n[s[i]] = m[s[i]]
      BY <1>1, <2>3
    <2>6. Last(s) = s[Len(s)] /\ Len(s) \in 1 .. Len(s)
      BY <2>4, SizesAreNumbers DEF Last
    <2>7. IsWalk(n, f, s)
      <3>1. \A i \in 1 .. Len(s) - 1 : i \in 1 .. Len(s)
        BY <2>6
      <3>2. QED
        BY <2>4, <2>5, <3>1 DEF IsWalk
    <2>8. n[Last(s)] = m[Last(s)]
      BY <2>5, <2>6
    <2>9. s = Chain(n, f)
      BY <1>1, <1>3, <2>4, <2>7, <2>8, ChainUnique, SizesAreNumbers
    <2>10. QED
      BY <2>8, <2>9 DEF FileSize, s
  <1>6. QED
    BY <1>2, <1>4, <1>5

(* What the command removes is under its set of clusters.                  *)
LEMMA BelowTouched ==
  ASSUME NEW m \in Image, NEW T \in SUBSET Cluster, NEW x \in T, x \in Cluster,
         \A y \in T : Kids(m, y) \subseteq T
  PROVE  Below(m, x) \subseteq T
  <1>1. \A y \in T : ToSet(m[y].subs) \subseteq T
    BY DEF Kids
  <1>2. QED
    BY <1>1, BelowIs

(* So are the blocks of a file in it.                                      *)
LEMMA PartsTouched ==
  ASSUME NEW m \in Image, Tree(m), NEW T \in SUBSET Cluster, NEW c \in T,
         \A y \in T : Kids(m, y) \subseteq T
  PROVE  {c} \cup ToSet(Parts(m, c)) \subseteq T
  <1>1. TreeFiles(m) /\ c \in Cluster
    BY DEF Tree
  <1>2. \A y \in T \cap Cluster : m[y].type = "FILE" /\ m[y].next # NONE => m[y].next \in T
    BY DEF Kids
  <1>3. \A y \in ToSet(Parts(m, c)) : y \in T
    <2> TAKE y \in ToSet(Parts(m, c))
    <2>1. m[c].type = "FILE" /\ \E i \in 2 .. Len(Chain(m, c)) : y = Chain(m, c)[i]
      BY <1>1, PartsType
    <2>2. \A i \in 1 .. Len(Chain(m, c)) : Chain(m, c)[i] \in T \cap Cluster
      BY <1>1, <1>2, <2>1, ChainInside
    <2>3. PICK i \in 2 .. Len(Chain(m, c)) : y = Chain(m, c)[i]
      BY <2>1
    <2>4. Len(Chain(m, c)) \in Nat
      BY <1>1, ChainIs, SizesAreNumbers
    <2>5. QED
      BY <2>2, <2>3, <2>4
  <1>4. QED
    BY <1>3

(* One leaf c of directory d is removed, with the blocks F.                *)
LeafTaken(c, d, F, cs) ==
  /\ job.op = "rm" /\ writes = <<>> /\ process = "running"
  /\ UNCHANGED <<disk, saved, cut, process>>
  /\ c = FirstLeaf(fs, job.at) /\ c \in Below(fs, job.at) /\ fs[c].subs = <<>>
  /\ fs[d].type = "DIRECTORY" /\ c \in ToSet(fs[d].subs)
  /\ F = {c} \cup ToSet(Parts(fs, c)) /\ LeafGone(fs, d, c, F, fs')
  /\ fs'[d].data = fs[d].data /\ \A x \in F : Unused(fs'[x], fs[x])
  /\ cs \in Seq(Cluster) /\ writes' = Written(fs', cs)
  /\ job' = IF c # job.at THEN job
            ELSE IF job.src = NoHost THEN Flushing ELSE [job EXCEPT !.op = "create"]

(* That is what a step of _zox_fs_rm does.                                 *)
LEMMA RmStepIs ==
  ASSUME IInv, RmStep
  PROVE  \E c, d \in Cluster : \E F, cs : LeafTaken(c, d, F, cs)
  <1> DEFINE c == FirstLeaf(fs, job.at)
             parts == Parts(fs, c)
             F == {c} \cup ToSet(parts)
             u == Unlisted(fs, c)
             gone == Freed(u, F)
             after == IF c # job.at THEN job
                      ELSE IF job.src = NoHost THEN Flushing ELSE [job EXCEPT !.op = "create"]
             cs == (IF parts = <<>> THEN <<>> ELSE <<c>>) \o parts \o <<c, fs[c].parent>>
             w == Written(gone, cs)
  <1>1. job.op = "rm" /\ writes = <<>> /\ process = "running" /\ Do(gone, w, after)
    BY DEF RmStep
  <1>2. /\ fs \in Image /\ Tree(fs) /\ Fits(fs, wd, job) /\ Entry(fs, job.at) /\ job.at \in Cluster
    BY <1>1, Types DEF IInv, Fits, Job
  <1>3. /\ c \in Below(fs, job.at) /\ fs[c].subs = <<>> /\ c \in Cluster
    <2>1. Below(fs, job.at) \in SUBSET Cluster
      BY <1>2, BelowIs
    <2>2. QED
      BY <1>2, <2>1, FirstLeafIs
  <1>4. Entry(fs, c)
    BY <1>2, <1>3, BelowEntries
  <1> HIDE DEF c
  <1>5. PICK d \in Cluster : fs[d].type = "DIRECTORY" /\ c \in ToSet(fs[d].subs)
    BY <1>4 DEF Entry
  <1>6. LeafGone(fs, d, c, F, gone)
    BY <1>2, <1>3, <1>5, LeafFreed
  <1>7. F \in SUBSET Cluster /\ d \notin F /\ fs[c].parent = d
    <2> HIDE DEF F, gone
    <2>1. QED
      BY <1>6 DEF LeafGone
  <1>8. u \in Image /\ u[d].data = fs[d].data /\ \A x \in Cluster \ {d} : u[x] = fs[x]
    <2>1. TreeDirs(fs)
      BY <1>2 DEF Tree
    <2>2. QED
      BY <1>2, <1>5, <2>1, UnlistedIs
  <1>9. cs \in Seq(Cluster)
    <2> DEFINE v == IF parts = <<>> THEN <<>> ELSE <<c>>
    <2>1. v \in Seq(Cluster) /\ parts \in Seq(Cluster) /\ <<c, d>> \in Seq(Cluster)
      BY <1>2, <1>3, <1>5, PartsType
    <2>2. cs = v \o parts \o <<c, d>>
      BY <1>7
    <2> HIDE DEF v, parts, cs
    <2>3. v \o parts \in Seq(Cluster)
      BY <2>1, ConcatProperties
    <2>4. QED
      BY <2>1, <2>2, <2>3, ConcatProperties
  <1> HIDE DEF u, F, cs, parts
  <1>10. gone[d] = u[d]
    <2>1. \A x \in Cluster \ F : Freed(u, F)[x] = u[x]
      BY <1>7, <1>8, FreedIs
    <2>2. QED
      BY <1>7, <2>1
  <1>11. \A x \in F : Unused(gone[x], fs[x])
    <2> TAKE x \in F
    <2>1. u[x].used = fs[x].used /\ x \in Cluster
      BY <1>7, <1>8
    <2>2. gone[x] = [Blank EXCEPT !.used = u[x].used, !.next = u[x].next]
      BY <2>1 DEF Freed
    <2>3. QED
      BY <2>1, <2>2 DEF Unused, Blank
  <1> HIDE DEF w, gone, after
  <1>12. /\ fs' = gone /\ writes' = w /\ job' = after /\ UNCHANGED <<disk, saved, cut, process>>
    BY <1>1 DEF Do
  <1>13. LeafTaken(c, d, F, cs)
    <2>1. c = FirstLeaf(fs, job.at)
      BY DEF c
    <2>2. F = {c} \cup ToSet(Parts(fs, c))
      BY DEF F, parts
    <2>3. writes' = Written(fs', cs)
      BY <1>12 DEF w
    <2>4. job' = IF c # job.at THEN job
                 ELSE IF job.src = NoHost THEN Flushing ELSE [job EXCEPT !.op = "create"]
      BY <1>12 DEF after
    <2>5. QED
      BY <1>1, <1>3, <1>5, <1>6, <1>8, <1>9, <1>10, <1>11, <1>12, <2>1, <2>2, <2>3, <2>4
      DEF LeafTaken
  <1>14. QED
    BY <1>3, <1>13

(* _zox_fs_rm: one leaf.                                                   *)
LEMMA RmStepMore ==
  ASSUME IInv, IInv', MoreInv, RmStep PROVE MoreInv'
  <1>1. PICK c \in Cluster, d \in Cluster : \E F, cs : LeafTaken(c, d, F, cs)
    BY RmStepIs
  <1>2. PICK F, cs : LeafTaken(c, d, F, cs)
    BY <1>1
  <1>3. /\ job.op = "rm" /\ writes = <<>> /\ process = "running"
        /\ UNCHANGED <<disk, saved, cut, process>>
        /\ c \in Below(fs, job.at) /\ fs[c].subs = <<>>
        /\ fs[d].type = "DIRECTORY" /\ c \in ToSet(fs[d].subs)
        /\ F = {c} \cup ToSet(Parts(fs, c)) /\ LeafGone(fs, d, c, F, fs')
        /\ fs'[d].data = fs[d].data /\ \A x \in F : Unused(fs'[x], fs[x])
        /\ cs \in Seq(Cluster) /\ writes' = Written(fs', cs)
    BY <1>2 DEF LeafTaken
  <1>4. job' = IF c # job.at THEN job
               ELSE IF job.src = NoHost THEN Flushing ELSE [job EXCEPT !.op = "create"]
    BY <1>2 DEF LeafTaken
  <1>5. /\ fs \in Image /\ Tree(fs) /\ job \in Job /\ TypeOK /\ job.at \in Cluster
        /\ Entry(fs, job.at) /\ job.touched \in SUBSET Cluster /\ job.src \in Host \cup {NoHost}
        /\ \A x \in Cluster : fs[x].used <= BlockSize
    <2>1. Fits(fs, wd, job)
      BY <1>3 DEF IInv
    <2>2. /\ fs \in Image /\ Tree(fs) /\ job \in Job /\ TypeOK
          /\ \A x \in Cluster : fs[x].used <= BlockSize
      BY <1>3, MoreIs
    <2>3. QED
      BY <1>3, <2>1, <2>2 DEF Fits, Job
  <1>6. /\ F \in SUBSET Cluster /\ fs[c].parent = d /\ d \notin F
        /\ \A x \in F \ {c} : fs[x].type = "FILE"
        /\ fs' \in Image /\ Tree(fs')
        /\ \A x \in Cluster \ (F \cup {d}) : fs'[x] = fs[x]
        /\ \A x \in F : fs'[x].type = "EMPTY" /\ fs'[x].subs = <<>>
        /\ fs'[d].type = "DIRECTORY"
        /\ ToSet(fs'[d].subs) = ToSet(fs[d].subs) \ {c}
    BY <1>3 DEF LeafGone
  <1>7. F \subseteq job.touched
    <2>1. job.at \in job.touched /\ \A y \in job.touched : Kids(fs, y) \subseteq job.touched
      BY <1>3 DEF MoreInv, KeepInv, RmFits
    <2>2. Below(fs, job.at) \subseteq job.touched
      BY <1>5, <2>1, BelowTouched
    <2>3. QED
      BY <1>3, <1>5, <2>1, <2>2, PartsTouched
  <1>8. \A x \in Cluster : Kids(fs', x) \subseteq Kids(fs, x)
    <2> TAKE x \in Cluster
    <2>1. CASE x \in F
      BY <1>6, <2>1, KidsAre
    <2>2. CASE x = d
      <3>1. Kids(fs', d) = ToSet(fs'[d].subs) /\ Kids(fs, d) = ToSet(fs[d].subs)
        BY <1>3, <1>5, <1>6, KidsAre
      <3>2. QED
        BY <1>6, <2>2, <3>1
    <2>3. CASE x \notin F /\ x # d
      BY <1>6, <2>3 DEF Kids
    <2>4. QED
      BY <2>1, <2>2, <2>3
  <1>9. Others(fs, fs', job, {}, F, {})
    <2>1. \A x : ~Filling(job, x)
      BY <1>3 DEF Filling
    <2>2. c \in F
      BY <1>3
    <2>3. QED
      BY <1>3, <1>6, <2>1, <2>2 DEF Others
  <1>10. /\ job'.op \in {"rm", "flush", "create"} /\ job'.touched = job.touched /\ job' # NoJob
         /\ job'.op # "flush" => job'.src = job.src /\ job'.over = job.over
         /\ job'.op = "rm" => c # job.at /\ job' = job
         /\ job'.op = "create" => c = job.at /\ job.src # NoHost
    <2>1. CASE c # job.at
      BY <1>3, <1>4, <2>1, NoJobIs
    <2>2. CASE c = job.at /\ job.src = NoHost
      <3>1. job' = Flushing
        BY <1>4, <2>2
      <3>2. Flushing.touched = job.touched
        BY NoJobIs DEF Flushing
      <3>3. QED
        BY <1>5, <3>1, <3>2, FlushingIs
    <2>3. CASE c = job.at /\ job.src # NoHost
      <3> DEFINE j == [job EXCEPT !.op = "create"]
      <3>1. job' = j
        BY <1>4, <2>3
      <3>2. j.op = "create" /\ j.src = job.src /\ j.over = job.over /\ j.touched = job.touched
        BY <1>5 DEF Job
      <3> HIDE DEF j
      <3>3. QED
        BY <2>3, <3>1, <3>2, NoJobIs
    <2>4. QED
      BY <2>1, <2>2, <2>3
  <1>11. Does({}, F, {})
    <2>1. Puts(fs, fs', writes', {})
      BY <1>3, <1>6, WrittenPuts
    <2>2. Taken(fs, fs', job', {})
      BY DEF Taken
    <2>3. QED
      BY <1>3, <1>6, <1>9, <1>10, <2>1, <2>2 DEF Does
  <1>12. /\ FreeBytes(fs') = FreeBytes(fs) + Cardinality(F) * BlockSize
         /\ FreeBytes(fs) \in Nat /\ Cardinality(F) * BlockSize \in Nat /\ FreeBytes(fs') \in Nat
    <2>1. Entry(fs, c)
      BY <1>3 DEF Entry
    <2>2. \A x \in F : fs[x].type # "EMPTY" /\ fs'[x].type = "EMPTY"
      BY <1>5, <1>6, <2>1, EntryIs
    <2>3. \A x \in Cluster \ F : fs'[x].type = "EMPTY" <=> fs[x].type = "EMPTY"
      BY <1>3, <1>6
    <2>4. PICK m : m = fs
      OBVIOUS
    <2>5. PICK n : n = fs'
      OBVIOUS
    <2>6. /\ \A x \in F : m[x].type # "EMPTY" /\ n[x].type = "EMPTY"
          /\ \A x \in Cluster \ F : n[x].type = "EMPTY" <=> m[x].type = "EMPTY"
      BY <2>2, <2>3, <2>4, <2>5
    <2>7. /\ FreeBytes(n) = FreeBytes(m) + Cardinality(F) * BlockSize
          /\ FreeBytes(m) \in Nat /\ Cardinality(F) * BlockSize \in Nat /\ FreeBytes(n) \in Nat
      <3>1. F \in SUBSET Cluster
        BY <1>6
      <3>2. \A x \in F : m[x].type # "EMPTY" /\ n[x].type = "EMPTY"
        BY <2>6
      <3>3. \A x \in Cluster \ F : n[x].type = "EMPTY" <=> m[x].type = "EMPTY"
        BY <2>6
      <3>4. QED
        BY <3>1, <3>2, <3>3, MoreFree, Zenon
    <2>8. QED
      BY <2>4, <2>5, <2>7
  <1>13. ASSUME Meant' PROVE Room(fs', job')
    <2>1. CASE job'.op = "flush"
      BY <2>1 DEF Room
    <2>2. CASE job'.op \in {"rm", "create"} /\ job.src # NoHost
      <3>1. Meant
        BY <1>3, <1>10, <1>13, <2>2 DEF Meant
      <3>2. Size[job.src] \in Nat
        BY <1>5, <2>2, SizesAreNumbers
      <3>3. \/ Size[job.src] <= FreeBytes(fs)
            \/ /\ job.over \in Below(fs, job.at) /\ fs[job.over].type = "FILE"
               /\ Size[job.src] <= FreeBytes(fs) + FileSize(fs, job.over)
        BY <1>3, <2>2, <3>1 DEF MoreInv, SpaceInv, Room
      <3>4. CASE Size[job.src] <= FreeBytes(fs)
        <4>1. Size[job.src] <= FreeBytes(fs')
          BY <1>12, <3>2, <3>4
        <4>2. QED
          BY <1>10, <2>2, <4>1 DEF Room
      <3>5. CASE /\ job.over \in Below(fs, job.at) /\ fs[job.over].type = "FILE"
                 /\ Size[job.src] <= FreeBytes(fs) + FileSize(fs, job.over)
        <4>1. CASE job.over = c
          <5>1. FileSize(fs, c) <= Cardinality(F) * BlockSize /\ FileSize(fs, c) \in Nat
            BY <1>3, <1>5, <3>5, <4>1, FileSizeIs
          <5>2. Size[job.src] <= FreeBytes(fs')
            BY <1>12, <3>2, <3>5, <4>1, <5>1
          <5>3. QED
            BY <1>10, <2>2, <5>2 DEF Room
        <4>2. CASE job.over # c /\ c = job.at
          <5>1. {c} \in SUBSET Cluster /\ ToSet(fs[c].subs) \subseteq {c}
            BY <1>3, NoElements
          <5>2. Below(fs, c) \subseteq {c}
            BY <1>5, <5>1, BelowIs
          <5>3. QED
            BY <3>5, <4>2, <5>2
        <4>3. CASE job.over # c /\ c # job.at
          <5>1. /\ job.over \in Below(fs', job.at) /\ fs'[job.over].type = "FILE"
                /\ FileSize(fs', job.over) = FileSize(fs, job.over)
            BY <1>3, <1>5, <3>5, <4>3, StillBelow
          <5>2. job' = job /\ job'.op = "rm"
            BY <1>3, <1>4, <4>3
          <5>3. FileSize(fs, job.over) \in Nat
            <6>1. job.over \in Cluster
              BY <1>5, <3>5, BelowIs
            <6>2. QED
              BY <1>5, <3>5, <6>1, FileSizeIs
          <5>4. Size[job.src] <= FreeBytes(fs') + FileSize(fs', job.over)
            BY <1>12, <3>2, <3>5, <5>1, <5>3
          <5>5. QED
            BY <5>1, <5>2, <5>4 DEF Room
        <4>4. QED
          BY <4>1, <4>2, <4>3
      <3>6. QED
        BY <3>3, <3>4, <3>5
    <2>3. CASE job'.op \in {"rm", "create"} /\ job.src = NoHost
      BY <1>10, <2>3 DEF Room
    <2>4. QED
      BY <1>10, <2>1, <2>2, <2>3
  <1>14. /\ job'.op = "rm" => /\ job.op = "rm" /\ job'.at = job.at
                              /\ \A x \in Cluster : Kids(fs', x) \subseteq Kids(fs, x)
                              /\ job'.src # NoHost => job'.over # NONE
    BY <1>3, <1>8, <1>10 DEF MoreInv, SpaceInv
  <1>15. QED
    BY <1>3, <1>7, <1>10, <1>11, <1>13, <1>14, DoesMore

(* Between two commands everything is saved.                               *)
LEMMA ReadyRests ==
  ASSUME IInv, MoreInv, Ready
  PROVE  AtRest
  <1>1. /\ process = "running" /\ job = NoJob /\ writes = <<>> /\ job.op = "none"
    BY ReadyIs
  <1>2. fs \in Image /\ disk \in Image /\ Tree(fs) /\ TypeOK
    BY <1>1, Types DEF IInv
  <1>3. \A c \in Cluster : disk[c] = fs[c]
    BY <1>1, OneVersion
  <1>4. fs = disk
    BY <1>2, <1>3 DEF Image
  <1>5. saved = disk
    BY <1>1 DEF MoreInv, KeepInv
  <1>6. QED
    BY <1>1, <1>2, <1>4, <1>5 DEF AtRest

(* A cluster has one owner.                                                *)
LEMMA OneOwner ==
  ASSUME NEW m \in Image, Tree(m), NEW y \in Cluster, NEW z \in Cluster, NEW c,
         c \in Kids(m, y), c \in Kids(m, z)
  PROVE  y = z
  <1>1. c \in Cluster
    BY KidsType
  <1>2. QED
    BY <1>1 DEF Tree, TreeOwned

(* What is removed with the entry x is a branch of the tree.               *)
LEMMA HoldingsAre ==
  ASSUME NEW m \in Image, Tree(m), NEW x \in Cluster, Entry(m, x)
  PROVE  LET T == Holdings(m, x)
         IN  /\ T \in SUBSET Cluster /\ x \in T /\ Branch(m, T)
             /\ \A y \in T : Kids(m, y) \subseteq T
             /\ \A f \in T : Entry(m, f) => f \in Below(m, x)
  <1> DEFINE B == Below(m, x)
             P == UNION {ToSet(Parts(m, y)) : y \in B}
             T == Holdings(m, x)
  <1>1. /\ B \in SUBSET Cluster /\ x \in B /\ \A y \in B : ToSet(m[y].subs) \subseteq B
    BY BelowIs
  <1>2. T = B \cup P /\ T \in SUBSET Cluster
    BY HoldingsType DEF Holdings
  <1>3. \A y \in B : Entry(m, y)
    BY BelowEntries
  <1> HIDE DEF B, T
  <1>4. ASSUME NEW t \in P
        PROVE  \E y \in B : /\ m[y].type = "FILE" /\ t \in ToSet(Parts(m, y)) /\ m[t].type = "FILE"
                            /\ (m[t].next # NONE => m[t].next \in P)
                            /\ \E z \in Cluster : /\ z \in T /\ m[z].type = "FILE"
                                                  /\ t \in Kids(m, z)
    <2>1. PICK y \in B : t \in ToSet(Parts(m, y))
      OBVIOUS
    <2>2. m[y].type = "FILE" /\ y \in Cluster
      BY <1>1, <2>1, PartsType
    <2> DEFINE F == ToSet(Parts(m, y))
    <2>3. /\ F \subseteq Cluster
          /\ \A z \in F \cup {y} : m[z].type = "FILE" /\ (m[z].next # NONE => m[z].next \in F)
          /\ \A z \in F : \E w \in F \cup {y} : z \in Kids(m, w)
      BY <2>2, PartsAre
    <2>4. F \subseteq P
      OBVIOUS
    <2>5. t \in F
      BY <2>1
    <2> HIDE DEF F, P
    <2>6. PICK z \in F \cup {y} : t \in Kids(m, z)
      BY <2>3, <2>5
    <2>7. z \in Cluster /\ z \in T /\ m[z].type = "FILE"
      BY <1>2, <2>2, <2>3, <2>4, <2>6
    <2>8. QED
      BY <2>1, <2>2, <2>3, <2>4, <2>5, <2>6, <2>7
  <1>5. \A y \in B : m[y].type = "FILE" /\ m[y].next # NONE => m[y].next \in P
    <2> TAKE y \in B
    <2> HAVE m[y].type = "FILE" /\ m[y].next # NONE
    <2>1. y \in Cluster
      BY <1>1
    <2>2. m[y].next \in ToSet(Parts(m, y))
      BY <2>1, PartsAre
    <2>3. QED
      BY <2>2
  <1> HIDE DEF P
  <1>6. ASSUME NEW y \in T PROVE Kids(m, y) \subseteq T
    <2>1. CASE y \in B
      <3>1. y \in Cluster /\ m[y].type \in {"DIRECTORY", "FILE"}
        BY <1>3, <2>1, EntryIs
      <3>2. CASE m[y].type = "DIRECTORY"
        BY <1>1, <1>2, <2>1, <3>1, <3>2, KidsAre
      <3>3. CASE m[y].type = "FILE"
        BY <1>2, <1>5, <2>1, <3>1, <3>3, KidsAre
      <3>4. QED
        BY <3>1, <3>2, <3>3
    <2>2. CASE y \in P
      <3>1. y \in Cluster /\ m[y].type = "FILE" /\ (m[y].next # NONE => m[y].next \in P)
        BY <1>2, <1>4, <2>2
      <3>2. QED
        BY <1>2, <3>1, KidsAre
    <2>3. QED
      BY <1>2, <2>1, <2>2
  <1>7. ASSUME NEW f \in T, Entry(m, f) PROVE f \in B
    <2>1. PICK d \in Cluster : m[d].type = "DIRECTORY" /\ f \in Kids(m, d)
      BY <1>7 DEF Entry, Kids
    <2>2. ASSUME f \in P PROVE FALSE
      <3>1. PICK z \in Cluster : m[z].type = "FILE" /\ f \in Kids(m, z)
        BY <1>4, <2>2
      <3>2. z = d
        BY <2>1, <3>1, OneOwner
      <3>3. QED
        BY <2>1, <3>1, <3>2
    <2>3. QED
      BY <1>2, <2>2
  <1>8. Branch(m, T)
    <2>1. Root \notin T
      <3>1. m[Root].type = "DIRECTORY"
        BY DEF Tree, TreeRoot
      <3>2. Root \notin B
        BY <1>3, EntryIs
      <3>3. QED
        BY <1>2, <1>4, <3>1, <3>2
    <2>2. \A y \in T : ToSet(m[y].subs) \subseteq T
      BY <1>6 DEF Kids
    <2>3. ASSUME NEW z \in Cluster \ T, m[z].type = "FILE", m[z].next \in T PROVE FALSE
      <3>1. m[z].next \in Kids(m, z)
        BY <1>2, <2>3, Clusters DEF Kids
      <3>2. CASE m[z].next \in B
        <4>1. PICK d \in Cluster : m[d].type = "DIRECTORY" /\ m[z].next \in Kids(m, d)
          BY <1>3, <3>2 DEF Entry, Kids
        <4>2. d = z
          BY <3>1, <4>1, OneOwner
        <4>3. QED
          BY <2>3, <4>1, <4>2
      <3>3. CASE m[z].next \in P
        <4>1. PICK y \in Cluster : y \in T /\ m[z].next \in Kids(m, y)
          BY <1>4, <3>3
        <4>2. y = z
          BY <3>1, <4>1, OneOwner
        <4>3. QED
          BY <2>3, <4>1, <4>2
      <3>4. QED
        BY <1>2, <2>3, <3>2, <3>3
    <2>4. QED
      BY <2>1, <2>2, <2>3 DEF Branch
  <1>9. QED
    BY <1>1, <1>2, <1>6, <1>7, <1>8 DEF B, T

(* A command that begins, and has written nothing yet.                     *)
LEMMA BeginDoes ==
  ASSUME IInv, Ready, NEW k, k.op \in {"rm", "create"}, Do(fs, <<>>, k)
  PROVE  /\ Does({}, {}, {})
         /\ fs' = fs /\ writes' = <<>> /\ job' = k /\ disk' = disk /\ saved' = saved
         /\ cut' = cut /\ process' = process
  <1>1. process = "running" /\ writes = <<>> /\ job.op = "none"
    BY ReadyIs
  <1>2. /\ fs' = fs /\ writes' = <<>> /\ job' = k
        /\ disk' = disk /\ saved' = saved /\ cut' = cut /\ process' = process
    BY DEF Do
  <1>3. Taken(fs, fs', job', {}) /\ Puts(fs, fs', writes', {})
    BY <1>2 DEF Taken, Puts
  <1>4. Others(fs, fs', job, {}, {}, {})
    BY <1>1, <1>2 DEF Others, Filling
  <1>5. QED
    BY <1>1, <1>2, <1>3, <1>4 DEF Does

(* The removal of the entry x begins: nothing else can be lost by it.      *)
LEMMA BeginRemoval ==
  ASSUME IInv, IInv', MoreInv, Ready, NEW x \in Cluster, Entry(fs, x),
         NEW k, k.op = "rm", k.at = x, k.touched = Holdings(fs, x),
         k.src # NoHost => k.over # NONE,
         k.src # NoHost /\ fs[k.over].type = "FILE" =>
           Entry(fs, k.over) /\ Size[k.src] <= FreeBytes(fs) + FileSize(fs, k.over),
         Do(fs, <<>>, k)
  PROVE  MoreInv'
  <1>1. /\ Does({}, {}, {})
        /\ fs' = fs /\ writes' = <<>> /\ job' = k /\ disk' = disk /\ saved' = saved
        /\ cut' = cut /\ process' = process /\ process = "running"
    BY BeginDoes DEF Ready
  <1>2. fs = disk /\ saved = disk /\ TypeOK /\ Tree(fs) /\ fs \in Image
    BY <1>1, ReadyRests, Types DEF AtRest
  <1> DEFINE T == Holdings(fs, x)
  <1>3. /\ T \in SUBSET Cluster /\ x \in T /\ Branch(fs, T)
        /\ \A y \in T : Kids(fs, y) \subseteq T
        /\ \A f \in T : Entry(fs, f) => f \in Below(fs, x)
    BY <1>2, HoldingsAre
  <1>4. k.touched = T
    OBVIOUS
  <1> HIDE DEF T
  <1>5. ReadInv'
    BY <1>1, DoesRead DEF MoreInv
  <1>6. AllSmall'
    BY <1>1, DoesSmall DEF MoreInv, ReadInv, SpaceInv
  <1>7. KeepInv'
    <2>1. ASSUME NEW c, NEW r \in Versions(c)' PROVE r = saved[c]
      <3>1. r \in VersionsOf(fs', disk', writes', c)
        BY <2>1 DEF Versions
      <3>2. ~\E i \in 1 .. Len(writes') : TRUE
        BY <1>1
      <3>3. QED
        BY <1>1, <1>2, <3>1, <3>2, VersionsAre
    <2>2. \A c : Remains(c)'
      BY <1>1, <2>1 DEF Remains, Alike
    <2>3. \A e, y : y \in ToSet(saved[e].subs) => Stays(y, e)'
      BY <2>1 DEF Stays
    <2>4. Root \in Cluster /\ EntriesStay(Root)'
      BY <1>1, <2>3, Clusters DEF EntriesStay
    <2>5. Branch(saved, job.touched)'
      BY <1>1, <1>2, <1>3, <1>4 DEF Branch
    <2>6. job' # NoJob
      BY <1>1, NoJobIs
    <2>7. RmFits'
      BY <1>1, <1>3, <1>4 DEF RmFits
    <2>8. FillFits'
      BY <1>1 DEF FillFits
    <2>9. (process # "torn" => Tree(saved))'
      BY <1>1, <1>2
    <2>10. QED
      BY <2>2, <2>4, <2>5, <2>6, <2>7, <2>8, <2>9 DEF KeepInv
  <1>8. SpaceInv'
    <2>1. ASSUME Meant' PROVE Room(fs', job')
      <3>1. CASE k.src = NoHost
        BY <1>1, <3>1 DEF Room
      <3>2. CASE k.src # NoHost
        <4>1. fs[k.over].type = "FILE" /\ k.over \in T
          BY <1>1, <1>2, <1>4, <2>1, <3>2 DEF Meant
        <4>2. k.over \in Below(fs, x)
          BY <1>3, <3>2, <4>1
        <4>3. QED
          BY <1>1, <3>2, <4>1, <4>2 DEF Room
      <3>3. QED
        BY <3>1, <3>2
    <2>2. QED
      BY <1>1, <1>6, <2>1 DEF SpaceInv
  <1>9. QED
    BY <1>5, <1>7, <1>8 DEF MoreInv

(* The removal, if any, and then the job j.                                *)
LEMMA RemovalMore ==
  ASSUME IInv, IInv', MoreInv, Ready,
         NEW p \in Path, NEW plain, NEW t \in Read(Absolute(p)), NEW x,
         x = Target(p, plain, t),
         NEW j \in Job, j.touched = {}, j.op = "create" \/ x # NONE,
         j.op = "create" \/ j.src # NoHost => j.over # NONE,
         j.src # NoHost /\ fs[j.over].type = "FILE" =>
           Entry(fs, j.over) /\ Size[j.src] <= FreeBytes(fs) + FileSize(fs, j.over),
         NEW asTyped, RemoveThen(x, j, asTyped)
  PROVE  MoreInv'
  <1>1. /\ process = "running" /\ fs \in Image /\ Tree(fs) /\ wd \in Cluster
        /\ fs[wd].type = "DIRECTORY" /\ job = NoJob /\ job.op = "none" /\ writes = <<>>
    BY Types, ReadyIs DEF IInv, Fits
  <1>2. Root \in Cluster /\ fs[Root].type = "DIRECTORY"
    BY <1>1, Clusters DEF Tree, TreeRoot
  <1>3. CASE x = NONE
    <2>1. Do(fs, <<>>, j) /\ j.op = "create"
      BY <1>3 DEF RemoveThen
    <2>2. Does({}, {}, {}) /\ job' = j /\ saved' = saved
      BY <2>1, BeginDoes
    <2>3. job'.touched = job.touched /\ job' # NoJob
      BY <1>1, <2>1, <2>2, NoJobIs
    <2>4. ~Meant'
      BY <2>1, <2>2 DEF Meant
    <2>5. QED
      BY <1>1, <2>1, <2>2, <2>3, <2>4, DoesMore
  <1>4. CASE x # NONE /\ wd \in Below(fs, x)
    <2>1. Stop("removed", asTyped)
      BY <1>4 DEF RemoveThen
    <2>2. QED
      BY <1>1, <2>1, StopMore
  <1>5. CASE x # NONE /\ wd \notin Below(fs, x)
    <2> DEFINE k == [j EXCEPT !.op = "rm", !.at = x, !.touched = Holdings(fs, x)]
    <2>1. Do(fs, <<>>, k)
      BY <1>5 DEF RemoveThen
    <2>2. t \in Seq(Name) /\ x = Walk(fs, Root, t)
      <3>1. Absolute(p).names \in Seq(Name)
        BY <1>1, AbsoluteIs
      <3>2. QED
        BY <1>5, <3>1, ReadIs DEF Target
    <2>3. x \in Cluster /\ Entry(fs, x)
      <3>1. /\ x \in Cluster /\ (t = <<>> => x = Root) /\ (t # <<>> => Entry(fs, x))
        BY <1>1, <1>2, <1>5, <2>2, WalkEntry
      <3>2. wd \in Below(fs, Root)
        BY <1>1, DirsBelow
      <3>3. QED
        BY <1>5, <3>1, <3>2
    <2>4. /\ k.op = "rm" /\ k.at = x /\ k.touched = Holdings(fs, x) /\ k.src = j.src
          /\ k.over = j.over
      BY DEF Job
    <2> HIDE DEF k
    <2>5. QED
      BY <2>1, <2>3, <2>4, BeginRemoval
  <1>6. QED
    BY <1>3, <1>4, <1>5

(* zox_fs_rm_s.                                                            *)
LEMMA RmMore ==
  ASSUME IInv, IInv', MoreInv, Rm PROVE MoreInv'
  <1>1. Ready
    BY DEF Rm, Typed
  <1>2. PICK p \in Path, plain \in Spelling : \E t \in Read(Absolute(p)) :
          /\ Target(p, plain, t) # NONE
          /\ RemoveThen(Target(p, plain, t), NoJob, plain /\ t = Absolute(p).names)
    BY DEF Rm
  <1>3. PICK t \in Read(Absolute(p)) :
          /\ Target(p, plain, t) # NONE
          /\ RemoveThen(Target(p, plain, t), NoJob, plain /\ t = Absolute(p).names)
    BY <1>2
  <1>4. /\ NoJob \in Job /\ NoJob.touched = {} /\ NoJob.op # "create" /\ NoJob.src = NoHost
    BY NoJobIs
  <1>5. QED
    BY <1>1, <1>3, <1>4, RemovalMore

(* zox_fs_load_file up to the removal.                                     *)
LEMMA LoadMore ==
  ASSUME IInv, IInv', MoreInv, Load PROVE MoreInv'
  <1>1. Ready
    BY DEF Load, Typed
  <1>2. /\ process = "running" /\ fs \in Image /\ Tree(fs) /\ wd \in Cluster /\ job = NoJob
        /\ fs[wd].type = "DIRECTORY" /\ job.op = "none" /\ writes = <<>> /\ TypeOK
    BY <1>1, Types, ReadyIs DEF IInv, Fits
  <1> DEFINE there(p, s) == Walk(fs, Start(p), s)
             create(f, p, s) == [NoJob EXCEPT !.op = "create", !.src = f, !.over = there(p, s)]
             Begin(f, p, plain, s) ==
               IF there(p, s) = NONE
               THEN /\ Size[f] <= FreeBytes(fs)
                    /\ Do(fs, <<>>, [create(f, p, s) EXCEPT !.start = Start(p), !.path = s])
               ELSE IF Endless(fs, there(p, s)) THEN Stop("hung", TRUE)
               ELSE /\ Size[f] <= FreeBytes(fs) + FileSize(fs, there(p, s))
                    /\ \E t \in IF p.abs THEN {s} ELSE Read(Absolute(p)) :
                         RemoveThen(Target(p, plain, t),
                                    [create(f, p, s) EXCEPT !.start = Root, !.path = t],
                                    plain /\ t = Absolute(p).names)
  <1>3. PICK f \in Host, p \in Path, plain \in Spelling : \E s \in Read(p) : Begin(f, p, plain, s)
    BY DEF Load
  <1>4. PICK s \in Read(p) : Begin(f, p, plain, s)
    BY <1>3
  <1>5. s \in Seq(Name) /\ Start(p) \in Cluster /\ fs[Start(p)].type = "DIRECTORY"
    BY <1>1, <1>2, PathNames, ReadIs, StartIs
  <1>6. /\ there(p, s) \in Cluster \cup {NONE}
        /\ there(p, s) # NONE /\ fs[there(p, s)].type = "FILE" => Entry(fs, there(p, s))
    BY <1>2, <1>5, WalkEntry
  <1> DEFINE c == create(f, p, s)
  <1>7. /\ c \in Job /\ c.op = "create" /\ c.src = f /\ c.over = there(p, s) /\ c.touched = {}
    BY <1>6, NoJobIs DEF Job
  <1>8. f # NoHost
    BY NamesAreNames
  <1>9. CASE there(p, s) = NONE
    <2> DEFINE j == [c EXCEPT !.start = Start(p), !.path = s]
    <2>1. Do(fs, <<>>, j) /\ Size[f] <= FreeBytes(fs)
      BY <1>4, <1>9
    <2> HIDE DEF c, there
    <2>2. j.op = "create" /\ j.src = f /\ j.touched = {}
      BY <1>7 DEF Job
    <2> HIDE DEF j
    <2>3. Does({}, {}, {}) /\ job' = j /\ fs' = fs
      BY <1>1, <2>1, <2>2, BeginDoes
    <2>4. job'.touched = job.touched /\ job' # NoJob
      BY <1>2, <2>2, <2>3, NoJobIs
    <2>5. Room(fs', job')
      BY <2>1, <2>2, <2>3 DEF Room
    <2>6. QED
      BY <1>2, <2>2, <2>3, <2>4, <2>5, DoesMore
  <1>10. CASE there(p, s) # NONE /\ Endless(fs, there(p, s))
    <2>1. Stop("hung", TRUE)
      BY <1>4, <1>10
    <2>2. QED
      BY <1>2, <2>1, StopMore
  <1>11. CASE there(p, s) # NONE /\ ~Endless(fs, there(p, s))
    <2>1. PICK t \in IF p.abs THEN {s} ELSE Read(Absolute(p)) :
            RemoveThen(Target(p, plain, t), [c EXCEPT !.start = Root, !.path = t],
                       plain /\ t = Absolute(p).names)
      BY <1>4, <1>11
    <2>2. t \in Read(Absolute(p))
      BY <1>2, <2>1, AbsoluteIs
    <2>3. t \in Seq(Name)
      BY <1>2, <2>2, AbsoluteIs, ReadIs
    <2>4. Size[f] <= FreeBytes(fs) + FileSize(fs, there(p, s))
      BY <1>4, <1>11
    <2> DEFINE j == [c EXCEPT !.start = Root, !.path = t]
    <2> HIDE DEF c, there
    <2>5. j \in Job /\ j.op = "create" /\ j.src = f /\ j.over = there(p, s) /\ j.touched = {}
      BY <1>7, <2>3, Clusters DEF Job
    <2>6. RemoveThen(Target(p, plain, t), j, plain /\ t = Absolute(p).names)
      BY <2>1
    <2> HIDE DEF j
    <2>7. j.over # NONE /\ (fs[j.over].type = "FILE" =>
            Entry(fs, j.over) /\ Size[j.src] <= FreeBytes(fs) + FileSize(fs, j.over))
      BY <1>6, <1>11, <2>4, <2>5
    <2>8. QED
      BY <1>1, <2>2, <2>5, <2>6, <2>7, RemovalMore
  <1>12. QED
    BY <1>9, <1>10, <1>11

(* zox_fs_extract_file only reads.                                         *)
LEMMA ExtractMore ==
  ASSUME IInv, MoreInv, Extract PROVE MoreInv'
  <1>1. Ready /\ Stop("hung", TRUE)
    BY DEF Extract
  <1>2. QED
    BY <1>1, StopMore DEF Ready

(* An entry that moves keeps all data where it is.                         *)
LEMMA MovedData ==
  ASSUME NEW m \in Image, Tree(m), NEW e \in Cluster, m[e].type = "DIRECTORY",
         NEW c \in ToSet(m[e].subs), NEW d \in Cluster, m[d].type = "DIRECTORY", d # c,
         NEW name \in Name
  PROVE  \A x \in Cluster :
           [Listed(Unlisted(m, c), d, c) EXCEPT ![c].name = name][x].data = m[x].data
  <1> DEFINE u == Unlisted(m, c)
             l == Listed(u, d, c)
             n == [l EXCEPT ![c].name = name]
  <1>1. /\ u \in Image /\ c \in Cluster
        /\ \A x \in Cluster \ {e} : u[x] = m[x]
        /\ u[e].type = "DIRECTORY" /\ u[e].data = m[e].data
    <2>1. TreeDirs(m)
      BY DEF Tree
    <2>2. QED
      BY <2>1, UnlistedIs
  <1> HIDE DEF u
  <1>2. u[d].type = "DIRECTORY" /\ u[c].data = m[c].data /\ u[d].data = m[d].data
    BY <1>1
  <1>3. /\ l \in Image /\ \A x \in Cluster \ {c, d} : l[x] = u[x]
        /\ l[c].data = u[c].data /\ l[d].data = u[d].data
    BY <1>1, <1>2, ListedIs
  <1>4. \A x \in Cluster : l[x].data = m[x].data
    BY <1>1, <1>2, <1>3
  <1> HIDE DEF l
  <1>5. \A x \in Cluster : n[x].data = m[x].data
    <2> DEFINE r == [l[c] EXCEPT !.name = name]
    <2>1. l[c] \in Contents
      BY <1>1, <1>3 DEF Image
    <2>2. r.data = l[c].data
      BY <2>1 DEF Contents
    <2>3. n = [l EXCEPT ![c] = r]
      OBVIOUS
    <2> HIDE DEF r, n
    <2>4. n[c] = r /\ \A x \in Cluster \ {c} : n[x] = l[x]
      BY <1>1, <1>3, <2>3 DEF Image
    <2>5. QED
      BY <1>1, <1>4, <2>2, <2>4
  <1>6. QED
    BY <1>5 DEF l, u

(* A move that begins loses nothing.                                       *)
LEMMA BeginMove ==
  ASSUME IInv, IInv', MoreInv, Ready,
         NEW e \in Cluster, fs[e].type = "DIRECTORY", NEW c \in ToSet(fs[e].subs),
         NEW d \in Cluster, fs[d].type = "DIRECTORY", d \notin Below(fs, c),
         NEW name, MovedTo(fs, e, c, d, name, fs'), \A x \in Cluster : fs'[x].data = fs[x].data,
         Do(fs', Written(fs', <<c, d, e>>), Flushing)
  PROVE  MoreInv'
  <1>1. /\ process = "running" /\ writes = <<>>
        /\ job = NoJob /\ job.op = "none" /\ job.touched = {}
    BY ReadyIs, NoJobIs
  <1>2. /\ fs = disk /\ saved = disk /\ TypeOK /\ Tree(fs) /\ fs \in Image
    BY <1>1, ReadyRests, Types DEF AtRest
  <1>3. /\ writes' = Written(fs', <<c, d, e>>) /\ job' = Flushing
        /\ UNCHANGED <<disk, saved, cut, process>>
    BY DEF Do
  <1>4. /\ c \in Cluster /\ c # d /\ c # e /\ fs' \in Image
        /\ \A x \in Cluster \ {c, d, e} : fs'[x] = fs[x]
        /\ \A x \in Cluster : fs'[x].type = fs[x].type
        /\ fs'[c].subs = fs[c].subs /\ fs'[c].next = fs[c].next /\ fs'[c].used = fs[c].used
        /\ \A x \in Cluster : ToSet(fs'[x].subs) =
             (ToSet(fs[x].subs) \ {c}) \cup IF x = d THEN {c} ELSE {}
    BY DEF MovedTo
  <1>5. \A x \in Cluster : fs[x].type # "DIRECTORY" =>
          fs'[x].used = fs[x].used /\ fs'[x].subs = fs[x].subs /\ fs'[x].next = fs[x].next
    BY <1>4
  <1>6. job'.op = "flush" /\ job' # NoJob /\ job'.touched = {}
    <2>1. Flushing.touched = job.touched
      BY NoJobIs DEF Flushing
    <2>2. QED
      BY <1>1, <1>2, <1>3, <2>1, FlushingIs
  <1>7. /\ Len(writes') = 3 /\ writes'[1] = <<c, fs'[c]>> /\ writes'[2] = <<d, fs'[d]>>
        /\ writes'[3] = <<e, fs'[e]>>
    <2>1. PICK n \in Image : n = fs'
      BY <1>4
    <2>2. c \in Cluster /\ d \in Cluster /\ e \in Cluster
      BY <1>4
    <2>3. /\ Len(Written(n, <<c, d, e>>)) = 3
          /\ Written(n, <<c, d, e>>)[1] = <<c, n[c]>>
          /\ Written(n, <<c, d, e>>)[2] = <<d, n[d]>>
          /\ Written(n, <<c, d, e>>)[3] = <<e, n[e]>>
      <3> DEFINE cs == <<c, d, e>>
      <3>1. cs \in Seq(Cluster) /\ Len(cs) = 3 /\ cs[1] = c /\ cs[2] = d /\ cs[3] = e
        BY <2>2
      <3> HIDE DEF cs
      <3>2. /\ Len(Written(n, cs)) = Len(cs)
            /\ \A i \in 1 .. Len(cs) : Written(n, cs)[i] = <<cs[i], n[cs[i]]>>
        BY <2>1, <3>1, WrittenIs
      <3>3. 1 \in 1 .. Len(cs) /\ 2 \in 1 .. Len(cs) /\ 3 \in 1 .. Len(cs)
        BY <3>1
      <3>4. /\ Len(Written(n, cs)) = 3
            /\ Written(n, cs)[1] = <<c, n[c]>>
            /\ Written(n, cs)[2] = <<d, n[d]>>
            /\ Written(n, cs)[3] = <<e, n[e]>>
        BY <3>1, <3>2, <3>3
      <3>5. QED
        BY <3>4 DEF cs
    <2>4. writes' = Written(n, <<c, d, e>>)
      BY <1>3, <2>1
    <2>5. QED
      BY <2>1, <2>3, <2>4
  <1>8. \A i \in 1 .. Len(writes') : writes'[i][2] = fs'[writes'[i][1]]
    BY <1>7
  <1>9. Does({}, {}, {c})
    <2>1. Taken(fs, fs', job', {}) /\ Puts(fs, fs', writes', {})
      BY <1>8 DEF Taken, Puts
    <2>2. \A x : ~Filling(job, x)
      BY <1>1 DEF Filling
    <2>3. Others(fs, fs', job, {}, {}, {c})
      BY <1>4, <1>5, <2>2 DEF Others
    <2>4. Entry(fs, c)
      BY DEF Entry
    <2>5. QED
      BY <1>1, <1>3, <1>6, <2>1, <2>3, <2>4 DEF Does
  <1>10. ReadInv'
    BY <1>9, DoesRead DEF MoreInv
  <1>11. AllSmall'
    BY <1>9, DoesSmall DEF MoreInv, ReadInv, SpaceInv
  <1>12. SpaceInv'
    BY <1>1, <1>3, <1>6, <1>11 DEF SpaceInv, Room
  <1>13. ASSUME NEW x, NEW r \in Versions(x)' PROVE r = saved[x] \/ r = fs'[x]
    <2>1. r \in VersionsOf(fs', disk', writes', x)
      BY <1>13 DEF Versions
    <2>2. \/ r = fs'[x] \/ r = disk'[x]
          \/ \E i \in 1 .. Len(writes') : writes'[i][1] = x /\ writes'[i][2] = r
      BY <2>1, VersionsAre
    <2>3. QED
      BY <1>2, <1>3, <1>8, <2>2
  <1>14. \A x \in Cluster : Remains(x)'
    <2> TAKE x \in Cluster
    <2>1. SUFFICES ASSUME NEW r \in Versions(x)'
                   PROVE  r.type = saved[x].type /\ (r.type = "FILE" => Alike(r, saved[x]))
      BY <1>3 DEF Remains
    <2>2. CASE r = saved[x]
      BY <2>2 DEF Alike
    <2>3. CASE r = fs'[x]
      BY <1>2, <1>4, <1>5, <2>3 DEF Alike
    <2>4. QED
      BY <1>13, <2>2, <2>3
  <1>15. ASSUME NEW a \in Cluster, NEW x \in ToSet(saved[a].subs)
         PROVE  Stays(x, a)' \/ (x = c /\ Moves(x, a)')
    <2>1. CASE x # c \/ a = d
      <3>1. x \in ToSet(fs'[a].subs)
        BY <1>2, <1>4, <1>15, <2>1
      <3>2. Stays(x, a)'
        BY <1>13, <1>15, <3>1 DEF Stays
      <3>3. QED
        BY <3>2
    <2>2. CASE x = c /\ a # d
      <3>1. a = e
        <4>1. c \in Kids(fs, a) /\ c \in Kids(fs, e)
          BY <1>2, <1>15, <2>2 DEF Kids
        <4>2. QED
          BY <1>2, <4>1, OneOwner
      <3>2. c \in ToSet(fs'[d].subs)
        BY <1>4
      <3>3. \A i \in 1 .. Len(writes') : writes'[i][1] = d => c \in ToSet(writes'[i][2].subs)
        BY <1>8, <3>2
      <3>4. ASSUME NEW i \in 1 .. Len(writes'), writes'[i][1] = e
            PROVE  \E j \in 1 .. i - 1 : writes'[j][1] = d
        <4>1. i = 3
          BY <1>4, <1>7, <2>2, <3>1, <3>4
        <4>2. 2 \in 1 .. i - 1 /\ writes'[2][1] = d
          BY <1>7, <4>1
        <4>3. QED
          BY <4>2
      <3>5. MovesTo(c, e, d)'
        BY <1>2, <1>3, <1>6, <3>3, <3>4 DEF MovesTo
      <3>6. Moves(c, e)'
        BY <1>6, <3>5 DEF Moves
      <3>7. QED
        BY <2>2, <3>1, <3>6
    <2>3. QED
      BY <2>1, <2>2
  <1>16. EntriesStay(c)'
    BY <1>3, <1>15 DEF EntriesStay
  <1>17. KeepInv'
    <2>1. (process # "torn" => Tree(saved))' /\ Branch(saved, job.touched)'
      BY <1>1, <1>2, <1>3, <1>6 DEF Branch
    <2>2. \E k \in Cluster : EntriesStay(k)'
      BY <1>4, <1>16
    <2>3. QED
      BY <1>6, <1>14, <2>1, <2>2 DEF KeepInv, RmFits, FillFits
  <1>18. QED
    BY <1>10, <1>12, <1>17 DEF MoreInv

(* zox_fs_mv.                                                              *)
LEMMA MvMore ==
  ASSUME IInv, IInv', MoreInv, Mv PROVE MoreInv'
  <1>1. Ready
    BY DEF Mv, Typed
  <1>2. /\ process = "running" /\ fs \in Image /\ Tree(fs) /\ wd \in Cluster /\ job = NoJob
        /\ fs[wd].type = "DIRECTORY" /\ job.op = "none" /\ writes = <<>> /\ TypeOK
    BY <1>1, Types, ReadyIs DEF IInv, Fits
  <1> DEFINE moved(c, q, d) == [Listed(Unlisted(fs, c), d, c) EXCEPT ![c].name = Last(q.names)]
             Into(p, s, c, q, plain, d) ==
               LET exact == d = Walk(fs, Root, Front(Absolute(q).names)) /\ s = p.names
               IN  IF d \in Below(fs, c) THEN Stop("cycle", plain /\ exact)
                   ELSE IF fs[d].type = "FILE" THEN Stop("intoFile", TRUE)
                   ELSE Do(moved(c, q, d), Written(moved(c, q, d), <<c, d, fs[c].parent>>),
                           Flushing)
  <1>3. PICK p \in Path : \E s \in Read(p) : \E c \in {Walk(fs, Start(p), s)} \cap Cluster :
          \E q \in Path : \E r \in Read(q) :
            /\ Walk(fs, Start(q), r) = NONE
            /\ \E plain \in Spelling : /\ ~(plain /\ Starts(Absolute(q).names, Absolute(p).names))
                                      /\ \E d \in Parents(Absolute(q)) : Into(p, s, c, q, plain, d)
    BY DEF Mv
  <1>4. PICK s \in Read(p) : \E c \in {Walk(fs, Start(p), s)} \cap Cluster :
          \E q \in Path : \E r \in Read(q) :
            /\ Walk(fs, Start(q), r) = NONE
            /\ \E plain \in Spelling : /\ ~(plain /\ Starts(Absolute(q).names, Absolute(p).names))
                                      /\ \E d \in Parents(Absolute(q)) : Into(p, s, c, q, plain, d)
    BY <1>3
  <1>5. PICK c \in {Walk(fs, Start(p), s)} \cap Cluster, q \in Path : \E r \in Read(q) :
            /\ Walk(fs, Start(q), r) = NONE
            /\ \E plain \in Spelling : /\ ~(plain /\ Starts(Absolute(q).names, Absolute(p).names))
                                      /\ \E d \in Parents(Absolute(q)) : Into(p, s, c, q, plain, d)
    BY <1>4
  <1>6. PICK r \in Read(q) :
            /\ Walk(fs, Start(q), r) = NONE
            /\ \E plain \in Spelling : /\ ~(plain /\ Starts(Absolute(q).names, Absolute(p).names))
                                      /\ \E d \in Parents(Absolute(q)) : Into(p, s, c, q, plain, d)
    BY <1>5
  <1>7. PICK plain \in Spelling, d \in Parents(Absolute(q)) : Into(p, s, c, q, plain, d)
    BY <1>6
  <1> HIDE DEF Into
  <1>8. /\ c = Walk(fs, Start(p), s) /\ c \in Cluster /\ (c # Root => Entry(fs, c))
    <2>1. /\ s \in Seq(Name) /\ Start(p) \in Cluster /\ fs[Start(p)].type = "DIRECTORY"
          /\ (s = <<>> => Start(p) = Root)
      BY <1>2, PathNames, ReadIs, StartIs DEF Start
    <2>2. c = Walk(fs, Start(p), s) /\ c \in Cluster /\ c # NONE
      BY <1>5, Clusters
    <2>3. QED
      BY <1>2, <2>1, <2>2, WalkEntry
  <1>9. q.names \in Seq(Name) /\ q.names # <<>>
    <2>1. q.names \in Seq(Name)
      BY PathNames
    <2>2. Start(q) \in Cluster /\ fs[Start(q)].type = "DIRECTORY"
      BY <1>2, StartIs
    <2>3. r # <<>>
      BY <1>2, <1>6, <2>2, WalkIs, Clusters
    <2>4. QED
      BY <2>1, <2>3, ReadIs
  <1>10. d \in Cluster /\ d \in Below(fs, Root) /\ fs[d].type \in {"DIRECTORY", "FILE"}
    <2>1. Absolute(q) \in [abs : BOOLEAN, names : Seq(Name)] /\ Absolute(q).names # <<>>
      BY <1>2, <1>9, AbsoluteIs
    <2>2. QED
      BY <1>2, <2>1, ParentsAre
  <1>11. CASE d \in Below(fs, c)
    <2> DEFINE exact == d = Walk(fs, Root, Front(Absolute(q).names)) /\ s = p.names
    <2>1. Stop("cycle", plain /\ exact)
      BY <1>7, <1>11 DEF Into
    <2>2. QED
      BY <1>2, <2>1, StopMore
  <1>12. CASE d \notin Below(fs, c) /\ fs[d].type = "FILE"
    <2>1. Stop("intoFile", TRUE)
      BY <1>7, <1>12 DEF Into
    <2>2. QED
      BY <1>2, <2>1, StopMore
  <1>13. CASE d \notin Below(fs, c) /\ fs[d].type # "FILE"
    <2> DEFINE n == moved(c, q, d)
               w == Written(n, <<c, d, fs[c].parent>>)
    <2>1. Do(n, w, Flushing)
      BY <1>7, <1>13 DEF Into
    <2>2. PICK e \in Cluster : fs[e].type = "DIRECTORY" /\ c \in ToSet(fs[e].subs)
      <3>1. c # Root
        BY <1>10, <1>13
      <3>2. QED
        BY <1>8, <3>1 DEF Entry
    <2>3. Last(q.names) \in Name /\ fs[d].type = "DIRECTORY"
      BY <1>9, <1>10, <1>13, FrontIs
    <2>4. MovedTo(fs, e, c, d, Last(q.names), n)
      BY <1>2, <1>10, <1>13, <2>2, <2>3, Moved
    <2>5. c # d /\ fs[c].parent = e
      <3> HIDE DEF n, moved
      <3>1. QED
        BY <2>4 DEF MovedTo
    <2>6. \A x \in Cluster : n[x].data = fs[x].data
      BY <1>2, <1>10, <2>2, <2>3, <2>5, MovedData
    <2> HIDE DEF n, moved
    <2>7. fs' = n /\ Do(fs', Written(fs', <<c, d, e>>), Flushing)
      BY <2>1, <2>5 DEF Do
    <2>8. MovedTo(fs, e, c, d, Last(q.names), fs') /\ \A x \in Cluster : fs'[x].data = fs[x].data
      BY <2>4, <2>6, <2>7
    <2>9. QED
      BY <1>1, <1>10, <1>13, <2>2, <2>3, <2>7, <2>8, BeginMove
  <1>14. QED
    BY <1>10, <1>11, <1>12, <1>13

(* Every step keeps it.                                                    *)
LEMMA StepMore ==
  ASSUME IInv, IInv', MoreInv, [Next]_vars PROVE MoreInv'
  <1>1. CASE UNCHANGED vars
    BY <1>1, StutterMore DEF vars
  <1>2. CASE Cd
    BY <1>2, StutterMore DEF Cd
  <1>3. CASE Mkdir
    BY <1>3, MkdirMore
  <1>4. CASE Rm
    BY <1>4, RmMore
  <1>5. CASE Load
    BY <1>5, LoadMore
  <1>6. CASE Mv
    BY <1>6, MvMore
  <1>7. CASE Cp
    BY <1>7, CpMore
  <1>8. CASE Extract
    BY <1>8, ExtractMore
  <1>9. CASE RmStep
    BY <1>9, RmStepMore
  <1>10. CASE LoadCreate
    BY <1>10, LoadCreateMore
  <1>11. CASE LoadPart
    BY <1>11, LoadPartMore
  <1>12. CASE CpStep
    BY <1>12, CpStepMore
  <1>13. CASE Flush
    BY <1>13, FlushMore
  <1>14. CASE Restart
    BY <1>14, RestartMore
  <1>15. QED
    BY <1>1, <1>2, <1>3, <1>4, <1>5, <1>6, <1>7, <1>8, <1>9, <1>10, <1>11, <1>12, <1>13, <1>14
       DEF Next

(* Both invariants hold in every state.                                    *)
THEOREM MoreInvariant == Spec => [](IInv /\ MoreInv)
  <1>1. Init => IInv /\ MoreInv
    BY InitKeeps, InitMore
  <1>2. IInv /\ MoreInv /\ [Next]_vars => (IInv /\ MoreInv)'
    <2> SUFFICES ASSUME IInv, MoreInv, [Next]_vars PROVE (IInv /\ MoreInv)'
      OBVIOUS
    <2>1. IInv'
      BY StepKeeps
    <2>2. QED
      BY <2>1, StepMore
  <1>3. QED
    BY <1>1, <1>2, PTL DEF Spec

-----------------------------------------------------------------------------
(***************************************************************************)
(* What the invariants say between two commands, and in the middle of one. *)
(***************************************************************************)

(* A file that the root leads to is an entry of a directory.               *)
LEMMA FilesListed ==
  ASSUME NEW m \in Image, Tree(m), NEW f \in Below(m, Root), m[f].type = "FILE"
  PROVE  f \in Cluster /\ Entry(m, f)
  <1> DEFINE S == {Root} \cup {x \in Cluster : Entry(m, x)}
  <1>1. S \in SUBSET Cluster /\ Root \in S
    BY Clusters
  <1>2. ASSUME NEW x \in S PROVE ToSet(m[x].subs) \subseteq S
    <2>1. SUFFICES ASSUME NEW y \in ToSet(m[x].subs) PROVE y \in S
      OBVIOUS
    <2>2. x \in Cluster
      BY <1>1, <1>2
    <2>3. m[x].type = "DIRECTORY" /\ y \in Cluster
      BY <2>1, <2>2, RefersToUsed
    <2>4. QED
      BY <2>1, <2>2, <2>3 DEF Entry
  <1> HIDE DEF S
  <1>3. Below(m, Root) \subseteq S /\ f \in Cluster
    BY <1>1, <1>2, Clusters, BelowIs
  <1>4. f # Root
    BY DEF Tree, TreeRoot
  <1>5. QED
    BY <1>3, <1>4 DEF S

(* The data of a block of a host file.                                     *)
LEMMA HostData ==
  ASSUME NEW h \in Host, NEW i PROVE <<h, i>> # NoData
  <1>1. NoData[1] = NoHost
    BY DEF NoData, NoHost
  <1>2. <<h, i>>[1] = h /\ h # NoHost
    BY NamesAreNames
  <1>3. QED
    BY <1>1, <1>2, Zenon

(* The blocks of a file that begins with the first block of a host file    *)
(* are the blocks of that file in order.                                   *)
LEMMA BlocksInOrder ==
  ASSUME IInv, MoreInv, Ready, NEW f \in Cluster, fs[f].type = "FILE",
         fs[f].data # NoData, fs[f].data[2] = 1
  PROVE  /\ fs[f].data[1] \in Host
         /\ \A i \in 1 .. Len(Chain(fs, f)) :
              LET b == Chain(fs, f)[i]
              IN  /\ b \in Cluster /\ fs[b].data = <<fs[f].data[1], i>>
                  /\ fs[b].used = AtMost(Size[fs[f].data[1]] - (i - 1) * BlockSize)
  <1> DEFINE s == Chain(fs, f)
             from == fs[f].data[1]
             T == {i \in Nat : i + 1 <= Len(s) => fs[s[i + 1]].data = <<from, i + 1>>}
  <1>1. process = "running" /\ writes = <<>> /\ fs \in Image /\ Tree(fs)
    BY ReadyIs, MoreIs
  <1>2. \A c \in Cluster : DataFits(fs[c]) /\ fs[c] \in Versions(c)
    BY <1>1, MoreIs
  <1>3. from \in Host
    BY <1>2 DEF DataFits
  <1>4. fs[f].data = <<from, 1>>
    <2>1. fs[f].data \in (Host \cup {NoHost}) \X Nat
      BY <1>1, Fields
    <2>2. QED
      BY <2>1
  <1>5. s \in Seq(Cluster) /\ s # <<>> /\ Len(s) \in Nat /\ s[1] = f
        /\ \A i \in 1 .. Len(s) - 1 : fs[s[i]].next # NONE /\ s[i + 1] = fs[s[i]].next
    BY <1>1, ChainIs DEF IsWalk
  <1>6. \A i \in 1 .. Len(s) : fs[s[i]].type = "FILE" /\ s[i] \in Cluster
    BY <1>1, <1>5, FileEnds
  <1> HIDE DEF s, from
  <1>7. 0 \in T
    BY <1>4, <1>5
  <1>8. ASSUME NEW i \in Nat, i \in T PROVE i + 1 \in T
    <2> SUFFICES ASSUME (i + 1) + 1 <= Len(s)
                 PROVE  fs[s[(i + 1) + 1]].data = <<from, (i + 1) + 1>>
      OBVIOUS
    <2> DEFINE b == s[i + 1]
               c == s[(i + 1) + 1]
    <2>1. i + 1 \in 1 .. Len(s) - 1 /\ i + 1 \in 1 .. Len(s) /\ (i + 1) + 1 \in 1 .. Len(s)
      BY <1>5
    <2>2. b \in Cluster /\ fs[b].next # NONE /\ c = fs[b].next
          /\ c \in Cluster /\ fs[c].type = "FILE"
      BY <1>5, <1>6, <2>1
    <2>3. fs[b].data = <<from, i + 1>>
      BY <1>5, <1>8, <2>1
    <2> HIDE DEF b, c
    <2>4. fs[b].data # NoData
      BY <1>3, <2>3, HostData, Zenon
    <2>5. Follows(fs[c], fs[b])
      BY <1>2, <2>2, <2>4 DEF MoreInv, ReadInv, BlocksFollow
    <2>6. fs[c].data = <<from, (i + 1) + 1>>
      BY <2>2, <2>3, <2>5 DEF Follows
    <2>7. QED
      BY <2>6 DEF c
  <1>9. Nat \subseteq T
    <2> HIDE DEF T
    <2>1. QED
      BY <1>7, <1>8, NatSet
  <1>10. ASSUME NEW i \in 1 .. Len(s)
         PROVE  /\ s[i] \in Cluster /\ fs[s[i]].data = <<from, i>>
                /\ fs[s[i]].used = AtMost(Size[from] - (i - 1) * BlockSize)
    <2>1. i - 1 \in Nat /\ (i - 1) + 1 = i /\ i <= Len(s)
      BY <1>5
    <2>2. i - 1 \in T
      BY <1>9, <2>1
    <2>3. s[i] \in Cluster /\ fs[s[i]].data = <<from, i>>
      BY <1>6, <2>1, <2>2
    <2>4. fs[s[i]].data # NoData /\ DataFits(fs[s[i]])
      <3>1. fs[s[i]].data # NoData
        BY <1>3, <2>3, HostData, Zenon
      <3>2. QED
        BY <1>2, <2>3, <3>1
    <2>5. fs[s[i]].data[1] = from /\ fs[s[i]].data[2] = i
      BY <2>3
    <2>6. QED
      BY <2>3, <2>4, <2>5 DEF DataFits
  <1>11. QED
    BY <1>3, <1>10 DEF s, from

(* A file holds what load read of the host file, after any moves and       *)
(* copies, and all of it unless a command was cut: FilesReadBack.          *)
LEMMA ReadsBack ==
  ASSUME IInv, MoreInv PROVE FilesReadBack
  <1>1. SUFFICES ASSUME Ready, NEW f \in Below(fs, Root), fs[f].type = "FILE",
                        fs[f].data # NoData
                 PROVE  /\ \A i \in DOMAIN Chain(fs, f) :
                             /\ fs[Chain(fs, f)[i]].data = <<fs[f].data[1], i>>
                             /\ fs[Chain(fs, f)[i]].used =
                                  AtMost(Size[fs[f].data[1]] - (i - 1) * BlockSize)
                        /\ cut = "no" => FileSize(fs, f) = Size[fs[f].data[1]]
    BY DEF FilesReadBack
  <1>2. process = "running" /\ writes = <<>> /\ job.op = "none" /\ fs \in Image /\ Tree(fs)
    BY <1>1, ReadyIs, MoreIs
  <1>3. f \in Cluster /\ Entry(fs, f)
    BY <1>1, <1>2, FilesListed
  <1>4. fs[f].data[2] = 1
    <2>1. PICK d \in Cluster : f \in ToSet(fs[d].subs)
      BY <1>3 DEF Entry
    <2>2. fs[d] \in Versions(d) /\ fs[f] \in Versions(f)
      BY <1>2, <1>3, <2>1, MoreIs
    <2>3. QED
      BY <1>1, <1>3, <2>1, <2>2 DEF MoreInv, ReadInv, EntriesBegin
  <1> DEFINE s == Chain(fs, f)
             from == fs[f].data[1]
  <1>5. s \in Seq(Cluster) /\ Len(s) \in Nat \ {0} /\ fs[Last(s)].next = NONE
        /\ Last(s) = s[Len(s)]
    <2>1. s \in Seq(Cluster) /\ s # <<>> /\ fs[Last(s)].next = NONE
      BY <1>1, <1>2, <1>3, ChainIs, FileEnds DEF IsWalk
    <2> HIDE DEF s
    <2>2. Len(s) \in Nat \ {0} /\ Last(s) = s[Len(s)]
      BY <2>1 DEF Last
    <2>3. QED
      BY <2>1, <2>2
  <1>6. /\ from \in Host
        /\ \A i \in 1 .. Len(s) : /\ s[i] \in Cluster /\ fs[s[i]].data = <<from, i>>
                                  /\ fs[s[i]].used = AtMost(Size[from] - (i - 1) * BlockSize)
    BY <1>1, <1>3, <1>4, BlocksInOrder
  <1> HIDE DEF s, from
  <1>7. DOMAIN s = 1 .. Len(s) /\ Len(s) \in 1 .. Len(s)
    BY <1>5
  <1>8. ASSUME cut = "no" PROVE FileSize(fs, f) = Size[from]
    <2> DEFINE l == Len(s)
               k == (l - 1) * BlockSize
    <2>1. /\ s[l] \in Cluster /\ fs[s[l]].data = <<from, l>> /\ fs[s[l]].next = NONE
          /\ fs[s[l]].used = AtMost(Size[from] - k)
      BY <1>5, <1>6, <1>7
    <2>2. fs[s[l]].data # NoData
      BY <1>6, <2>1, HostData, Zenon
    <2>3. ~Filling(job, s[l])
      BY <1>2 DEF Filling
    <2>4. fs[s[l]].used < BlockSize
      BY <1>8, <2>1, <2>2, <2>3 DEF MoreInv, ReadInv, FilesEnd
    <2>5. k \in Nat /\ BlockSize \in Nat /\ Size[from] \in Nat
      BY <1>5, <1>6, SizesAreNumbers
    <2>6. FileSize(fs, f) = k + fs[s[l]].used
      BY <1>5 DEF FileSize, s
    <2> HIDE DEF k
    <2>7. AtMost(Size[from] - k) = Size[from] - k
      BY <2>1, <2>4, <2>5 DEF AtMost
    <2>8. QED
      BY <2>1, <2>5, <2>6, <2>7
  <1>9. QED
    BY <1>6, <1>7, <1>8 DEF s, from

(* What the root led to when the command began, and the command is not to  *)
(* remove, the root of the image file leads to at every moment.            *)
LEMMA StillReached ==
  ASSUME IInv, MoreInv, process # "torn",
         NEW x \in Below(saved, Root), x \notin job.touched
  PROVE  x \in Below(disk, Root)
  <1> DEFINE R == Below(disk, Root)
             T == job.touched
  <1>1. disk \in Image /\ saved \in Image /\ Tree(saved) /\ Root \in Cluster
        /\ T \in SUBSET Cluster
    BY Types, Clusters DEF IInv, MoreInv, KeepInv, Job
  <1>2. Root \notin T /\ \A y \in T : ToSet(saved[y].subs) \subseteq T
    BY DEF MoreInv, KeepInv, Branch
  <1>3. /\ R \in SUBSET Cluster /\ Root \in R
        /\ \A y \in R : ToSet(disk[y].subs) \subseteq R
    BY <1>1, BelowIs
  <1>4. PICK k \in Cluster : EntriesStay(k)
    BY DEF MoreInv, KeepInv
  <1>5. \A c \in Cluster : disk[c] \in Versions(c)
    BY VersionsAre DEF Versions
  <1>6. ASSUME NEW e \in Cluster \ T, NEW y \in ToSet(saved[e].subs) \ T
        PROVE  y \in ToSet(disk[e].subs) \/ (y = k /\ Moves(y, e))
    BY <1>4, <1>5, <1>6 DEF EntriesStay, Stays
  <1> HIDE DEF R, T
  <1>7. ASSUME NEW e \in R \ T, NEW d \in Cluster, MovesTo(k, e, d) PROVE k \in R
    <2> DEFINE S == R \cup T \cup Below(saved, k)
    <2>1. /\ Below(saved, k) \in SUBSET Cluster /\ k \in Below(saved, k)
          /\ \A y \in Below(saved, k) : ToSet(saved[y].subs) \subseteq Below(saved, k)
      BY <1>1, <1>4, BelowIs
    <2>2. ASSUME NEW y \in S PROVE ToSet(saved[y].subs) \subseteq S
      <3>1. SUFFICES ASSUME NEW z \in ToSet(saved[y].subs) PROVE z \in S
        OBVIOUS
      <3>2. CASE y \in T \/ y \in Below(saved, k)
        BY <1>2, <2>1, <3>1, <3>2 DEF T
      <3>3. CASE y \in R \ T /\ z \in T
        BY <3>3
      <3>4. CASE y \in R \ T /\ z \notin T
        <4>1. y \in Cluster \ T /\ z \in ToSet(saved[y].subs) \ T
          BY <1>3, <3>1, <3>4
        <4>2. z \in ToSet(disk[y].subs) \/ z = k
          BY <1>6, <4>1
        <4>3. QED
          BY <1>3, <2>1, <3>4, <4>2
      <3>5. QED
        BY <2>2, <3>2, <3>3, <3>4
    <2>3. S \in SUBSET Cluster /\ Root \in S
      BY <1>1, <1>3, <2>1
    <2> HIDE DEF S
    <2>4. Below(saved, Root) \subseteq S
      BY <1>1, <2>2, <2>3, BelowIs
    <2>5. /\ d \notin T /\ saved[d].type = "DIRECTORY" /\ d \notin Below(saved, k)
          /\ k \in ToSet(disk[e].subs) \/ k \in ToSet(disk[d].subs)
      BY <1>7 DEF MovesTo, T
    <2>6. d \in R
      <3>1. d \in Below(saved, Root)
        BY <1>1, <2>5, DirsBelow
      <3>2. QED
        BY <2>4, <2>5, <3>1 DEF S
    <2>7. QED
      BY <1>3, <1>7, <2>5, <2>6
  <1> DEFINE S == R \cup T
  <1>8. ASSUME NEW y \in S PROVE ToSet(saved[y].subs) \subseteq S
    <2>1. SUFFICES ASSUME NEW z \in ToSet(saved[y].subs), y \notin T, z \notin T PROVE z \in R
      BY <1>2 DEF T
    <2>2. y \in R \ T /\ y \in Cluster \ T
      BY <1>3, <1>8, <2>1
    <2>3. z \in ToSet(disk[y].subs) \/ (z = k /\ Moves(z, y))
      BY <1>6, <2>1, <2>2
    <2>4. CASE z \in ToSet(disk[y].subs)
      BY <1>3, <2>2, <2>4
    <2>5. CASE z = k /\ Moves(z, y)
      <3>1. PICK d \in Cluster : MovesTo(k, y, d)
        BY <2>5 DEF Moves
      <3>2. QED
        BY <1>7, <2>2, <2>5, <3>1
    <2>6. QED
      BY <2>3, <2>4, <2>5
  <1>9. S \in SUBSET Cluster /\ Root \in S
    BY <1>1, <1>3
  <1> HIDE DEF S
  <1>10. Below(saved, Root) \subseteq S
    BY <1>1, <1>8, <1>9, BelowIs
  <1>11. QED
    BY <1>10 DEF S, R, T

(* No command loses a file it was not told to remove or to replace.        *)
LEMMA KeepsFiles ==
  ASSUME IInv, MoreInv PROVE NothingLost
  <1>1. SUFFICES ASSUME process # "torn", NEW f \in Below(saved, Root) \ job.touched,
                        saved[f].type = "FILE"
                 PROVE  Kept(f)
    BY DEF NothingLost
  <1> DEFINE T == job.touched
  <1>2. disk \in Image /\ saved \in Image /\ Tree(saved) /\ TreeFiles(saved)
        /\ T \in SUBSET Cluster
    BY <1>1, Types DEF IInv, MoreInv, KeepInv, Job, Tree
  <1>3. /\ \A y \in T : ToSet(saved[y].subs) \subseteq T
        /\ \A y \in Cluster \ T : saved[y].type = "FILE" => saved[y].next \notin T
    BY DEF MoreInv, KeepInv, Branch
  <1>4. f \in Cluster /\ Entry(saved, f)
    BY <1>1, <1>2, FilesListed
  <1>5. \A c \in Cluster : disk[c] \in Versions(c)
    BY VersionsAre DEF Versions
  <1>6. \A c \in Cluster \ T : saved[c].type # "EMPTY" =>
          disk[c].type = saved[c].type /\ (disk[c].type = "FILE" => Alike(disk[c], saved[c]))
    BY <1>5 DEF MoreInv, KeepInv, Remains
  <1>7. \A d \in Cluster \ T : saved[d].type = "DIRECTORY" =>
          d \in Below(disk, Root) /\ disk[d].type = "DIRECTORY"
    <2> TAKE d \in Cluster \ T
    <2> HAVE saved[d].type = "DIRECTORY"
    <2>1. d \in Below(saved, Root)
      BY <1>2, DirsBelow
    <2>2. d \in Below(disk, Root)
      BY <1>1, <2>1, StillReached
    <2>3. QED
      BY <1>6, <2>2
  <1>8. \E d \in Below(disk, Root) : disk[d].type = "DIRECTORY" /\ f \in ToSet(disk[d].subs)
    <2>1. PICK e \in Cluster : saved[e].type = "DIRECTORY" /\ f \in ToSet(saved[e].subs)
      BY <1>4 DEF Entry
    <2>2. e \in Cluster \ T /\ f \in ToSet(saved[e].subs) \ T
      BY <1>1, <1>3, <2>1
    <2>3. PICK k \in Cluster : EntriesStay(k)
      BY DEF MoreInv, KeepInv
    <2>4. Stays(f, e) \/ Moves(f, e)
      BY <2>2, <2>3 DEF EntriesStay
    <2>5. CASE f \in ToSet(disk[e].subs)
      BY <1>7, <2>1, <2>2, <2>5
    <2>6. CASE Moves(f, e) /\ f \notin ToSet(disk[e].subs)
      <3>1. PICK d \in Cluster : MovesTo(f, e, d)
        BY <2>6 DEF Moves
      <3>2. d \in Cluster \ T /\ saved[d].type = "DIRECTORY" /\ f \in ToSet(disk[d].subs)
        BY <2>6, <3>1 DEF MovesTo
      <3>3. QED
        BY <1>7, <3>2
    <2>7. QED
      BY <1>5, <2>1, <2>4, <2>5, <2>6 DEF Stays
  <1>9. ASSUME NEW b \in ToSet(Chain(saved, f))
        PROVE  [disk[b] EXCEPT !.parent = 0, !.name = ""] =
                 [saved[b] EXCEPT !.parent = 0, !.name = ""]
    <2> DEFINE s == Chain(saved, f)
               S == Cluster \ T
    <2>1. /\ f \in S
          /\ \A x \in S \cap Cluster :
               saved[x].type = "FILE" /\ saved[x].next # NONE => saved[x].next \in S
      BY <1>1, <1>2, <1>3, <1>4, Fields
    <2>2. s \in Seq(Cluster)
      BY <1>2, <1>4, ChainIs DEF IsWalk
    <2> HIDE DEF S
    <2>3. \A i \in 1 .. Len(s) : s[i] \in S \cap Cluster /\ saved[s[i]].type = "FILE"
      BY <1>1, <1>2, <1>4, <2>1, ChainInside
    <2> HIDE DEF s
    <2>4. \E i \in 1 .. Len(s) : s[i] = b
      <3>1. b \in ToSet(s)
        BY <1>9 DEF s
      <3>2. QED
        BY <2>2, <3>1, Elements
    <2>5. b \in Cluster \ T /\ saved[b].type = "FILE"
      BY <2>3, <2>4 DEF S
    <2>6. Alike(disk[b], saved[b])
      BY <1>6, <2>5
    <2>7. disk[b] \in Contents /\ saved[b] \in Contents
      BY <1>2, <2>5 DEF Image
    <2>8. QED
      BY <2>6, <2>7, AlikeIs
  <1>10. QED
    BY <1>8, <1>9 DEF Kept

(* Whole blocks.                                                           *)
LEMMA WholeBlocks ==
  ASSUME NEW n \in Nat, NEW b \in Nat \ {0}
  PROVE  (n * b) % b = 0
  <1> DEFINE x == n * b
             d == x \div b
             r == x % b
  <1>1. x \in Nat /\ d \in Int /\ r \in 0 .. b - 1 /\ x = b * d + r
    <2>1. x \in Nat
      OBVIOUS
    <2> HIDE DEF x
    <2>2. QED
      BY <2>1
  <1>2. PICK e \in Int : e = n - d
    BY <1>1
  <1>3. r = b * e
    <2>1. b * n = b * d + b * e
      BY <1>1, <1>2
    <2>2. x = b * n
      OBVIOUS
    <2> HIDE DEF x, d, r
    <2>3. QED
      BY <1>1, <2>1, <2>2
  <1> HIDE DEF x, d, r
  <1>4. e = 0
    <2>1. CASE e >= 1
      <3>1. b * e >= b
        BY <2>1
      <3>2. QED
        BY <1>1, <1>3, <3>1
    <2>2. CASE e <= -1
      <3>1. b * e <= -b
        BY <2>2
      <3>2. QED
        BY <1>1, <1>3, <3>1
    <2>3. QED
      BY <2>1, <2>2
  <1>5. r = 0
    BY <1>3, <1>4
  <1>6. QED
    BY <1>5 DEF r, x

(* The space check of load covers what it takes, but for a size that is a  *)
(* multiple of the block.                                                  *)
LEMMA CoversSpace ==
  ASSUME IInv, MoreInv PROVE SpaceCheckCovers
  <1>1. SUFFICES ASSUME process = "failed", job.op = "part", Meant
                 PROVE  Size[job.src] % BlockSize = 0
    BY DEF SpaceCheckCovers, Meant
  <1> DEFINE n == fs[job.at].data[2]
             z == Size[job.src]
  <1>2. z \in Nat /\ n \in Nat /\ BlockSize \in Nat \ {0}
    <2>1. job.src \in Host
      BY <1>1 DEF IInv, Fits
    <2>2. job.at \in Cluster /\ fs \in Image
      BY Types DEF IInv, Job
    <2>3. fs[job.at].data \in (Host \cup {NoHost}) \X Nat
      BY <2>2, Fields
    <2>4. QED
      BY <2>1, <2>3, SizesAreNumbers
  <1>3. n * BlockSize <= z
    BY <1>1 DEF IInv, Fits
  <1>4. z <= FreeBytes(fs) + n * BlockSize
    BY <1>1 DEF MoreInv, SpaceInv, Room
  <1>5. FreeBytes(fs) = 0
    <2>1. Empties(fs) = {}
      BY <1>1 DEF MoreInv, SpaceInv
    <2>2. Cardinality(Empties(fs)) = 0
      BY <2>1, FS_EmptySet
    <2>3. QED
      BY <1>2, <2>2 DEF FreeBytes
  <1> HIDE DEF n, z
  <1>6. z = n * BlockSize
    <2>1. n * BlockSize \in Nat
      BY <1>2
    <2>2. QED
      BY <1>2, <1>3, <1>4, <1>5, <2>1
  <1>7. z % BlockSize = 0
    BY <1>2, <1>6, WholeBlocks
  <1>8. QED
    BY <1>7 DEF z

(* A file holds the blocks of the host file it was loaded from, in order,  *)
(* after any loads, copies, moves and removals, and all of them unless a   *)
(* command was cut (zox_fs_load_file, zox_fs_cp).                          *)
THEOREM ReadBack == Spec => []FilesReadBack
  <1>1. IInv /\ MoreInv => FilesReadBack
    BY ReadsBack
  <1>2. QED
    BY <1>1, MoreInvariant, PTL

(* The image file keeps every file that the command in progress was not    *)
(* told to remove or replace, wherever the command is cut.                 *)
THEOREM Keeping == Spec => []NothingLost
  <1>1. IInv /\ MoreInv => NothingLost
    BY KeepsFiles
  <1>2. QED
    BY <1>1, MoreInvariant, PTL

(* What load takes fits in the space its check found, unless the size is a *)
(* multiple of the block.                                                  *)
THEOREM SpaceCovered == Spec => []SpaceCheckCovers
  <1>1. IInv /\ MoreInv => SpaceCheckCovers
    BY CoversSpace
  <1>2. QED
    BY <1>1, MoreInvariant, PTL

(* The walks of fsize, cp, extract and load along the blocks of a file end *)
(* at every moment: no sequence of loads, copies, removals, moves and      *)
(* kills makes a circle of blocks.  What hangs them is a directory.        *)
THEOREM FileWalksEnd ==
  Spec => [](process # "torn" => \A c \in Cluster : fs[c].type = "FILE" => ~Endless(fs, c))
  <1>1. IInv => (process # "torn" => \A c \in Cluster : fs[c].type = "FILE" => ~Endless(fs, c))
    <2> SUFFICES ASSUME IInv, process # "torn", NEW c \in Cluster, fs[c].type = "FILE"
                 PROVE  ~Endless(fs, c)
      OBVIOUS
    <2>1. fs \in Image /\ Tree(fs)
      BY Types DEF IInv
    <2>2. QED
      BY <2>1, FileEnds DEF Endless
  <1>2. QED
    BY <1>1, Invariant, PTL

(* Wherever a command is cut, the root of the image file still leads to    *)
(* every directory and file that it was not told to remove, also to those  *)
(* below a directory which mv was about to move.                           *)
THEOREM StaysReached ==
  Spec => [](process # "torn" =>
               \A x \in Below(saved, Root) \ job.touched : x \in Below(disk, Root))
  <1>1. IInv /\ MoreInv =>
          (process # "torn" =>
             \A x \in Below(saved, Root) \ job.touched : x \in Below(disk, Root))
    BY StillReached
  <1>2. QED
    BY <1>1, MoreInvariant, PTL
=============================================================================
