----------------------------- MODULE FileSystem -----------------------------
(***************************************************************************)
(* The file system of lab7 (zox-fs): a fixed array of 4 KB clusters held   *)
(* in memory, every change of a cluster written through to the same place  *)
(* of the image file.  One process reads commands (repl.c) and runs them   *)
(* to the end; it may be killed at any moment, and the next run loads what *)
(* the image file holds.                                                   *)
(*                                                                         *)
(* A command changes memory and writes clusters in the order of its code.  *)
(* Nobody looks at memory between two writes, so an action changes memory  *)
(* at once and leaves the writes it makes in `writes'; Flush performs them *)
(* one at a time.  rm removes one leaf per step, load and cp fill one      *)
(* block per step.  A refused command changes nothing and has no step.     *)
(*                                                                         *)
(* A directory and a file share their bytes (the union of cluster.h): the  *)
(* count of subnodes is bytes_used, the first subnode is next_cluster.     *)
(* Records keep that overlap, because load, cp and extract follow          *)
(* next_cluster without looking at the type.  What an unused cluster keeps *)
(* of its name and parent is not recorded: nothing reads it.               *)
(***************************************************************************)
EXTENDS Integers, FiniteSets, SequencesExt

CONSTANTS
  Count,      \* FS_FILE_CLUSTERS_COUNT
  BlockSize,  \* FILE_CLUSTER_DATA_SIZE
  Name,       \* file names
  Extends,    \* the pairs <<x, y>> where the text of x starts with the text of y
  Host,       \* files of the host that load reads
  Size,       \* their sizes
  MaxDepth,   \* bound on the names of a path that is typed
  MaxTyped,   \* bound on the commands that change the file system
  Variants    \* the irregular outcomes that may occur, see Spelling, Read, Parents

NONE == -1
Root == 0
Cluster == 0 .. Count - 1
Type == {"EMPTY", "DIRECTORY", "FILE"}
NoData == <<"none", 0>>
NoHost == "none"
Names == UNION {[1 .. n -> Name] : n \in 0 .. MaxDepth}
Path == [abs : BOOLEAN, names : Names] \ {[abs |-> FALSE, names |-> <<>>]}

ASSUME SizesAreNumbers ==
  /\ Count \in Nat \ {0} /\ BlockSize \in Nat \ {0}
  /\ MaxDepth \in Nat /\ MaxTyped \in Nat
  /\ Size \in [Host -> Nat]
ASSUME NamesAreNames ==
  /\ "" \notin Name /\ "/" \notin Name /\ NoHost \notin Host
  /\ Extends \subseteq Name \X Name
\* The count of the entries of a directory, which cp takes for bytes, is at most
\* a block: there are 20 clusters, with nearly 4096 bytes each.
ASSUME DirectoriesFit == Count <= BlockSize + 1
ASSUME VariantsAreKnown == Variants \subseteq {"slashes", "garbled", "stray"}

VARIABLES
  fs,       \* context->_fs: the clusters in memory
  wd,       \* context->_working_directory
  disk,     \* the clusters of the image file
  writes,   \* the writes the command in progress has still to make
  job,      \* the command in progress
  saved,    \* the image as the last finished command left it (history)
  cut,      \* whether a command was ever cut by a kill or a crash (history)
  typed,    \* the commands typed that changed something (bound)
  process   \* "running", or why nothing follows

vars == <<fs, wd, disk, writes, job, saved, cut, typed, process>>

Blank == [type |-> "EMPTY", parent |-> 0, name |-> "", used |-> 0,
          next |-> 0, subs |-> <<>>, data |-> NoData]
NoJob == [op |-> "none", at |-> Root, from |-> Root, start |-> Root, path |-> <<>>,
          src |-> NoHost, asTyped |-> TRUE, over |-> NONE, touched |-> {}]

(***************************************************************************)
(* Definitions marked "Not the code" are variants the properties catch.    *)
(***************************************************************************)
\* Not the code: every cluster that is not a directory counts as free
CountsFiles(m) == Cardinality({c \in Cluster : m[c].type # "DIRECTORY"}) * BlockSize

\* Not the code: the count goes down in the loop and after it
CountsDownTwice(m, c) ==
  LET d == m[c].parent
      left == RemoveFirst(m[d].subs, c)
  IN  [m EXCEPT ![d].subs = left, ![d].used = @ - 2,
                ![d].next = IF left = <<>> THEN @ ELSE Head(left)]

(***************************************************************************)
(* The structures in the clusters m.                                       *)
(***************************************************************************)
\* get_subnode: the first entry of directory d with that name
GetSubnode(m, d, n) ==
  LET i == SelectInSeq(m[d].subs, LAMBDA c : m[c].name = n)
  IN  IF d # NONE /\ m[d].type = "DIRECTORY" /\ i # 0 THEN m[d].subs[i] ELSE NONE

\* cluster_by_name: the cluster the names lead to from d
Walk(m, d, names) ==
  LET at[n \in 0 .. Len(names)] ==
        IF n = 0 THEN d ELSE GetSubnode(m, at[n - 1], names[n])
  IN  at[Len(names)]

Empties(m) == {c \in Cluster : m[c].type = "EMPTY"}
FreeCluster(m) == {c \in Empties(m) : \A e \in Empties(m) : c <= e}
FreeBytes(m) == Cardinality(Empties(m)) * BlockSize

\* the clusters a walk along next_cluster visits (all of them if it never ends)
Chain(m, c) ==
  LET walk[n \in 0 .. Count] ==
        IF n = 0 THEN <<c>>
        ELSE LET w == walk[n - 1]
             IN  IF m[Last(w)].next = NONE THEN w ELSE Append(w, m[Last(w)].next)
  IN  walk[Count]
Endless(m, c) == m[Last(Chain(m, c))].next # NONE
\* Not the code: the last block of a file is forgotten
ForgetsLastPart(m, c) ==
  IF m[c].type = "FILE" /\ m[c].next # NONE THEN Front(Tail(Chain(m, c))) ELSE <<>>

\* the blocks of a file after its first
Parts(m, c) == IF m[c].type = "FILE" THEN Tail(Chain(m, c)) ELSE <<>>
FileSize(m, c) ==
  (Len(Chain(m, c)) - 1) * BlockSize + m[Last(Chain(m, c))].used

Listed(m, d, c) ==
  [m EXCEPT ![c].parent = d, ![d].subs = Append(@, c), ![d].used = @ + 1,
            ![d].next = IF m[d].used = 0 THEN c ELSE @]
Unlisted(m, c) ==
  LET d == m[c].parent
      left == RemoveFirst(m[d].subs, c)
  IN  [m EXCEPT ![d].subs = left, ![d].used = @ - 1,
                ![d].next = IF left = <<>> THEN @ ELSE Head(left)]
Freed(m, cs) ==
  [c \in Cluster |-> IF c \in cs THEN [Blank EXCEPT !.used = m[c].used, !.next = m[c].next]
                     ELSE m[c]]

\* c and everything listed under it
Below(m, c) ==
  LET under[n \in 0 .. Count] ==
        IF n = 0 THEN {c}
        ELSE under[n - 1] \cup UNION {ToSet(m[x].subs) : x \in under[n - 1]}
  IN  under[Count]
Holdings(m, c) ==
  Below(m, c) \cup UNION {ToSet(Parts(m, x)) : x \in Below(m, c)}

\* where the recursion of _zox_fs_rm on the first entries ends
FirstLeaf(m, c) ==
  LET down[n \in 0 .. Count] ==
        IF n = 0 THEN c
        ELSE LET x == down[n - 1]
             IN  IF m[x].subs = <<>> THEN x ELSE Head(m[x].subs)
  IN  down[Count]

(***************************************************************************)
(* Paths.  A path is typed relative or absolute.  The code reads it three  *)
(* ways, and each may go wrong where Variants says so:                     *)
(*   slashes  a redundant slash (//a, /a/) leads to the same cluster but   *)
(*            no longer compares equal as text;                            *)
(*   garbled  the leading slash is dropped by a strcpy onto itself, which  *)
(*            may change letters of an absolute path (mkdir /tmp2 makes    *)
(*            tp22): another name is read;                                 *)
(*   stray    split_absolute_path does not end the directory's text, so    *)
(*            what the stack holds after it may lead on below it, or to    *)
(*            nothing.                                                     *)
(***************************************************************************)
Spelling == IF "slashes" \in Variants THEN BOOLEAN ELSE {TRUE}   \* TRUE: plain

Read(p) ==
  {p.names} \cup IF p.abs /\ "garbled" \in Variants
                 THEN {[p.names EXCEPT ![i] = n] : i \in DOMAIN p.names, n \in Name}
                 ELSE {}

Start(p) == IF p.abs THEN Root ELSE wd

\* zox_fs_pwd_s: the names from the root to the working directory
Pwd ==
  LET up[n \in 0 .. Count] ==
        IF n = 0 THEN <<wd>>
        ELSE LET way == up[n - 1]
             IN  IF fs[Head(way)].parent = NONE THEN way
                 ELSE <<fs[Head(way)].parent>> \o way
      way == up[Count]
  IN  [i \in 1 .. Len(way) - 1 |-> fs[way[i + 1]].name]

\* to_absolute_path
Absolute(p) == IF p.abs THEN p ELSE [abs |-> TRUE, names |-> Pwd \o p.names]

\* Not the code: the text and the prefix are swapped
StartsSwapped(prefix, text) ==
  /\ Len(prefix) <= Len(text)
  /\ \A i \in DOMAIN prefix :
       text[i] = prefix[i] \/ (i = Len(prefix) /\ <<text[i], prefix[i]>> \in Extends)

\* strstr(text, prefix) == text for plainly spelled absolute paths
Starts(text, prefix) ==
  /\ Len(prefix) <= Len(text)
  /\ \A i \in DOMAIN prefix :
       text[i] = prefix[i] \/ (i = Len(prefix) /\ <<text[i], prefix[i]>> \in Extends)

\* split_absolute_path and the lookup of the directory: where mv and cp may
\* put what they name q
Parents(q) ==
  LET named == {Walk(fs, Root, r) : r \in Read([q EXCEPT !.names = Front(@)])} \ {NONE}
  IN  IF "stray" \in Variants THEN UNION {Below(fs, d) : d \in named} ELSE named

\* create_cluster: the parent and the new cluster for the names s from d
Places(d, s) ==
  IF s = <<>> THEN {}
  ELSE LET parent == Walk(fs, d, Front(s))
       IN  IF parent = NONE \/ GetSubnode(fs, parent, Last(s)) # NONE THEN {}
           ELSE {parent} \X FreeCluster(fs)

\* rm_s: what the removal of p removes, read as t
Target(p, plain, t) ==
  IF plain /\ Starts(Pwd, Absolute(p).names) THEN NONE ELSE Walk(fs, Root, t)

(***************************************************************************)
(* Commands.                                                               *)
(***************************************************************************)
Ready == process = "running" /\ job = NoJob

Typed == Ready /\ typed < MaxTyped /\ typed' = typed + 1

\* the process ends, or leaves a state that is not followed further
Stop(why, asTyped) ==
  /\ process' = why
  /\ job' = [job EXCEPT !.asTyped = asTyped]
  /\ UNCHANGED <<fs, wd, disk, writes, saved, cut>>

\* memory becomes m, and the command goes on as j after the writes w
Do(m, w, j) ==
  /\ fs' = m /\ writes' = w /\ job' = j
  /\ UNCHANGED <<wd, disk, saved, cut, process>>
\* Not the code: the clusters are written in the opposite order, or one too few
WrittenBackwards(m, cs) == [i \in DOMAIN cs |-> LET c == cs[Len(cs) + 1 - i] IN <<c, m[c]>>]
WrittenButLast(m, cs) == [i \in 1 .. Len(cs) - 1 |-> <<cs[i], m[cs[i]]>>]

\* flush_cluster for each of the clusters cs, as m has them
Written(m, cs) == [i \in DOMAIN cs |-> <<cs[i], m[cs[i]]>>]
Flushing == [NoJob EXCEPT !.op = "flush", !.touched = job.touched]
Finish == /\ job' = NoJob /\ saved' = disk
          /\ UNCHANGED <<fs, wd, disk, writes, cut, process>>

\* zox_fs_cd
Cd ==
  /\ Ready
  /\ \/ fs[wd].parent # NONE /\ wd' = fs[wd].parent
     \/ \E p \in Path : \E s \in Read(p) : \E d \in Cluster :
          d = Walk(fs, Start(p), s) /\ fs[d].type = "DIRECTORY" /\ wd' = d
  /\ UNCHANGED <<fs, disk, writes, job, saved, cut, typed, process>>

\* zox_fs_mkdir: "/" has no name to copy; a parent that is a file has no
\* entries to add to, and the new one lands somewhere in its bytes or beyond
Mkdir ==
  /\ Typed
  /\ \E p \in Path : \E s \in Read(p) :
       \/ s = <<>> /\ Stop("failed", TRUE)
       \/ \E place \in Places(Start(p), s) :
            LET d == place[1]
                c == place[2]
                made == Listed([fs EXCEPT ![c].name = Last(s)], d, c)
                done == [made EXCEPT ![c].type = "DIRECTORY", ![c].used = 0]
            IN  IF fs[d].type = "FILE" THEN Stop("intoFile", TRUE)
                ELSE Do(done, Written(made, <<c, d>>) \o Written(done, <<c>>), Flushing)

\* the removal of x, if any, then the job j
RemoveThen(x, j, asTyped) ==
  IF x = NONE THEN Do(fs, <<>>, j)
  ELSE IF wd \in Below(fs, x) THEN Stop("removed", asTyped)
  ELSE Do(fs, <<>>, [j EXCEPT !.op = "rm", !.at = x, !.touched = Holdings(fs, x)])

\* zox_fs_rm_s
Rm ==
  /\ Typed
  /\ \E p \in Path, plain \in Spelling : \E t \in Read(Absolute(p)) :
       /\ Target(p, plain, t) # NONE
       /\ RemoveThen(Target(p, plain, t), NoJob, plain /\ t = Absolute(p).names)

\* _zox_fs_rm on the first leaf of the cluster to delete, and its return
RmStep ==
  /\ job.op = "rm" /\ writes = <<>> /\ process = "running"
  /\ LET c == FirstLeaf(fs, job.at)
         parts == Parts(fs, c)
         gone == Freed(Unlisted(fs, c), {c} \cup ToSet(parts))
         after == IF c # job.at THEN job
                  ELSE IF job.src = NoHost THEN Flushing ELSE [job EXCEPT !.op = "create"]
     IN  Do(gone, Written(gone, (IF parts = <<>> THEN <<>> ELSE <<c>>)
                                \o parts \o <<c, fs[c].parent>>), after)
  /\ UNCHANGED typed

\* zox_fs_load_file: the check of the space, then the removal of what is there
Load ==
  /\ Typed
  /\ \E f \in Host, p \in Path, plain \in Spelling : \E s \in Read(p) :
       LET there == Walk(fs, Start(p), s)
           create == [NoJob EXCEPT !.op = "create", !.src = f, !.over = there]
       IN  IF there = NONE
           THEN /\ Size[f] <= FreeBytes(fs)
                /\ Do(fs, <<>>, [create EXCEPT !.start = Start(p), !.path = s])
           ELSE IF Endless(fs, there) THEN Stop("hung", TRUE)
           ELSE /\ Size[f] <= FreeBytes(fs) + FileSize(fs, there)
                /\ \E t \in IF p.abs THEN {s} ELSE Read(Absolute(p)) :
                     RemoveThen(Target(p, plain, t),
                                [create EXCEPT !.start = Root, !.path = t],
                                plain /\ t = Absolute(p).names)

AtMost(n) == IF n < BlockSize THEN n ELSE BlockSize

\* create_cluster and the first block; a whole block is not written before
\* the next one is found
LoadCreate ==
  /\ job.op = "create" /\ writes = <<>> /\ process = "running"
  /\ UNCHANGED typed
  /\ IF job.path = <<>> THEN Stop("failed", TRUE)
     ELSE IF Places(job.start, job.path) = {} THEN Finish
     ELSE \E place \in Places(job.start, job.path) :
            LET d == place[1]
                c == place[2]
                made == Listed([fs EXCEPT ![c].name = Last(job.path)], d, c)
                read == AtMost(Size[job.src])
                done == [made EXCEPT ![c].type = "FILE", ![c].used = read,
                                     ![c].next = NONE, ![c].data = <<job.src, 1>>]
                begun == Written(made, <<c, d>>)
            IN  IF fs[d].type = "FILE" THEN Stop("intoFile", TRUE)
                ELSE IF read < BlockSize
                THEN Do(done, begun \o Written(done, <<c>>), Flushing)
                ELSE Do(done, begun, [job EXCEPT !.op = "part", !.at = c])

\* one turn of the loop over the other blocks
LoadPart ==
  /\ job.op = "part" /\ writes = <<>> /\ process = "running"
  /\ UNCHANGED typed
  /\ IF Empties(fs) = {} THEN Stop("failed", TRUE)
     ELSE \E n \in FreeCluster(fs) :
       LET k == fs[job.at].data[2]
           read == AtMost(Size[job.src] - k * BlockSize)
           m == [fs EXCEPT ![n].type = "FILE", ![n].next = NONE, ![n].used = read,
                           ![n].data = <<job.src, k + 1>>, ![job.at].next = n]
       IN  Do(m, Written(m, <<job.at, n>>),
              IF read < BlockSize THEN Flushing
              ELSE [job EXCEPT !.at = n])

\* zox_fs_mv
Mv ==
  /\ Typed
  /\ \E p \in Path : \E s \in Read(p) : \E c \in {Walk(fs, Start(p), s)} \cap Cluster :
       \E q \in Path : \E r \in Read(q) :
         /\ Walk(fs, Start(q), r) = NONE
         /\ \E plain \in Spelling :
              /\ ~(plain /\ Starts(Absolute(q).names, Absolute(p).names))
              /\ \E d \in Parents(Absolute(q)) :
                   LET exact == d = Walk(fs, Root, Front(Absolute(q).names)) /\ s = p.names
                       moved == [Listed(Unlisted(fs, c), d, c)
                                   EXCEPT ![c].name = Last(q.names)]
                   IN  IF d \in Below(fs, c) THEN Stop("cycle", plain /\ exact)
                       ELSE IF fs[d].type = "FILE" THEN Stop("intoFile", TRUE)
                       ELSE Do(moved, Written(moved, <<c, d, fs[c].parent>>), Flushing)

\* Not the code: a copied block counts as full
CopyIsFull(m, from) ==
  [m[from] EXCEPT !.type = "FILE", !.next = NONE, !.subs = <<>>, !.name = "", !.parent = 0,
                  !.used = BlockSize, !.data = IF m[from].type = "DIRECTORY" THEN NoData ELSE @]

\* the first bytes_used bytes of a cluster, as a block of a file
CopyOf(m, from) ==
  [m[from] EXCEPT !.type = "FILE", !.next = NONE, !.subs = <<>>, !.name = "", !.parent = 0,
                  !.data = IF m[from].type = "DIRECTORY" THEN NoData ELSE @]

\* zox_fs_cp; the source may be a directory, whose walk may not end
Cp ==
  /\ Typed
  /\ \E p \in Path : \E s \in Read(p) : \E from \in {Walk(fs, Start(p), s)} \cap Cluster :
       IF Endless(fs, from) THEN Stop("hung", TRUE)
       ELSE /\ FileSize(fs, from) <= FreeBytes(fs)
            /\ \E q \in {x \in Path : x.names # <<>>} :
                 \E d \in Parents(Absolute(q)), r \in Read(Absolute(q)) :
                 /\ Walk(fs, Root, r) = NONE
                 /\ IF Empties(fs) = {} THEN Stop("failed", TRUE)
                    ELSE IF fs[d].type = "FILE" THEN Stop("intoFile", TRUE)
                    ELSE \E n \in FreeCluster(fs) :
                      LET m == Listed([fs EXCEPT ![n] =
                                 [CopyOf(fs, from) EXCEPT !.name = Last(q.names)]], d, n)
                      IN  Do(m, Written(m, <<d, n>>),
                             [NoJob EXCEPT !.op = "copy", !.from = from, !.at = n])

\* one turn of the loop over the other blocks of the source
CpStep ==
  /\ job.op = "copy" /\ writes = <<>> /\ process = "running"
  /\ UNCHANGED typed
  /\ IF fs[job.from].next = NONE THEN Finish
     ELSE IF Empties(fs) = {} THEN Stop("failed", TRUE)
     ELSE \E n \in FreeCluster(fs) :
       LET from == fs[job.from].next
           linked == [fs EXCEPT ![job.at].next = n]
           m == [linked EXCEPT ![n] = CopyOf(linked, from)]
       IN  Do(m, Written(m, <<job.at, n>>), [job EXCEPT !.from = from, !.at = n])

\* zox_fs_extract_file: it only reads, if its walk ends
Extract ==
  /\ Ready
  /\ \E p \in Path : \E s \in Read(p) : \E c \in {Walk(fs, Start(p), s)} \cap Cluster :
       Endless(fs, c) /\ Stop("hung", TRUE)
  /\ UNCHANGED typed

(***************************************************************************)
(* The image file, and the process that is killed or started again.        *)
(***************************************************************************)
\* flush_cluster
Flush ==
  /\ writes # <<>> /\ process = "running"
  /\ disk' = [disk EXCEPT ![Head(writes)[1]] = Head(writes)[2]]
  /\ writes' = Tail(writes)
  /\ IF writes' = <<>> /\ job.op = "flush" THEN job' = NoJob /\ saved' = disk'
     ELSE UNCHANGED <<job, saved>>
  /\ UNCHANGED <<fs, wd, cut, typed, process>>

\* the clusters that refer to c: directories that list it, a file whose next
\* block it is
Owners(m, c) ==
  {d \in Cluster : c \in ToSet(m[d].subs) \/ (m[d].type = "FILE" /\ m[d].next = c)}

\* a tree of directories, with files that own their blocks, and every other
\* cluster empty
WellFormed(m) ==
  /\ m[Root].type = "DIRECTORY" /\ m[Root].parent = NONE
  /\ \A d \in Cluster : m[d].type = "DIRECTORY" =>
       /\ m[d].used = Len(m[d].subs) /\ IsInjective(m[d].subs)
       /\ \A c \in ToSet(m[d].subs) : m[c].parent = d /\ m[c].name \in Name
  /\ \A c \in Cluster :
       m[c].type = "FILE" /\ m[c].next # NONE => m[m[c].next].type = "FILE"
  /\ \A c \in Cluster :
       Cardinality(Owners(m, c)) = IF c = Root \/ m[c].type = "EMPTY" THEN 0 ELSE 1
  /\ Holdings(m, Root) = Cluster \ Empties(m)

\* the process is killed, or leaves with exit; initialize_context of the next
\* run loads the image as it is.  What the commands do to an image that is not
\* well formed is not followed.
Restart ==
  /\ process \in {"running", "failed", "hung"}
  /\ fs' = disk /\ wd' = Root /\ writes' = <<>> /\ job' = NoJob /\ saved' = disk
  /\ process' = IF WellFormed(disk) THEN "running" ELSE "torn"
  /\ cut' = IF Ready THEN cut ELSE "yes"
  /\ UNCHANGED <<disk, typed>>

Init ==
  /\ fs = [[c \in Cluster |-> Blank] EXCEPT ![Root].type = "DIRECTORY",
                                            ![Root].parent = NONE, ![Root].name = "/"]
  /\ wd = Root /\ disk = fs /\ writes = <<>> /\ job = NoJob
  /\ saved = disk /\ cut = "no" /\ typed = 0 /\ process = "running"

Next ==
  \/ Cd \/ Mkdir \/ Rm \/ Load \/ Mv \/ Cp \/ Extract
  \/ RmStep \/ LoadCreate \/ LoadPart \/ CpStep \/ Flush \/ Restart

Spec == Init /\ [][Next]_vars

(***************************************************************************)
(* Properties.                                                             *)
(***************************************************************************)
\* The values of the variables.
Contents == {r \in [type : Type, parent : Cluster \cup {NONE}, name : Name \cup {"", "/"},
                    used : Nat, next : Cluster \cup {NONE}, subs : Seq(Cluster),
                    data : (Host \cup {NoHost}) \X Nat] :
               r.type = "DIRECTORY" \/ r.subs = <<>>}
Job == [op : {"none", "rm", "create", "part", "copy", "flush"},
        at : Cluster, from : Cluster, start : Cluster, path : Seq(Name),
        src : Host \cup {NoHost}, asTyped : BOOLEAN, over : Cluster \cup {NONE},
        touched : SUBSET Cluster]
TypeOK ==
  /\ fs \in [Cluster -> Contents] /\ disk \in [Cluster -> Contents]
  /\ saved \in [Cluster -> Contents]
  /\ wd \in Cluster
  /\ writes \in Seq(Cluster \X Contents)
  /\ job \in Job
  /\ cut \in {"no", "yes"} /\ typed \in 0 .. MaxTyped
  /\ process \in {"running", "failed", "hung", "removed", "cycle", "intoFile", "torn"}

\* At every moment, in the middle of a command too, the clusters in memory
\* form one tree: each cluster in use has one owner, each block of a file is
\* reached, nothing unused is referred to.
TreeIsSound == process # "torn" => WellFormed(fs)

\* Between two commands the image file holds what memory holds: no handler
\* forgets to write a cluster it changed.
Durable == Ready => fs = disk

\* A command that is cut anywhere loses no file it was not told to remove or
\* replace: the image always lists it in a directory that the root leads to,
\* with all of its blocks.
Kept(f) ==
  /\ \E d \in Below(disk, Root) : disk[d].type = "DIRECTORY" /\ f \in ToSet(disk[d].subs)
  /\ \A b \in ToSet(Chain(saved, f)) :
       [disk[b] EXCEPT !.parent = 0, !.name = ""] = [saved[b] EXCEPT !.parent = 0, !.name = ""]
NothingLost ==
  process \in {"running", "failed"} =>
    \A f \in Below(saved, Root) \ job.touched : saved[f].type = "FILE" => Kept(f)

\* A file whose first block came from a host file holds the blocks of that file
\* in order, after any loads, copies, moves and removals, and all of them unless
\* a command was cut: a copy that is cut between two blocks leaves a shorter file
\* that nothing tells from a whole one.
FilesReadBack ==
  Ready => \A f \in Below(fs, Root) :
    fs[f].type = "FILE" /\ fs[f].data # NoData =>
      LET blocks == Chain(fs, f)
          from == fs[f].data[1]
      IN  /\ \A i \in DOMAIN blocks :
               /\ fs[blocks[i]].data = <<from, i>>
               /\ fs[blocks[i]].used = AtMost(Size[from] - (i - 1) * BlockSize)
          /\ cut = "no" => FileSize(fs, f) = Size[from]

\* When the paths are plain and read as typed, no command removes a directory
\* the user is in, or moves a directory under itself: comparing path texts
\* (strstr in rm_s and mv) is enough for that.
TextGuardsSuffice == process \in {"removed", "cycle"} => ~job.asTyped

\* The space check of load covers what load takes, except that a size which is
\* a multiple of the block takes one block more: where the destination is new,
\* or a file that was removed for it, load runs out of clusters in no other case.
SpaceCheckCovers ==
  process = "failed" /\ job.op = "part" =>
    \/ Size[job.src] % BlockSize = 0
    \/ job.over # NONE /\ ~(saved[job.over].type = "FILE" /\ job.over \in job.touched)

\* The scenario of main.c removes /mike from inside it, and once more from the
\* root: a directory the user is in, or one above it, is not removed.
NoRemovalFromInside == process = "removed" => wd = Root
=============================================================================
