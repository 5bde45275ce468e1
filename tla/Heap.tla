-------------------------------- MODULE Heap --------------------------------
(***************************************************************************)
(* The heap of lab6 (zox-mem): the bytes of a file mapped into memory.  A  *)
(* block is a mark (used or free), its data and an end marker of four      *)
(* bytes; a block has no header with its length, which is found by looking *)
(* for the next end marker.  Blocks are never recorded anywhere else.      *)
(*                                                                         *)
(* An address is an offset into the file.  The bytes are the code's, the   *)
(* data of a client is one letter repeated, which may be the letter of the *)
(* free mark.  The client writes all of a block when it gets it, as main.c *)
(* does, and frees each block once.  What strcpy and split_block write     *)
(* past the end of the file is in the rest of the last page (a heap that   *)
(* fills its last page exactly is not modelled), and a search that leaves  *)
(* the file finds no marker before it leaves the mapping: the process      *)
(* crashes.  Nobody calls _zox_defrag.                                     *)
(***************************************************************************)
EXTENDS Integers, Sequences, FiniteSetsExt

CONSTANTS
  Request,    \* sizes that are asked for
  Letter,     \* what clients fill their blocks with
  MaxCalls    \* bound on the calls

USED == "u"   \* USED_MARK_CHAR
FREE == "f"   \* FREE_MARK_CHAR
NUL == "0"
EOB == <<"esc", "bar", "bar", "esc">>
BLOCK_OVERHEAD == Len(EOB) + 1
NOWHERE == -1

ASSUME RequestsAreSizes == Request \subseteq Nat \ {0} /\ MaxCalls \in Nat

VARIABLES
  heap,       \* the bytes of the file, <<>> before the first malloc
  live,       \* what clients hold: address, size asked for and letter
  process,    \* "up", "closed" or "crashed"
  hist,       \* the hazards that have happened (history)
  calls       \* bound

vars == <<heap, live, process, hist, calls>>

-----------------------------------------------------------------------------
(* heap_block.c: a block is its offset, h the bytes of the heap.           *)

Bytes(h) == Cardinality(DOMAIN h)

Write(h, at, s) ==
  [i \in DOMAIN h |-> IF i \in at .. at + Len(s) - 1 THEN s[i - at + 1] ELSE h[i]]

Fill(byte, n) == [i \in 1 .. n |-> byte]

(* Where end markers begin.                                                *)
Ends(h) == {e \in 0 .. Bytes(h) - Len(EOB) :
                \A i \in 1 .. Len(EOB) : h[e + i - 1] = EOB[i]}

HasEnd(h, o) == \E e \in Ends(h) : e > o

get_next_block(h, o) ==
  LET later == {e \in Ends(h) : e > o}
  IN  IF later = {} THEN Max({Bytes(h), o + Len(EOB)}) ELSE Min(later) + Len(EOB)

(* The search for the marker that ends the block before the previous one   *)
(* stops one short of the beginning: the first block is never found.       *)
get_previous_block(h, o) ==
  LET before == {e \in Ends(h) : e + 2 * Len(EOB) <= o}
  IN  CASE o < Len(EOB) -> 0
        [] o >= Len(EOB) /\ before = {} -> 1
        [] OTHER -> Max(before) + Len(EOB)

\* Not the code: another letter
MarksWithCapital(h, o) == Write(h, o, <<"F">>)

mark_block_used(h, o) == Write(h, o, <<USED>>)
mark_block_free(h, o) == Write(h, o, <<FREE>>)
is_block_free(h, o) == o \in DOMAIN h /\ h[o] = FREE

(* One more than the length of the data.                                   *)
calculate_block_size(h, o) == Min({e \in Ends(h) : e > o}) - o

markup_block(h, o, size) == Write(Write(h, o, <<FREE>>), o + size + 1, EOB)

resize_block(h, o, size) ==
  markup_block(Write(h, o + calculate_block_size(h, o), Fill(NUL, Len(EOB))), o, size)

split_block(h, o, size) ==
  Write(Write(h, o + 1 + size, EOB), o + size + BLOCK_OVERHEAD, <<h[o]>>)

(* The walk of _zox_malloc from the first block to the end of the heap.    *)
Blocks(h) ==
  LET from[o \in 0 .. Bytes(h)] ==
        {o} \cup LET n == get_next_block(h, o)
                 IN  IF n < Bytes(h) THEN from[n] ELSE {}
  IN  from[0]

-----------------------------------------------------------------------------
(* zox-mem.c.  What malloc makes of heap h: the bytes, the address of the  *)
(* data (NOWHERE: it crashed) and the hazards met.                         *)

update_heap(h, size) ==
  [i \in 0 .. size - 1 |-> IF i \in DOMAIN h THEN h[i] ELSE NUL]

Given(h, o, hazards) == [heap |-> mark_block_used(h, o), ptr |-> o + 1, hist |-> hazards]

\* Not the code: a free block is taken without looking for its length
TakesAnyFree(h, size) ==
  {o \in Blocks(h) : is_block_free(h, o) /\ HasEnd(h, o)}

Fitting(h, size) ==
  {o \in Blocks(h) : /\ is_block_free(h, o)
                     /\ HasEnd(h, o)
                     /\ calculate_block_size(h, o) >= size + BLOCK_OVERHEAD}

(* The end marker before block next is taken away.                         *)
Joined(h, next) == Write(h, next - Len(EOB), Fill(NUL, Len(EOB)))

\* Not the code: the end of the last block is looked for before the heap is resized
ExtendLooksFirst(h, size) ==
  LET last == Max(Blocks(h))
      end == get_next_block(h, last)
      at == IF is_block_free(h, last) THEN last ELSE end
      grown == update_heap(h, at + size + BLOCK_OVERHEAD)
  IN  Given(markup_block(IF at = last THEN Joined(grown, end) ELSE grown, at, size), at, {})

(* No block fits: the last one is made longer if it is free, but "longer"  *)
(* is shorter when it has up to three bytes more than were asked for.      *)
Extend(h, size) ==
  LET last == Max(Blocks(h))
      end == get_next_block(h, last)
      at == IF is_block_free(h, last) THEN last ELSE end
      grown == update_heap(h, at + size + BLOCK_OVERHEAD)
      shrunk == IF Bytes(grown) < Bytes(h) THEN {"shrunk"} ELSE {}
  IN  CASE at = end -> Given(markup_block(grown, end, size), end, {})
        [] at = last /\ HasEnd(grown, last) ->
             Given(resize_block(grown, last, size), last, shrunk)
        [] OTHER -> [heap |-> h, ptr |-> NOWHERE, hist |-> shrunk]

_zox_malloc(h, size) ==
  IF h = <<>>
  THEN Given(markup_block(update_heap(h, size + BLOCK_OVERHEAD), 0, size), 0, {})
  ELSE LET fitting == Fitting(h, size)
           o == Min(fitting)
       IN  IF fitting = {} THEN Extend(h, size)
           ELSE Given(split_block(h, o, size), o,
                 IF calculate_block_size(h, o) = size + BLOCK_OVERHEAD
                 THEN {"tight"} ELSE {})

\* Not the code: the block before is not looked at
FreeForgetsPrevious(h, ptr) ==
  LET marked == mark_block_free(h, ptr - 1)
      next == get_next_block(marked, ptr - 1)
  IN  IF next < Bytes(h) /\ is_block_free(marked, next) THEN Joined(marked, next) ELSE marked

\* Not the code: the next block is joined whether it is free or not
FreeJoinsUsed(h, ptr) ==
  LET marked == mark_block_free(h, ptr - 1)
      next == get_next_block(marked, ptr - 1)
  IN  IF next < Bytes(h) THEN Joined(marked, next) ELSE marked

_zox_free(h, ptr) ==
  LET o == ptr - 1
      marked == mark_block_free(h, o)
      prev == get_previous_block(marked, o)
      left == IF is_block_free(marked, prev) /\ prev # o THEN Joined(marked, o) ELSE marked
      next == get_next_block(left, o)
  IN  IF next < Bytes(h) /\ is_block_free(left, next) THEN Joined(left, next) ELSE left

(* realloc takes the address of the data for the offset of the block: it   *)
(* cuts and returns one byte too far, and joins the next block even if it  *)
(* is used; the last block, if it is empty, has no end after that offset.  *)
(* Only when it frees and allocates does it work, without copying.         *)
_zox_realloc(h, ptr, size) ==
  LET next == get_next_block(h, ptr)
      current == calculate_block_size(h, ptr)
      Cut(g) == [heap |-> split_block(g, ptr, size), ptr |-> ptr + 1, hist |-> {"realloc"}]
  IN  IF ~HasEnd(h, ptr) THEN [heap |-> h, ptr |-> NOWHERE, hist |-> {"realloc"}]
      ELSE CASE current >= size + BLOCK_OVERHEAD -> Cut(h)
             [] /\ current < size + BLOCK_OVERHEAD
                /\ next < Bytes(h)
                /\ calculate_block_size(h, next) + BLOCK_OVERHEAD + current >= size ->
                     Cut(Joined(h, next))
             [] OTHER -> _zox_malloc(_zox_free(h, ptr), size)

-----------------------------------------------------------------------------
Init == heap = <<>> /\ live = {} /\ process = "up" /\ hist = {} /\ calls = 0

(* The properties say nothing of what follows a hazard: no call follows.   *)
Call == process = "up" /\ hist = {} /\ calls < MaxCalls /\ calls' = calls + 1

(* The client gets address r.ptr, fills its block and no longer holds old. *)
Return(r, size, letter, old) ==
  /\ hist' = hist \cup r.hist
  /\ IF r.ptr = NOWHERE
     THEN process' = "crashed" /\ UNCHANGED <<heap, live>>
     ELSE /\ heap' = Write(r.heap, r.ptr, Fill(letter, size))
          /\ live' = (live \ old) \cup {[ptr |-> r.ptr, size |-> size, letter |-> letter]}
          /\ UNCHANGED process

Malloc == Call /\ \E size \in Request, letter \in Letter :
            Return(_zox_malloc(heap, size), size, letter, {})

Free == /\ Call
        /\ \E b \in live : heap' = _zox_free(heap, b.ptr) /\ live' = live \ {b}
        /\ UNCHANGED <<process, hist>>

Realloc == Call /\ \E b \in live, size \in Request \cup {0} :
             Return(_zox_realloc(heap, b.ptr, size), size, b.letter, {b})

Exit == Call /\ process' = "closed" /\ UNCHANGED <<heap, live, hist>>

Next == Malloc \/ Free \/ Realloc \/ Exit

Spec == Init /\ [][Next]_vars

-----------------------------------------------------------------------------
(* Whether only calls were made that the code can handle.                  *)
Sound == process = "up" /\ hist = {} /\ heap # <<>>

(* Types: bytes are marks, letters, NULs or those of end markers.          *)
TypeOK ==
  /\ \A i \in DOMAIN heap : heap[i] \in {USED, FREE, NUL, "esc", "bar"} \cup Letter
  /\ DOMAIN heap = 0 .. Bytes(heap) - 1
  /\ \A b \in live : b.ptr \in DOMAIN heap /\ b.size \in Request \cup {0} /\ b.letter \in Letter
  /\ process \in {"up", "closed", "crashed"}
  /\ hist \subseteq {"tight", "shrunk", "realloc"}
  /\ calls \in 0 .. MaxCalls

(* The blocks found by walking over end markers tile the heap, the used    *)
(* ones are what clients hold, one each and with room for it: joining,     *)
(* splitting and growing leave no block without an end or a mark, and no   *)
(* client's block is thought free.  (heap_block.c:27-97, zox-mem.c:45-98)  *)
BlocksTile ==
  Sound => LET blocks == Blocks(heap)
               used == {o \in blocks : heap[o] = USED}
           IN  /\ Bytes(heap) - Len(EOB) \in Ends(heap)
               /\ \A o \in blocks : heap[o] \in {USED, FREE}
               /\ {o + 1 : o \in used} = {b.ptr : b \in live}
               /\ \A b \in live : b.size < calculate_block_size(heap, b.ptr - 1)

(* What a client wrote stays until it frees the block: no call for another *)
(* block writes a mark, an end marker or another client's data over it.    *)
Kept ==
  Sound => \A b \in live : \A i \in b.ptr .. b.ptr + b.size - 1 : heap[i] = b.letter

(* free joins the block with its free neighbours, found by searching       *)
(* backwards and forwards for end markers: where they met no block begins  *)
(* any more.  Only the first block of the heap is missed by the search     *)
(* backwards.  (heap_block.c:41-55, zox-mem.c:80-98)                       *)
FreeJoins ==
  [][\A b \in live \ live' :
       Free /\ Sound =>
         LET o == b.ptr - 1
             next == get_next_block(heap, o)
             before == {p \in Blocks(heap) : p < o}
             after == Blocks(heap')
         IN  /\ is_block_free(heap, next) => next \notin after
             /\ before # {} /\ Max(before) # 0 /\ is_block_free(heap, Max(before))
                  => o \notin after]_vars

(* zox-mem.c:43-44: malloc puts the block into a gap or extends the heap.  *)
(* It never goes on with less: an extension that would shrink the file     *)
(* cuts the end marker off and crashes.                                    *)
NeverShrinks == [][process' = "up" => Bytes(heap') >= Bytes(heap)]_vars
=============================================================================
