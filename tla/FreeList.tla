------------------------------ MODULE FreeList ------------------------------
(***************************************************************************)
(* The heap of a program that collects synchronously: blocks one after     *)
(* the other up to heap_ptr, the list of free ones, its search by fn_alloc *)
(* with the two caches that shorten it, the private batches (TLABs) of     *)
(* threads, and the sweep of fn_gc_collect, which coalesces what is dead   *)
(* and builds the list anew.  Addresses count from 1, the heap's base; 0   *)
(* is the null pointer.  All but the use of a thread's own batch happens   *)
(* under the heap monitor: there is one call at a time.  A new batch is    *)
(* divided after the monitor is released, but its thread reaches no        *)
(* safepoint before that: handing out and dividing are one step.  Every    *)
(* size above TLAB_MAX_OBJECT_SIZE is in Blocks, every other in Objects;   *)
(* the fast path of a program without threads serves Objects alone.        *)
(***************************************************************************)
EXTENDS Integers

CONSTANTS Threads,     \* with a context of their own
          Nobody,
          Objects,     \* block sizes of small objects
          Blocks,      \* block sizes too large for a batch
          BatchSize,   \* TLAB_SIZE
          MinSplit,    \* ALLOC_MIN_SPLIT
          ReserveEnd   \* heap_reserve_end

Sizes == Objects \cup Blocks
Requests == Sizes \cup {BatchSize}

ASSUME HeapAssumption ==
  /\ Requests \subseteq Nat \ {0} /\ \A o \in Objects : o < BatchSize
  /\ MinSplit \in Nat \ {0} /\ ReserveEnd \in Nat \ {0}
  /\ Nobody \notin Threads

VARIABLES threaded,    \* threaded_heap: the program may have native threads
          top,         \* heap_ptr, the end of the last block
          size,        \* the headers: its domain is where the blocks begin
          free,        \* blocks with the FREE bit in their header
          next,        \* the word at GC_OFF_NEXT_FREE of each address; 0 also where an
                       \* object has its type instead
          head,        \* gc_free_head
          missSize,    \* gc_free_miss_size: smallest size known to be in no free block
          searchSize,  \* gc_free_search_size: size of the last search past the head
          searchPrev,  \* gc_free_search_prev: predecessor of what that search found
          batch,       \* private batch of each thread: cursor and end, cursor 0: none
          call         \* the allocation under way
heapVars == <<threaded, top, size, free, next, head, missSize, searchSize, searchPrev, batch, call>>

Addresses == 1 .. ReserveEnd
NoBatch == [cursor |-> 0, end |-> 0]
Idle == [at |-> "idle"]
Searching(t, need, object, tried, block) ==
  [at |-> "search", by |-> t, need |-> need, object |-> object, tried |-> tried,
   block |-> block, prev |-> 0]

HeapInit ==
  /\ threaded \in BOOLEAN
  /\ top = 1 /\ size = [b \in {} |-> 0] /\ free = {}
  /\ next = [a \in Addresses |-> 0] /\ head = 0
  /\ missSize = 0 /\ searchSize = 0 /\ searchPrev = 0
  /\ batch = [t \in Threads |-> NoBatch]
  /\ call = Idle

\* A header is written: a block of this size begins here.
Header(headers, block, n) ==
  [b \in DOMAIN headers \cup {block} |-> IF b = block THEN n ELSE headers[b]]

\* A block becomes two, the first of this size.
Split(headers, block, n) == Header(Header(headers, block + n, headers[block] - n), block, n)

Room(t) == batch[t].end - batch[t].cursor

\* A small object from the thread's batch, whose tail stays marked free unless too short.
AllocFromBatch(t, n) ==
  LET at == batch[t].cursor
      rest == Room(t) - n
  IN /\ threaded /\ call.at # "exit"
     /\ at # 0 /\ at < batch[t].end /\ rest >= 0
     /\ IF rest >= MinSplit
        THEN /\ size' = Header(Header(size, at + n, rest), at, n)
             /\ free' = (free \ {at}) \cup {at + n}
             /\ batch' = [batch EXCEPT ![t].cursor = at + n]
        ELSE /\ free' = free \ {at}
             /\ batch' = [batch EXCEPT ![t].cursor = batch[t].end]
             /\ UNCHANGED size
     /\ UNCHANGED <<threaded, top, next, head, missSize, searchSize, searchPrev, call>>

\* What searches have left behind is void once blocks are freed or the list is built anew.
ForgetMissOnly == missSize' = 0 /\ UNCHANGED searchSize
ForgetSearches == missSize' = 0 /\ searchSize' = 0

\* tlab_retire_internal: before a refill, at a thread's end, or on a change of the limits.
\* A tail goes to the head of the list, as one with the block there if that begins where
\* it ends; a batch that is used up is forgotten without the monitor.
RetireBatch(t) ==
  LET at == batch[t].cursor
      tail == at < batch[t].end
  IN /\ threaded /\ call.at # "exit" /\ at # 0
     /\ batch' = [batch EXCEPT ![t] = NoBatch]
     /\ \/ /\ ~ tail
           /\ UNCHANGED <<size, free, next, head, missSize, searchSize>>
        \/ /\ tail /\ call.at = "idle"
           /\ ForgetSearches
           /\ head' = at
           /\ IF batch[t].end = head /\ head \in free
              THEN /\ size' = Header([b \in DOMAIN size \ {head} |-> size[b]], at, Room(t) + size[head])
                   /\ free' = free \ {head}
                   /\ next' = [next EXCEPT ![at] = next[head], ![head] = 0]
              ELSE /\ size' = Header(size, at, Room(t))
                   /\ next' = [next EXCEPT ![at] = head]
                   /\ UNCHANGED free
     /\ UNCHANGED <<threaded, top, searchPrev, call>>

\* alloc_slow_internal begins to search, from the head unless the size is known to be missing.
FirstProbe(need) == IF missSize # 0 /\ need >= missSize THEN 0 ELSE head

\* A large object, or any object of a thread without a context or a program without threads.
AllocDirect(n) ==
  /\ call.at = "idle"
  /\ call' = Searching(Nobody, n, n, FALSE, FirstProbe(n))
  /\ UNCHANGED <<threaded, top, size, free, next, head, missSize, searchSize, searchPrev, batch>>

\* A thread whose batch has been retired asks for another, for an object of size n.
RefillBatch(t, n) ==
  /\ threaded /\ call.at = "idle" /\ batch[t].cursor = 0
  /\ call' = Searching(t, BatchSize, n, FALSE, FirstProbe(BatchSize))
  /\ UNCHANGED <<threaded, top, size, free, next, head, missSize, searchSize, searchPrev, batch>>

\* The block is too small.  After the head the search goes on behind the predecessor of
\* what the last search for this size found.
Advance ==
  /\ call.at = "search" /\ call.block # 0 /\ size[call.block] < call.need
  /\ LET prev == IF call.prev = 0 /\ searchSize = call.need THEN searchPrev ELSE call.block
     IN call' = [call EXCEPT !.prev = prev, !.block = next[prev]]
  /\ UNCHANGED <<threaded, top, size, free, next, head, missSize, searchSize, searchPrev, batch>>

\* The block at leaves the allocator, with these headers and FREE bits: as an object, or as
\* a batch whose first object is divided from a tail marked free.
HandOut(at, headers, bits) ==
  LET end == at + headers[at]
  IN /\ call' = Idle
     /\ IF call.by = Nobody
        THEN size' = headers /\ free' = bits /\ UNCHANGED batch
        ELSE IF headers[at] - call.object >= MinSplit
        THEN /\ size' = Split(headers, at, call.object)
             /\ free' = bits \cup {at + call.object}
             /\ batch' = [batch EXCEPT ![call.by] = [cursor |-> at + call.object, end |-> end]]
        ELSE /\ size' = headers /\ free' = bits
             /\ batch' = [batch EXCEPT ![call.by] = [cursor |-> end, end |-> end]]

\* The block is large enough: it is unlinked, and what remains becomes the head.
Found ==
  LET block == call.block
      rest == block + call.need
      first == IF call.prev = 0 THEN next[block] ELSE head
      unlinked == [IF call.prev = 0 THEN next ELSE [next EXCEPT ![call.prev] = next[block]]
                     EXCEPT ![block] = 0]
  IN /\ call.at = "search" /\ block # 0 /\ size[block] >= call.need
     /\ IF call.prev = 0
        THEN searchSize' = 0 /\ UNCHANGED searchPrev
        ELSE searchSize' = call.need /\ searchPrev' = call.prev
     /\ IF size[block] - call.need >= MinSplit
        THEN /\ next' = [unlinked EXCEPT ![rest] = first]
             /\ head' = rest
             /\ HandOut(block, Split(size, block, call.need), (free \ {block}) \cup {rest})
        ELSE /\ next' = unlinked
             /\ head' = first
             /\ HandOut(block, size, free \ {block})
     /\ UNCHANGED <<threaded, top, missSize>>

RememberMiss(n) == IF missSize = 0 \/ n < missSize THEN n ELSE missSize

\* No block will do: the heap grows.
Bump ==
  /\ call.at = "search" /\ call.block = 0
  /\ top + call.need <= ReserveEnd
  /\ missSize' = RememberMiss(call.need)
  /\ top' = top + call.need
  /\ HandOut(top, Header(size, top, call.need), free)
  /\ UNCHANGED <<threaded, next, head, searchSize, searchPrev>>

\* The fast path of a program without threads.
AllocSingle(n) ==
  /\ ~ threaded /\ call.at = "idle" /\ head = 0
  /\ top + n <= ReserveEnd
  /\ top' = top + n
  /\ size' = Header(size, top, n)
  /\ UNCHANGED <<threaded, free, next, head, missSize, searchSize, searchPrev, batch, call>>

\* Where room begins, or the heap ends, when these blocks are kept.
Ends(kept) == {1} \cup {b + size[b] : b \in kept}
Highest(S) == IF S = {} THEN 0 ELSE CHOOSE b \in S : \A c \in S : c <= b
Following(b, kept) == CHOOSE k \in kept : b < k /\ \A l \in kept : b < l => k <= l

\* The mark phase has kept these blocks: every batch is revoked, the heap ends behind the
\* last of them, and the others are coalesced and linked, from the lowest to the highest.
SweepTo(kept) ==
  \E end \in {Highest(Ends(kept))} :
    \E gaps \in {{b \in Ends(kept) : b \in DOMAIN size \ kept /\ b < end}} :
      /\ top' = end
      /\ size' = [b \in kept \cup gaps |-> IF b \in kept THEN size[b] ELSE Following(b, kept) - b]
      /\ free' = gaps
      /\ next' = [a \in Addresses |-> IF a \in gaps THEN Highest({g \in gaps : g < a}) ELSE 0]
      /\ head' = Highest(gaps)
      /\ batch' = [t \in Threads |-> NoBatch]
      /\ ForgetSearches

\* Asked for by the program, or because of what was allocated since the last one.
Collect ==
  /\ call.at = "idle"
  /\ \E kept \in SUBSET (DOMAIN size \ free) : SweepTo(kept)
  /\ UNCHANGED <<threaded, searchPrev, call>>

\* The heap cannot grow, at its limit or for want of memory: one collection and another
\* search, then the process ends.
Emergency ==
  /\ call.at = "search" /\ call.block = 0
  /\ IF call.tried
     THEN /\ call' = [at |-> "exit"]
          /\ missSize' = RememberMiss(call.need)
          /\ UNCHANGED <<top, size, free, next, head, searchSize, batch>>
     ELSE /\ \E kept \in SUBSET (DOMAIN size \ free) : SweepTo(kept)
          /\ call' = Searching(call.by, call.need, call.object, TRUE, head')
  /\ UNCHANGED <<threaded, searchPrev>>

HeapNext ==
  \/ \E t \in Threads : RetireBatch(t) \/ \E n \in Objects : AllocFromBatch(t, n) \/ RefillBatch(t, n)
  \/ \E n \in Sizes : AllocDirect(n)
  \/ \E n \in Objects : AllocSingle(n)
  \/ Advance \/ Found \/ Bump \/ Collect \/ Emergency
HeapSpec == HeapInit /\ [][HeapNext]_heapVars
-----------------------------------------------------------------------------
(* Properties.                                                             *)

\* Tails of batches carry the FREE bit and are in no list: they are their threads'.
Tails == {batch[t].cursor : t \in {u \in Threads : 0 < Room(u)}}
AsRanges(headers, S) == {[at |-> b, size |-> headers[b]] : b \in S}

Heap == INSTANCE RangeHeap WITH
          held <- AsRanges(size, (DOMAIN size \ free) \cup Tails),
          spare <- AsRanges(size, free \ Tails),
          top <- top

\* The allocator and the collector implement the heap of disjoint ranges.
ImplementsRanges == Heap!RangeSpec
=============================================================================
