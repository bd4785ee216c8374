---------------------------- MODULE NpuAllocator ----------------------------
(***************************************************************************)
(* The caching allocator of mindtorch_v2/_backends/npu/allocator.py, and   *)
(* of the device what it relies on: memory handed out in segments, and     *)
(* streams that run kernels in the order they were launched while the host *)
(* goes on.  Sizes and addresses are in units of ROUNDING_BYTES.           *)
(*                                                                         *)
(* malloc is pc: its first lines, then "collect" (_maybe_collect_garbage), *)
(* "find", and "retry" (_oom_retry).  Storages die at any time, also while *)
(* malloc runs.                                                            *)
(*                                                                         *)
(* The device frees segments, not parts.  A call that gives it a piece of  *)
(* one that was split makes torn true and what follows is undefined: the   *)
(* model stops there.                                                      *)
(***************************************************************************)
EXTENDS Integers, FiniteSetsExt

CONSTANTS Streams,
          DeviceSize,   \* memory of the device
          Threshold,    \* SMALL_POOL_THRESHOLD, which MAX_SPLIT_SIZE equals
          Requests,     \* the sizes asked for, not 0
          GcLimit,      \* garbage_collection_threshold, of DeviceSize
          MaxKernels    \* bound on the kernels launched

ASSUME AllocAssumption ==
  /\ DeviceSize \in Nat /\ Threshold \in Nat /\ GcLimit \in Nat /\ MaxKernels \in Nat
  /\ Requests \subseteq Nat \ {0}

VARIABLES device,    \* the segments acl.rt.malloc gave
          active,    \* _active
          pending,   \* _pending
          cached,    \* _cached, both pools
          deferred,  \* addresses in Runtime._deferred_frees
          reserved, allocated, inactive,  \* *_bytes.all.current of _stats
          pc, want,  \* want: the arguments of the malloc that runs
          raised,    \* the last malloc failed
          torn,      \* history: a piece of a split segment was given back
          kernels,   \* kernels launched that have not finished
          launched, done,  \* per stream: the number launched, and finished
          exposed    \* history: kernels in flight on a block that was freed with the
                     \* event of another stream than theirs

hostVars == <<active, pending, cached, deferred, reserved, allocated, inactive>>
callVars == <<pc, want, raised>>
deviceVars == <<kernels, launched, done, exposed>>
allocVars == <<device, hostVars, callVars, torn, deviceVars>>

Sizes == 1 .. DeviceSize
Segments == [ptr : Nat, size : Sizes]
Pools == {"small_pool", "large_pool"}
Marks == [stream : Streams, n : Nat]   \* an event: what it was recorded after
CachedBlocks == [ptr : Nat, size : Sizes, pool : Pools]
ActiveBlocks == [ptr : Nat, size : Sizes, pool : Pools, stream : Streams]
PendingBlocks == [ptr : Nat, size : Sizes, pool : Pools, event : Marks]
Kernels == [ptr : Nat, size : Sizes, stream : Streams, n : Nat]

Cached(b) == [ptr |-> b.ptr, size |-> b.size, pool |-> b.pool]
Segment(b) == [ptr |-> b.ptr, size |-> b.size]
Apart(a, b) == a.ptr + a.size <= b.ptr \/ b.ptr + b.size <= a.ptr
Within(a, b) == b.ptr <= a.ptr /\ a.ptr + a.size <= b.ptr + b.size
Bytes(S) == MapThenSumSet(LAMBDA b : b.size, S)

AllocInit ==
  /\ device = {} /\ active = {} /\ pending = {} /\ cached = {} /\ deferred = {}
  /\ reserved = 0 /\ allocated = 0 /\ inactive = 0
  /\ pc = "idle" /\ want = {} /\ raised = FALSE /\ torn = FALSE
  /\ kernels = {} /\ exposed = {}
  /\ launched = [s \in Streams |-> 0] /\ done = [s \in Streams |-> 0]

-----------------------------------------------------------------------------
(* The device                                                              *)

\* the next kernel of stream s finishes
Finish(s) ==
  /\ done[s] < launched[s]
  /\ done' = [done EXCEPT ![s] = @ + 1]
  /\ kernels' = {k \in kernels : k.stream # s \/ k.n > done[s] + 1}
  /\ exposed' = exposed \cap kernels'
  /\ UNCHANGED <<device, hostVars, callVars, torn, launched>>

\* synchronize_device: all that was launched has finished
Idles == kernels' = {} /\ exposed' = {} /\ done' = launched /\ UNCHANGED launched

\* acl.rt.malloc can place seg beside the segments given
Room(seg, given) == seg.ptr + seg.size <= DeviceSize /\ \A g \in given : Apart(seg, g)

-----------------------------------------------------------------------------
(* Pieces of the methods                                                   *)

PoolForSize(size) == IF size < Threshold THEN "small_pool" ELSE "large_pool"

\* _event_complete
CompleteEarly(e) == e.n <= done[e.stream] + 1   \* mutant: one kernel too early
Complete(e) == e.n <= done[e.stream]

Ready == {b \in pending : Complete(b.event)}

\* _drain_pending of the blocks in ready
Drain(ready) ==
  /\ cached' = cached \cup {Cached(b) : b \in ready}
  /\ pending' = pending \ ready
  /\ inactive' = inactive + Bytes(ready)

\* the blocks the device can take back one by one
Whole(blocks) == \A b \in blocks : Segment(b) \in device

\* _record_event; when that fails, the device is synchronized instead
Event(s) == [stream |-> s, n |-> launched[s]]

\* free, of the active blocks `gone`
Released(gone) ==
  /\ active' = active \ gone
  /\ deferred' = deferred \ {b.ptr : b \in gone}
  /\ allocated' = allocated - Bytes(gone)

\* with the event of stream s, which covers the kernels of s alone
Freed(b, s) == [ptr |-> b.ptr, size |-> b.size, pool |-> b.pool, event |-> Event(s)]
Exposes(b, s) == {k \in kernels : Within(k, b) /\ k.stream # s}

-----------------------------------------------------------------------------
(* malloc                                                                  *)

\* _drain_pending, and whether there is garbage to collect
Malloc(size, s) ==
  /\ pc = "idle"
  /\ Drain(Ready)
  /\ want' = {[size |-> size, stream |-> s]} /\ raised' = FALSE
  /\ pc' = IF cached' # {} /\ reserved > GcLimit THEN "collect" ELSE "find"
  /\ UNCHANGED <<device, active, deferred, reserved, allocated, torn, deviceVars>>

\* _maybe_collect_garbage
Collect ==
  /\ pc = "collect" /\ Whole(cached \cup Ready)
  /\ device' = device \ {Segment(b) : b \in cached \cup Ready}
  /\ cached' = {} /\ pending' = pending \ Ready
  /\ reserved' = reserved - Bytes(cached) - Bytes(Ready)
  /\ inactive' = inactive - Bytes(cached)
  /\ pc' = "find"
  /\ UNCHANGED <<active, deferred, allocated, want, raised, torn, deviceVars>>

Fits(b, size) == b.pool = PoolForSize(size) /\ b.size >= size

\* _split_block
SplitsEven(b, size) == b.size >= size /\ b.size <= Threshold   \* mutant: off by one
Splits(b, size) == b.size > size /\ b.size <= Threshold
TakenWhole(b, size) == b.size   \* mutant: block.size is left as it was
Taken(b, size) == IF Splits(b, size) THEN size ELSE b.size
Remainder(b, size) ==
  IF Splits(b, size)
  THEN {[ptr |-> b.ptr + size, size |-> b.size - size, pool |-> b.pool]} ELSE {}

Returns(b) ==
  /\ active' = {a \in active : a.ptr # b.ptr} \cup {b}
  /\ allocated' = allocated + b.size
  /\ pc' = "idle" /\ want' = {}
  /\ UNCHANGED <<deferred, raised>>

Raises ==
  /\ pc' = "idle" /\ want' = {} /\ raised' = TRUE
  /\ UNCHANGED <<active, deferred, allocated>>

\* a cached block: the first that fits, whichever that is
Reuse(w, b) ==
  /\ pc = "find" /\ Fits(b, w.size)
  /\ cached' = (cached \ {b}) \cup Remainder(b, w.size)
  /\ inactive' = inactive - b.size + Bytes(Remainder(b, w.size))
  /\ Returns([ptr |-> b.ptr, size |-> Taken(b, w.size), pool |-> b.pool,
              stream |-> w.stream])
  /\ UNCHANGED <<device, pending, reserved, torn, deviceVars>>

NoneFits(w) == \A b \in cached : ~Fits(b, w.size)
Place(w, p) == [ptr |-> p, size |-> w.size]
NoRoom(w, given) == \A p \in 0 .. DeviceSize : ~Room(Place(w, p), given)
New(w, p) == [ptr |-> p, size |-> w.size, pool |-> PoolForSize(w.size), stream |-> w.stream]

\* _raw_malloc
Fresh(w, p) ==
  /\ pc = "find" /\ NoneFits(w) /\ Room(Place(w, p), device)
  /\ device' = device \cup {Place(w, p)}
  /\ reserved' = reserved + w.size
  /\ Returns(New(w, p))
  /\ UNCHANGED <<pending, cached, inactive, torn, deviceVars>>

OutOfMemory(w) ==
  /\ pc = "find" /\ NoneFits(w) /\ NoRoom(w, device)
  /\ pc' = "retry"
  /\ UNCHANGED <<device, hostVars, want, raised, torn, deviceVars>>

\* _oom_retry: collect garbage, synchronize, empty_cache and try once more
FlushReady == Ready   \* mutant: no synchronize
Flush == pending
Kept == device \ {Segment(b) : b \in cached \cup Flush}
Retry(w) ==
  /\ pc = "retry" /\ Whole(cached \cup Flush)
  /\ Idles
  /\ cached' = {} /\ pending' = pending \ Flush
  /\ inactive' = inactive - Bytes(cached)
  /\ \/ \E p \in 0 .. DeviceSize :
          /\ Room(Place(w, p), Kept)
          /\ device' = Kept \cup {Place(w, p)}
          /\ reserved' = reserved - Bytes(cached) - Bytes(Flush) + w.size
          /\ Returns(New(w, p))
     \/ /\ NoRoom(w, Kept)
        /\ device' = Kept
        /\ reserved' = reserved - Bytes(cached) - Bytes(Flush)
        /\ Raises
  /\ UNCHANGED torn

-----------------------------------------------------------------------------
(* The other calls                                                         *)

\* free: of a storage that dies, on the block's stream; by resize_, on the stream that is
\* current.  Without an event it synchronizes the device
Free(b, s) ==
  /\ b \in active /\ b.ptr \notin deferred
  /\ s = b.stream \/ pc = "idle"
  /\ pending' = pending \cup {Freed(b, s)}
  /\ Released({b})
  /\ \/ exposed' = exposed \cup Exposes(b, s) /\ UNCHANGED <<kernels, launched, done>>
     \/ Idles
  /\ UNCHANGED <<device, cached, reserved, inactive, callVars, torn>>

\* Runtime.defer_free
DeferFree(b) ==
  /\ pc = "idle" /\ b \in active /\ b.ptr \notin deferred
  /\ deferred' = deferred \cup {b.ptr}
  /\ UNCHANGED <<device, active, pending, cached, reserved, allocated, inactive,
                 callVars, torn, deviceVars>>

\* Runtime.synchronize
Synchronize ==
  /\ pc = "idle"
  /\ Idles
  /\ cached' = cached \cup {Cached(b) : b \in pending}
  /\ inactive' = inactive + Bytes(pending)
  /\ LET gone == {b \in active : b.ptr \in deferred}
     IN  pending' = {Freed(b, b.stream) : b \in gone} /\ Released(gone)
  /\ UNCHANGED <<device, reserved, callVars, torn>>

OnStream(b, s) == [b EXCEPT !.stream = s]

\* record_stream: the block has one stream, what the one before still runs is forgotten
RecordStream(b, s) ==
  /\ pc = "idle" /\ b \in active
  /\ active' = (active \ {b}) \cup {OnStream(b, s)}
  /\ UNCHANGED <<device, pending, cached, deferred, reserved, allocated, inactive,
                 callVars, torn, deviceVars>>

EmptyCache ==
  /\ pc = "idle" /\ Whole(cached)
  /\ device' = device \ {Segment(b) : b \in cached}
  /\ cached' = {}
  /\ reserved' = reserved - Bytes(cached) /\ inactive' = inactive - Bytes(cached)
  /\ UNCHANGED <<active, pending, deferred, allocated, callVars, torn, deviceVars>>

\* empty_cache comes to a piece of a split segment
Tear ==
  /\ \/ pc = "idle" /\ ~Whole(cached)
     \/ pc = "collect" /\ ~Whole(cached \cup Ready)
     \/ pc = "retry" /\ ~Whole(cached \cup Flush)
  /\ torn' = TRUE
  /\ UNCHANGED <<device, hostVars, callVars, deviceVars>>

\* a kernel that uses block b, on any stream
Launch(b, s) ==
  LET k == [ptr |-> b.ptr, size |-> b.size, stream |-> s, n |-> launched[s] + 1]
  IN  /\ pc = "idle" /\ b \in active /\ b.ptr \notin deferred
      /\ launched[s] < MaxKernels
      /\ launched' = [launched EXCEPT ![s] = @ + 1]
      /\ kernels' = kernels \cup {k}
      /\ UNCHANGED <<device, hostVars, callVars, torn, done, exposed>>

-----------------------------------------------------------------------------

Steps(w) == \/ \E b \in cached : Reuse(w, b)
            \/ \E p \in 0 .. DeviceSize : Fresh(w, p)
            \/ OutOfMemory(w) \/ Retry(w)

Undefined == torn /\ UNCHANGED allocVars

AllocNext ==
  \/ /\ ~torn
     /\ \/ \E s \in Streams : Finish(s) \/ \E size \in Requests : Malloc(size, s)
        \/ \E w \in want : Steps(w)
        \/ Collect \/ Synchronize \/ EmptyCache \/ Tear
        \/ \E b \in active :
             \/ DeferFree(b)
             \/ \E s \in Streams : Free(b, s) \/ RecordStream(b, s) \/ Launch(b, s)
  \/ Undefined

AllocSpec == AllocInit /\ [][AllocNext]_allocVars

-----------------------------------------------------------------------------
(* Properties                                                              *)

\* Types.
AllocTypeOK ==
  /\ device \subseteq Segments /\ active \subseteq ActiveBlocks
  /\ pending \subseteq PendingBlocks /\ cached \subseteq CachedBlocks
  /\ deferred \subseteq Nat
  /\ reserved \in Nat /\ allocated \in Nat /\ inactive \in Nat
  /\ pc \in {"idle", "collect", "find", "retry"}
  /\ want \subseteq [size : Requests, stream : Streams]
  /\ raised \in BOOLEAN /\ torn \in BOOLEAN
  /\ kernels \subseteq Kernels /\ exposed \subseteq kernels
  /\ launched \in [Streams -> Nat] /\ done \in [Streams -> Nat]

AllApart(S) == \A a, b \in S : a # b => Apart(a, b)

\* No two blocks of the allocator, in use, freed or cached, share memory, and every
\* block lies in memory that the device has given: however pieces are split off, handed
\* out again and given back.
Disjoint ==
  /\ AllApart(device) /\ AllApart(active) /\ AllApart(pending) /\ AllApart(cached)
  /\ \A a \in active, b \in pending \cup cached : Apart(a, b)
  /\ \A a \in pending, b \in cached : Apart(a, b)
  /\ \A b \in active \cup pending \cup cached : \E g \in device : Within(b, g)

\* While a kernel is in flight no malloc hands out memory that it uses, to any stream, and
\* no segment under it goes back to the device, though its block died with the kernel
\* queued, was split or changed streams meanwhile.  One event covers one stream
\* (allocator.py:296): it is so for all kernels but those exposed, which ran on another
\* stream than the one that the free of their block was told or found recorded.
NoEarlyReuse ==
  [][\A k \in kernels' \ exposed : k \in kernels =>
       /\ pc # "idle" => \A a \in active' \ active : Apart(k, a)
       /\ \A g \in device \ device' : Apart(k, g)]_allocVars

\* The statistics agree with the blocks: the bytes reserved are those of the device's
\* segments and those of all blocks together, so no piece is lost or counted twice.
StatsExact ==
  /\ reserved = Bytes(device)
  /\ reserved = Bytes(active) + Bytes(pending) + Bytes(cached)
  /\ allocated = Bytes(active) /\ inactive = Bytes(cached)

\* malloc fails only when all that could be given back was: nothing is cached or waits
\* for an event, every segment holds a block in use, and the request fits nowhere.
OomOnlyWhenExhausted ==
  [][~raised /\ raised' => /\ cached' = {} /\ pending' = {}
                           /\ \A g \in device' : \E a \in active' : Within(a, g)
                           /\ \A w \in want : NoRoom(w, device')]_allocVars

=============================================================================
