----------------------------- MODULE BlockCache -----------------------------
(***************************************************************************)
(* The block cache behind reader::internal::block_cache: get returns the   *)
(* future of a range of a decompressed block.  The class in the sources is *)
(* the interface alone; what is behind it is taken from section 4.3 of the *)
(* specification.                                                          *)
(*                                                                         *)
(* A step is one critical section of the cache mutex.  A worker            *)
(* decompresses a frame outside the mutex (Decode) and publishes it inside *)
(* (Publish), so calls of get and drops of futures come between the two.   *)
(* A block is a sequence of units, a frame a run of them.  A corrupt block *)
(* fails in the frame that reaches its first unsound unit: decompress_frame*)
(* of src/src/compression/lzma.cpp then clears the target, which is the    *)
(* buffer the ranges given out for earlier frames look into.               *)
(***************************************************************************)
EXTENDS Integers, SequencesExt

CONSTANTS
    Blocks,     \* the blocks of the image
    Size,       \* the length of each block when decompressed
    Corrupt,    \* the blocks that cannot be decompressed
    Sound,      \* of each corrupt block: the units before the damage
    Calls,      \* the number of calls of get
    Workers,    \* the worker threads
    MaxBytes    \* max_bytes, in units

VARIABLES
    blk,        \* of each block: [state, buffer, waiters, served]
    queue,      \* the pending blocks no worker has taken
    lru,        \* the blocks in the order of their last get
    worker,     \* of each worker: its block, and the end of the frame
                \* it has decompressed and not published
    req         \* of each call: [block, from, upto, at]

vars == <<blk, queue, lru, worker, req>>

\* The calls of get, numbered in the order in which they are made.
Requests == 1..Calls

NoBlock == "none"

Idle == [block |-> NoBlock, upto |-> 0]

\* A call that was not made, or is over.
Call(at) == [block |-> NoBlock, from |-> 0, upto |-> 0, at |-> at]

NotCalled == Call("new")

\* A block without buffer and consumers.
Fresh(state) ==
    [state |-> state, buffer |-> <<>>, waiters |-> <<>>, served |-> FALSE]

Content(b) == [i \in 1..Size[b] |-> <<b, i>>]

\* A sequence that keeps what was to be taken from it.
Keeping(s, x) == s

Without(s, x) == SelectSeq(s, LAMBDA y : y # x)

\* The ranges of b that are held.
Holders(b) == {r \in Requests : req[r].at = "held" /\ req[r].block = b}

\* A range of b is held.
Pinned(b) == \E r \in Requests : req[r].at = "held" /\ req[r].block = b

Ready == {b \in Blocks : blk[b].state = "ready"}

-----------------------------------------------------------------------------
\* Every get of a block that is not ready starts a decompression.
AbsentOrBusy(b) == blk[b].state # "ready"

\* No buffer and no worker: get starts from UNREFERENCED.
Absent(b) == blk[b].state \in {"unreferenced", "evicted"}

\* get
Get(r, b, from, upto) ==
    LET there == Len(blk[b].buffer) >= upto
    IN /\ req[r] = NotCalled
       /\ \A earlier \in 1..(r - 1) : req[earlier] # NotCalled
       /\ lru' = Append(Without(lru, b), b)
       /\ req' = [req EXCEPT ![r] = [block |-> b, from |-> from, upto |-> upto,
                                     at |-> IF there THEN "held" ELSE "waiting"]]
       /\ blk' = [blk EXCEPT ![b] =
                    CASE there -> [@ EXCEPT !.served = TRUE]
                      [] Absent(b) -> [Fresh("pending") EXCEPT !.waiters = <<r>>]
                      [] OTHER -> [@ EXCEPT !.waiters = Append(@, r)]]
       /\ queue' = IF ~there /\ Absent(b) THEN Append(queue, b) ELSE queue
       /\ UNCHANGED worker

\* A worker takes a pending block.
Start(w) ==
    /\ worker[w] = Idle
    /\ queue # <<>>
    /\ worker' = [worker EXCEPT ![w].block = Head(queue)]
    /\ blk' = [blk EXCEPT ![Head(queue)].state = "decoding"]
    /\ queue' = Tail(queue)
    /\ UNCHANGED <<lru, req>>

\* The end of the next frame: that of the largest outstanding waiter.
FrameEnd(b) ==
    Max({req[r].upto : r \in Range(blk[b].waiters)}
           \cup {Len(blk[b].buffer) + 1})

\* decompress_frame, without the mutex.
Decode(w) ==
    /\ worker[w].block # NoBlock
    /\ worker[w].upto = 0
    /\ Len(blk[worker[w].block].buffer) < Size[worker[w].block]
    /\ worker' = [worker EXCEPT ![w].upto = FrameEnd(worker[w].block)]
    /\ UNCHANGED <<blk, queue, lru, req>>

\* A waiter is satisfied one unit before the end of its range.
SatisfiedEarly(r, upto) == req[r].upto <= upto + 1

\* buffer.size() >= needed_upto
Satisfied(r, upto) == req[r].upto <= upto

\* lzma_code does not answer what the frame calls for: the frame reaches
\* into the damage.
FrameFails(b, upto) == b \in Corrupt /\ upto > Sound[b]

\* The frame is appended and the waiters are signalled; a frame that
\* cannot be decompressed fails every waiter of the block, and leaves the
\* ranges that earlier frames served without the buffer they look into.
Publish(w) ==
    LET b == worker[w].block
        upto == worker[w].upto
        failed == FrameFails(b, upto)
        served == {r \in Range(blk[b].waiters) : failed \/ Satisfied(r, upto)}
    IN /\ upto > 0
       /\ req' = [r \in Requests |->
                    CASE r \in served /\ failed -> Call("failed")
                      [] r \in served -> [req[r] EXCEPT !.at = "held"]
                      [] r \in Holders(b) /\ failed ->
                            [req[r] EXCEPT !.at = "void"]
                      [] OTHER -> req[r]]
       /\ blk' = [blk EXCEPT ![b] =
                    IF failed THEN Fresh("unreferenced")
                    ELSE [@ EXCEPT !.buffer = SubSeq(Content(b), 1, upto),
                                   !.waiters = SelectSeq(@, LAMBDA r : r \notin served),
                                   !.served = @ \/ served # {}]]
       /\ worker' = [worker EXCEPT ![w] = IF failed THEN Idle ELSE [@ EXCEPT !.upto = 0]]
       /\ lru' = IF failed THEN Without(lru, b) ELSE lru
       /\ UNCHANGED queue

\* The ready blocks, the one used last first.
LastUsedFirst == Reverse(SelectSeq(lru, LAMBDA b : b \in Ready /\ ~Pinned(b)))

\* The ready blocks no range pins, the least recently used first.
Evictable == SelectSeq(lru, LAMBDA b : b \in Ready /\ ~Pinned(b))

Bytes(bs) == SumFunctionOnSet(Size, bs)

\* How many of the evictable blocks make room for b.
Enough(b) ==
    {k \in 0..Len(Evictable) :
        Bytes(Ready \ Range(SubSeq(Evictable, 1, k))) + Size[b] <= MaxBytes}

\* The decoded block becomes READY, when evicting makes room for it; the
\* inserter waits while the pinned blocks leave none.
Insert(w) ==
    LET b == worker[w].block
        victims == Range(SubSeq(Evictable, 1, Min(Enough(b))))
    IN /\ b # NoBlock
       /\ worker[w].upto = 0
       /\ Len(blk[b].buffer) = Size[b]
       /\ Enough(b) # {}
       /\ blk' = [x \in Blocks |->
                    CASE x = b -> [blk[b] EXCEPT !.state = "ready"]
                      [] x \in victims -> Fresh("evicted")
                      [] OTHER -> blk[x]]
       /\ lru' = SelectSeq(lru, LAMBDA x : x \notin victims)
       /\ worker' = [worker EXCEPT ![w] = Idle]
       /\ UNCHANGED <<queue, req>>

\* The tidy task: an idle block nobody holds is evicted.
Tidy(b) ==
    /\ b \in Ready
    /\ ~Pinned(b)
    /\ blk' = [blk EXCEPT ![b] = Fresh("evicted")]
    /\ lru' = Without(lru, b)
    /\ UNCHANGED <<queue, worker, req>>

\* The range handle is destroyed.
Release(r) ==
    /\ req[r].at \in {"held", "void"}
    /\ req' = [req EXCEPT ![r] = Call("done")]
    /\ UNCHANGED <<blk, queue, lru, worker>>

\* A block is abandoned whenever a future of it is dropped.
LeftOrNot(b, left) == TRUE

\* No consumer is left and no promise was fulfilled.
Deserted(b, left) == left = <<>> /\ ~blk[b].served

\* A future is dropped: its waiter is detached, and a block without
\* consumers may be abandoned.
Drop(r) ==
    LET b == req[r].block
        left == Without(blk[b].waiters, r)
    IN /\ req[r].at = "waiting"
       /\ req' = [req EXCEPT ![r] = Call("done")]
       /\ \/ /\ blk' = [blk EXCEPT ![b].waiters = left]
             /\ UNCHANGED <<queue, lru, worker>>
          \/ /\ Deserted(b, left)
             /\ blk' = [blk EXCEPT ![b] = Fresh("unreferenced")]
             /\ queue' = Without(queue, b)
             /\ lru' = Without(lru, b)
             /\ worker' = [w \in Workers |->
                             IF worker[w].block = b THEN Idle ELSE worker[w]]

-----------------------------------------------------------------------------
Init ==
    /\ blk = [b \in Blocks |-> Fresh("unreferenced")]
    /\ queue = <<>>
    /\ lru = <<>>
    /\ worker = [w \in Workers |-> Idle]
    /\ req = [r \in Requests |-> NotCalled]

Work(w) == Start(w) \/ Decode(w) \/ Publish(w) \/ Insert(w)

\* Every call is over and the workers have nothing to do.
Quiet ==
    /\ \A r \in Requests : req[r].at \in {"done", "failed"}
    /\ UNCHANGED vars

Next ==
    \/ \E r \in Requests, b \in Blocks :
          \E from \in 1..Size[b] : \E upto \in from..Size[b] :
             Get(r, b, from, upto)
    \/ \E w \in Workers : Work(w)
    \/ \E b \in Blocks : Tidy(b)
    \/ \E r \in Requests : Release(r) \/ Drop(r)
    \/ Quiet

\* The workers run, and a reader lets go of the range it was given.
Fairness ==
    /\ \A w \in Workers : WF_vars(Work(w))
    /\ \A r \in Requests : WF_vars(Release(r))

Spec == Init /\ [][Next]_vars /\ Fairness

-----------------------------------------------------------------------------
TypeOK ==
    /\ \A b \in Blocks :
          /\ blk[b].state \in {"unreferenced", "pending", "decoding", "ready",
                               "evicted"}
          /\ IsPrefix(blk[b].buffer, Content(b))
          /\ \A r \in Range(blk[b].waiters) :
                r \in Requests /\ req[r].at = "waiting" /\ req[r].block = b
          /\ blk[b].served \in BOOLEAN
    /\ Range(queue) \subseteq Blocks
    /\ Range(lru) \subseteq Blocks
    /\ \A w \in Workers :
          worker[w].block \in Blocks \cup {NoBlock} /\ worker[w].upto \in Nat
    /\ \A r \in Requests :
          /\ req[r].block \in Blocks \cup {NoBlock}
          /\ req[r].at \in {"new", "waiting", "held", "void", "failed",
                             "done"}

\* Single flight: however the calls of get for a block meet, the block is
\* in the queue once or with one worker while it is pending or decoding,
\* and with none otherwise.
SingleFlight ==
    \A b \in Blocks :
        Len(SelectSeq(queue, LAMBDA x : x = b))
            + Cardinality({w \in Workers : worker[w].block = b})
          = IF blk[b].state \in {"pending", "decoding"} THEN 1 ELSE 0

Position(b) == CHOOSE i \in DOMAIN lru : lru[i] = b

\* LRU correctness.  The READY blocks never hold more than max_bytes,
\* whatever is pinned when a new block is decoded; and a block that makes
\* room for a new one is the least recently used: no block that stays,
\* and that no range pinned, had its last get earlier.
LruCorrectness ==
    [][/\ Bytes(Ready)' <= MaxBytes
       /\ (\E n \in Blocks : n \notin Ready /\ blk'[n].state = "ready") =>
             \A b, x \in Ready :
                 blk'[b].state = "evicted" /\ blk'[x].state = "ready"
                     /\ ~Pinned(x) => Position(b) < Position(x)]_vars

\* Cache coherence, and errors through the affected futures only: the
\* cache with its workers, frames, evictions and abandoned blocks is a
\* BlockStore.  A future gives the bytes of the whole decompressed block,
\* the range stays what it was while it is held, and no future of a sound
\* block fails for what happened to another.  Of a corrupt block a range
\* is given only within its sound part, and is void from the frame that
\* fails: decompress_frame clears the buffer on its way out.
View(r) ==
    LET buffer == blk[req[r].block].buffer
    IN IF req[r].at = "held"
       THEN SubSeq(buffer, req[r].from, Min({req[r].upto, Len(buffer)}))
       ELSE <<>>

Store == INSTANCE BlockStore
             WITH got <- [r \in Requests |->
                             [block |-> req[r].block, from |-> req[r].from,
                              upto |-> req[r].upto,
                              at |-> IF req[r].at = "void" THEN "held"
                                     ELSE req[r].at,
                              data |-> View(r)]]

ImplementsBlockStore == Store!Spec

\* Every future becomes ready, fails or is dropped: no waiter is forgotten
\* by the worker of its block, and no block is left without a worker while
\* a future waits for it.
EveryGetResolves == []<>(\A r \in Requests : req[r].at # "waiting")

=============================================================================
