----------------------------- MODULE BlockStore -----------------------------
(***************************************************************************)
(* What the block cache owes the readers, without workers, buffers and     *)
(* eviction: get(block_no, offset, length) gives a future, and the future  *)
(* gives the bytes offset..offset+length of the whole decompressed block,  *)
(* for as long as the range is held.  Only the future of a block that      *)
(* cannot be decompressed fails.                                           *)
(*                                                                         *)
(* The exception is what the codec makes of a corrupt block: the part of   *)
(* it before the damage decodes, so a range within that part may be given; *)
(* and when the damage is found the buffer is cleared, so the range is     *)
(* void from then on (decompress_frame of src/src/compression/lzma.cpp).   *)
(***************************************************************************)
EXTENDS Integers, Sequences

CONSTANTS
    Requests,   \* the calls of get
    Blocks,     \* the blocks of the image
    Size,       \* the length of each block when decompressed
    Corrupt,    \* the blocks that cannot be decompressed
    Sound       \* of each corrupt block: the units before the damage

VARIABLE got    \* of each call: [block, from, upto, at, data]

NoBlock == "none"

\* decompress_whole(b)
Content(b) == [i \in 1..Size[b] |-> <<b, i>>]

Call(b, from, upto, at, data) ==
    [block |-> b, from |-> from, upto |-> upto, at |-> at, data |-> data]

\* A call that was not made, or is over.
Over(at) == Call(NoBlock, 0, 0, at, <<>>)

NotCalled == Over("new")

Waiting(b, from, upto) == Call(b, from, upto, "waiting", <<>>)

Held(c) == [c EXCEPT !.at = "held",
                     !.data = SubSeq(Content(c.block), c.from, c.upto)]

\* The range can be given: it ends before the damage, if there is any.
Decodes(b, upto) == b \in Corrupt => upto <= Sound[b]

Init == got = [r \in Requests |-> NotCalled]

\* get: the future, which may be ready when it is returned.
Get(r, b, from, upto) ==
    /\ got[r] = NotCalled
    /\ \E answered \in (IF Decodes(b, upto) THEN BOOLEAN ELSE {FALSE}) :
          got' = [got EXCEPT ![r] = IF answered
                                    THEN Held(Waiting(b, from, upto))
                                    ELSE Waiting(b, from, upto)]

\* The futures of rs become ready at once.
Resolve(rs) ==
    /\ \A r \in rs :
          got[r].at = "waiting" /\ Decodes(got[r].block, got[r].upto)
    /\ got' = [r \in Requests |-> IF r \in rs THEN Held(got[r]) ELSE got[r]]

\* The damage of a block is found: every future of it throws, and every
\* range of it is void.
Fail(b) ==
    /\ b \in Corrupt
    /\ got' = [r \in Requests |->
                  CASE got[r].block # b -> got[r]
                    [] got[r].at = "waiting" -> Over("failed")
                    [] OTHER -> [got[r] EXCEPT !.data = <<>>]]

\* The future or the range is dropped.
Leave(r) ==
    /\ got[r].at \in {"waiting", "held"}
    /\ got' = [got EXCEPT ![r] = Over("done")]

Next ==
    \/ \E rs \in SUBSET Requests : Resolve(rs)
    \/ \E r \in Requests, b \in Blocks :
          \E from \in 1..Size[b] : \E upto \in from..Size[b] :
             Get(r, b, from, upto)
    \/ \E b \in Corrupt : Fail(b)
    \/ \E r \in Requests : Leave(r)

Spec == Init /\ [][Next]_got

=============================================================================
