---------------------------- MODULE ImageLayout ----------------------------
(***************************************************************************)
(* What the filesystem writer owes the reader of an image, without         *)
(* workers, codecs and queues: the sections are in the image in the order  *)
(* in which the writer accepted them, each with the compression it was     *)
(* accepted for or with none, one behind the other from the end of the     *)
(* header; the section index is written once, after the last section, and  *)
(* lists them as they lie; a build that was aborted has no index.          *)
(***************************************************************************)
EXTENDS Integers, Sequences, SequencesExt

CONSTANTS
    Bases,          \* the lengths a header may have
    Sections,       \* what may be handed to the writer: [type, no, codec]
    Lengths,        \* the lengths a section may have in the image
    Uncompressed    \* the compression type of a section stored as it is

VARIABLES
    base,       \* the length of the header before section 0
    accepted,   \* the sections handed to the writer: [type, no, codec]
    written,    \* the image: [type, no, compression, offset, length]
    index,      \* the section index: [type, offset, length], once written
    outcome     \* "open", "closed" or "aborted"

vars == <<base, accepted, written, index, outcome>>

\* Where the next section starts.
End ==
    IF written = <<>> THEN base
    ELSE written[Len(written)].offset + written[Len(written)].length

IsBlock(s) == s.type = "block"

Init ==
    /\ base = 0
    /\ accepted = <<>>
    /\ written = <<>>
    /\ index = <<>>
    /\ outcome = "open"

\* The header is copied in front of section 0.
SetBase(n) ==
    /\ outcome = "open" /\ accepted = <<>>
    /\ base' = n
    /\ UNCHANGED <<accepted, written, index, outcome>>

\* A block gets the number the chunks of the metadata will name it by.
Accept(s) ==
    /\ outcome = "open"
    /\ s.type = "block" => s.no = Len(SelectSeq(accepted, IsBlock))
    /\ accepted' = Append(accepted, s)
    /\ UNCHANGED <<base, written, index, outcome>>

\* The next section in order is written where the last one ends.
Write(compression, length) ==
    LET s == accepted[Len(written) + 1]
    IN /\ outcome = "open"
       /\ Len(written) < Len(accepted)
       /\ compression \in {s.codec, Uncompressed}
       /\ written' = Append(written,
                            [type |-> s.type, no |-> s.no,
                             compression |-> compression,
                             offset |-> End, length |-> length])
       /\ UNCHANGED <<base, accepted, index, outcome>>

\* The index, behind the last section that was accepted.
Close ==
    /\ outcome = "open"
    /\ Len(written) = Len(accepted)
    /\ index' = [i \in DOMAIN written |->
                    [type |-> written[i].type, offset |-> written[i].offset,
                     length |-> written[i].length]]
    /\ outcome' = "closed"
    /\ UNCHANGED <<base, accepted, written>>

Abort ==
    /\ outcome = "open"
    /\ outcome' = "aborted"
    /\ UNCHANGED <<base, accepted, written, index>>

Next ==
    \/ \E n \in Bases : SetBase(n)
    \/ \E s \in Sections : Accept(s)
    \/ \E c \in {s.codec : s \in Sections} \cup {Uncompressed}, l \in Lengths :
          Write(c, l)
    \/ Close
    \/ Abort

Spec == Init /\ [][Next]_vars

=============================================================================
