---------------------------- MODULE ChecksumList ----------------------------
(***************************************************************************)
(* What dwarfsck --checksum owes its caller, without the threads that make *)
(* it: every regular file of the image is dealt with once, by a line of    *)
(* the list or by a reported error, in any order, and the tool ends only   *)
(* well only when none is left.  A tool that is not asked for the list, or *)
(* fails before it, ends without one; a tool that gives up in the middle   *)
(* of the list ends as failed, with the lines it has written.              *)
(***************************************************************************)
EXTENDS Sequences

CONSTANT Regular    \* the regular files of the image

VARIABLES
    phase,      \* "start", "listing", "done" or "failed"
    listed,     \* the files of the lines written, in the order of the lines
    reported    \* the files an error was reported for

vars == <<phase, listed, reported>>

\* The files not dealt with.
Pending == Regular \ ({listed[i] : i \in DOMAIN listed} \cup reported)

Init ==
    /\ phase = "start"
    /\ listed = <<>>
    /\ reported = {}

Begin ==
    /\ phase = "start"
    /\ phase' = "listing"
    /\ UNCHANGED <<listed, reported>>

Decline ==
    /\ phase = "start"
    /\ phase' = "done"
    /\ UNCHANGED <<listed, reported>>

List(f) ==
    /\ phase = "listing"
    /\ f \in Pending
    /\ listed' = Append(listed, f)
    /\ UNCHANGED <<phase, reported>>

Report(f) ==
    /\ phase = "listing"
    /\ f \in Pending
    /\ reported' = reported \cup {f}
    /\ UNCHANGED <<phase, listed>>

Finish ==
    /\ phase = "listing"
    /\ Pending = {}
    /\ phase' = "done"
    /\ UNCHANGED <<listed, reported>>

GiveUp ==
    /\ phase = "listing"
    /\ phase' = "failed"
    /\ UNCHANGED <<listed, reported>>

Next ==
    \/ Begin
    \/ Decline
    \/ \E f \in Regular : List(f) \/ Report(f)
    \/ Finish
    \/ GiveUp

Spec == Init /\ [][Next]_vars

=============================================================================
