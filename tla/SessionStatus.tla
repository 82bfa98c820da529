---------------------------- MODULE SessionStatus ----------------------------
(* The lifecycle a caller observes through Session::status and                *)
(* Session::exit_status: two facts, the child's status being known and the    *)
(* I/O being over, meet in Reaped in either order.                            *)

VARIABLES
    status,     \* Session::status
    exited      \* Session::exit_status is Some

svars == <<status, exited>>

Init == status = "Live" /\ exited = FALSE

(* PTY EOF. *)
IoEnds ==
    /\ status = "Live"
    /\ status' = IF exited THEN "Reaped" ELSE "Eof"
    /\ UNCHANGED exited

(* The direct child is reaped, once. *)
ChildReaped ==
    /\ ~exited
    /\ exited' = TRUE
    /\ status' = IF status = "Live" THEN "Live" ELSE "Reaped"

Close ==
    /\ status \in {"Live", "Eof"}
    /\ status' = "Closing"
    /\ UNCHANGED exited

Next == IoEnds \/ ChildReaped \/ Close

Spec == Init /\ [][Next]_svars
=============================================================================
