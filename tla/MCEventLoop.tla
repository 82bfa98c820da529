----------------------------- MODULE MCEventLoop -----------------------------
(* A small instance of EventLoop. *)
EXTENDS EventLoop

MCBudgets == {[bytes |-> 2, syscalls |-> 2], [bytes |-> 9, syscalls |-> 9]}
MCReplyLens == {2}
MCInputLens == {1, 2}
=============================================================================
