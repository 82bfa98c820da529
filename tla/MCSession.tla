------------------------------ MODULE MCSession ------------------------------
(* Small instances of Session: budgets that run out in the middle of a phase, *)
(* kernel queues and compaction thresholds shorter than one reply.            *)
EXTENDS Session

MCBudgets == {[bytes |-> 0, syscalls |-> 1], [bytes |-> 2, syscalls |-> 2],
              [bytes |-> 9, syscalls |-> 1], [bytes |-> 9, syscalls |-> 9]}
MCReplyLens == {3}
MCInputLens == {0, 1, 2}
=============================================================================
