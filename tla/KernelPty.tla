------------------------------ MODULE KernelPty ------------------------------
(* The two ends of the pseudo-terminal a Session does not own: the kernel's   *)
(* queues and the processes on the slave side.  None of this is termnix code; *)
(* it is modelled from how session.rs and pty.rs use it: read and write on a  *)
(* non-blocking master, EIO once the last slave fd is closed, a child that is *)
(* a zombie until it is waited for.                                           *)
EXTENDS Integers, Sequences

CONSTANTS
    InCapacity,     \* bytes the kernel holds between master and child
    OutCapacity,    \* bytes the kernel holds between child and master
    ReplyLens,      \* lengths of the replies the emulator can produce
    WriteEio        \* whether a write to a gone slave fails with EIO

ASSUME KernelAssumption ==
    /\ InCapacity \in Nat \ {0} /\ OutCapacity \in Nat \ {0}
    /\ ReplyLens \subseteq Nat \ {0}
    /\ WriteEio \in BOOLEAN

VARIABLES
    pty_output,     \* what the slave side wrote and the master has not read
    wire,           \* every byte the master ever wrote, in order
    consumed,       \* how many bytes of wire the slave side has read
    slave_open,     \* some process still holds a slave fd
    child           \* the direct child, as waitpid sees it

kernelVars == <<pty_output, wire, consumed, slave_open, child>>

-----------------------------------------------------------------------------
(* A byte of child output is what the emulator makes of it: the length of the *)
(* reply it completes, 0 for a byte that completes none.                      *)
Output == {0} \cup ReplyLens

(* A byte on its way to the child: who queued it, and its place among the     *)
(* bytes of that source.                                                      *)
Byte == [src : {"input", "reply"}, seq : Nat]

(* `count` fresh bytes of `src`, numbered after the first `from`. *)
Fresh(src, from, count) ==
    [i \in 1..count |-> [src |-> src, seq |-> from + i]]

(* Room left in the kernel for the master to write into. A closed slave       *)
(* drains nothing and blocks nobody: the tty layer discards.                  *)
WriteRoom == InCapacity - (Len(wire) - consumed)

-----------------------------------------------------------------------------
KernelTypeOK ==
    /\ pty_output \in Seq(Output)
    /\ wire \in Seq(Byte)
    /\ consumed \in Nat
    /\ slave_open \in BOOLEAN
    /\ child \in {"running", "zombie", "reaped"}

KernelInit ==
    /\ pty_output = <<>>
    /\ wire = <<>>
    /\ consumed = 0
    /\ slave_open = TRUE
    /\ child = "running"

(* A process on the slave side writes one byte. *)
ChildWrite(byte) ==
    /\ slave_open
    /\ Len(pty_output) < OutCapacity
    /\ pty_output' = Append(pty_output, byte)
    /\ UNCHANGED <<wire, consumed, slave_open, child>>

(* A process on the slave side reads one byte of what the master wrote. *)
ChildRead ==
    /\ slave_open
    /\ consumed < Len(wire)
    /\ consumed' = consumed + 1
    /\ UNCHANGED <<pty_output, wire, slave_open, child>>

(* The direct child exits.  Its descendants may keep the slave open. *)
ChildExit ==
    /\ child = "running"
    /\ child' = "zombie"
    /\ UNCHANGED <<pty_output, wire, consumed, slave_open>>

(* The last slave fd goes away, before or after the child exits: a child may  *)
(* close its standard streams and live on.                                    *)
SlaveClose ==
    /\ slave_open
    /\ slave_open' = FALSE
    /\ UNCHANGED <<pty_output, wire, consumed, child>>
=============================================================================
