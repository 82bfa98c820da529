------------------------------ MODULE EventLoop ------------------------------
(* A Session driven by the edge-triggered poll loop session.rs documents: one *)
(* unconditional pump, more pumps while needs_pump(), then block on the fd    *)
(* for interests().  Readiness is reported once per edge, the weakest service *)
(* an edge-triggered poller gives: the read edge when output appears on an    *)
(* empty queue, the write edge when a full queue gets room, both on hang-up.  *)
EXTENDS Session

VARIABLES
    loop,           \* "pump": step 1; "drain": its while; "poll": blocked
    read_edge,      \* an undelivered readable edge
    write_edge      \* an undelivered writable edge

loopVars == <<loop, read_edge, write_edge>>
allVars == <<vars, loopVars>>

LoopInit ==
    /\ Init
    /\ loop = "pump" /\ read_edge = FALSE /\ write_edge = FALSE

-----------------------------------------------------------------------------
(* The caller. *)

(* The first pump of a round is not gated on needs_pump(). *)
PumpOnce ==
    /\ loop = "pump"
    /\ \E b \in Budgets : BeginPump(b)
    /\ loop' = "drain"
    /\ UNCHANGED <<read_edge, write_edge>>

PumpAgain ==
    /\ loop = "drain" /\ needs_pump
    /\ \E b \in Budgets : BeginPump(b)
    /\ UNCHANGED loopVars

(* Nothing more is possible without readiness. *)
Block ==
    /\ pc = "idle"
    /\ loop = "drain" /\ ~needs_pump
    /\ loop' = "poll"
    /\ UNCHANGED <<vars, read_edge, write_edge>>

(* poll returns on an edge of a registered interest, and consumes it. *)
Wake ==
    /\ loop = "poll"
    /\ \/ readable_interest /\ read_edge
       \/ writable_interest /\ write_edge
    /\ read_edge' = (read_edge /\ ~readable_interest)
    /\ write_edge' = (write_edge /\ ~writable_interest)
    /\ loop' = "pump"
    /\ UNCHANGED vars

(* Another source wakes the loop (a key, a signal) and the caller acts on the *)
(* session before its next round.                                             *)
CallerActs ==
    /\ loop = "poll"
    /\ \/ \E n \in InputLens : InputBound(n) /\ EnqueueInput(n)
       \/ Close
    /\ loop' = "pump"
    /\ UNCHANGED <<read_edge, write_edge>>

(* try_wait, polled from the loop like the examples do. *)
CallerReaps ==
    /\ loop = "poll"
    /\ TryWait
    /\ loop' = "pump"
    /\ UNCHANGED <<read_edge, write_edge>>

-----------------------------------------------------------------------------
PumpRuns == PumpStep /\ UNCHANGED loopVars

KernelMoves ==
    /\ KernelStep
    /\ read_edge' = (\/ read_edge
                     \/ pty_output = <<>> /\ pty_output' # <<>>
                     \/ slave_open /\ ~slave_open')
    /\ write_edge' = (\/ write_edge
                      \/ WriteRoom = 0 /\ consumed' > consumed
                      \/ slave_open /\ ~slave_open')
    /\ UNCHANGED loop

LoopNext ==
    \/ PumpOnce \/ PumpAgain \/ Block \/ Wake \/ CallerActs \/ CallerReaps
    \/ PumpRuns \/ KernelMoves

(* The caller runs its loop and polls try_wait, and a pump that began goes on: *)
(* one thread does both.                                                      *)
CallerFairness ==
    /\ WF_allVars(PumpOnce) /\ WF_allVars(PumpAgain)
    /\ WF_allVars(Block) /\ WF_allVars(Wake)
    /\ WF_allVars(CallerReaps)
    /\ WF_allVars(PumpRuns)

(* Nothing makes the child read, write, exit or close: it may stop for good.  *)
LoopSpec == LoopInit /\ [][LoopNext]_allVars /\ CallerFairness

(* What two of the properties ask of the child besides: the slave side reads   *)
(* what it is sent while it holds the slave.                                  *)
ChildReadFairness == WF_allVars(KernelMoves /\ consumed' > consumed)

-----------------------------------------------------------------------------
(* Properties. *)

(* No lost wake-up: while the loop is blocked, whatever the kernel could do   *)
(* for a registered interest has an edge still to deliver, and no work that   *)
(* needs no edge is left behind.                                              *)
NoLostWakeup ==
    loop = "poll" =>
        /\ ~needs_pump
        /\ readable_interest /\ (pty_output # <<>> \/ ~slave_open) => read_edge
        /\ writable_interest /\ (WriteRoom > 0 \/ ~slave_open) => write_edge

(* Next to a child that reads on, everything queued reaches the kernel unless *)
(* the session is over first, however writes and replies interleave with reads. *)
QueueDrains == ChildReadFairness => (~outbound_empty ~> outbound_empty \/ Closed)

(* Output the child wrote is read and decoded, unless the session is over:    *)
(* a child that reads on takes the reply in the way and decoding resumes.     *)
OutputDecoded ==
    ChildReadFairness =>
        (pty_output # <<>> \/ buffered_read_len > 0
            ~> (pty_output = <<>> /\ buffered_read_len = 0) \/ Closed)

(* When the slave side has gone and the child has exited, the session ends,   *)
(* whichever of the two the caller learns first, unless it has closed it.     *)
SessionEnds ==
    ~slave_open /\ child # "running" ~> phase = "Reaped" \/ pty = "Closing"

(* Step 1 of the loop comes to an end: pumping does not spin while there is   *)
(* nothing to do before the next readiness edge, also next to a stalled child. *)
DrainTerminates == loop = "drain" ~> loop # "drain"
=============================================================================
