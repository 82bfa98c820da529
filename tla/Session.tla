------------------------------- MODULE Session -------------------------------
(* termnix's Session: the single-threaded owner of a PTY master, a terminal   *)
(* emulator, a bounded read buffer and an unbounded write queue, driven by    *)
(* pump_io.  A call of pump_io is not atomic here: each read or write syscall *)
(* and each decoded byte is a step of its own, and the kernel and the child   *)
(* move between them.  The caller's own calls (enqueue_input, close,          *)
(* try_wait) come between pumps, because pump_io borrows the session.         *)
EXTENDS KernelPty, FiniteSets

CONSTANTS
    None,                       \* Option::None
    ReadBufferLimit,            \* READ_BUFFER_LIMIT
    OutboundCompactThreshold,   \* OUTBOUND_COMPACT_THRESHOLD
    ReadCompactThreshold,       \* READ_COMPACT_THRESHOLD
    Budgets,                    \* the PumpBudgets callers pass
    InputLens,                  \* encoded lengths of the Inputs callers pass
    Interrupts,                 \* whether a syscall may move nothing (EINTR, Ok(0))
    IoErrors,                   \* whether a syscall may fail with another error
    MaxInput,                   \* bound: bytes enqueued in a behaviour
    MaxOutput                   \* bound: bytes the child writes in a behaviour

Budget == [bytes : Nat, syscalls : Nat]
ReplyRange == [start : Nat, end : Nat]
Direction == {"Read", "Write"}
Phase == {"Live", "Eof", "Closing", "Reaped"}

ASSUME SessionAssumption ==
    /\ None \notin ReplyRange
    /\ ReadBufferLimit \in Nat \ {0}
    /\ OutboundCompactThreshold \in Nat \ {0}
    /\ ReadCompactThreshold \in Nat \ {0}
    /\ Budgets \subseteq Budget
    /\ InputLens \subseteq Nat
    /\ Interrupts \in BOOLEAN /\ IoErrors \in BOOLEAN
    /\ MaxInput \in Nat /\ MaxOutput \in Nat

VARIABLES
    pty,                    \* "Live" while the master is open, else "Closing"
    phase,
    exit_status,            \* whether the child's status is cached
    read_buffer, read_offset,
    outbound, write_offset,
    pending_reply_range,
    direction,              \* where the next pump starts
    read_would_block, write_would_block,
    counters,
    pc,                     \* where the running pump_io is; "idle" between pumps
    budget,                 \* what is left of the running pump's budget
    dir,                    \* pump_io's local `direction`
    round,                  \* iterations of pump_io's loop already begun
    progressed              \* the running phase's `progressed`

queueVars == <<outbound, write_offset, pending_reply_range>>
readVars == <<read_buffer, read_offset>>
lifeVars == <<pty, phase, exit_status>>
flagVars == <<read_would_block, write_would_block>>
pumpVars == <<pc, budget, dir, round, progressed>>
sessionVars == <<lifeVars, readVars, queueVars, direction, flagVars, counters, pumpVars>>
vars == <<sessionVars, kernelVars>>

Counters == [pty_bytes_read : Nat, terminal_bytes_processed : Nat,
             terminal_reply_bytes_generated : Nat, input_bytes_enqueued : Nat,
             input_bytes_written : Nat, reply_bytes_written : Nat]

TypeOK ==
    /\ KernelTypeOK
    /\ pty \in {"Live", "Closing"}
    /\ phase \in Phase
    /\ exit_status \in BOOLEAN
    /\ read_buffer \in Seq(Output) /\ read_offset \in 0..Len(read_buffer)
    /\ outbound \in Seq(Byte) /\ write_offset \in 0..Len(outbound)
    /\ pending_reply_range \in ReplyRange \cup {None}
    /\ direction \in Direction
    /\ read_would_block \in BOOLEAN /\ write_would_block \in BOOLEAN
    /\ counters \in Counters
    /\ pc \in {"idle", "select", "write", "written", "decode", "read", "leave", "finish"}
    /\ budget \in Budget
    /\ dir \in Direction
    /\ round \in 0..2
    /\ progressed \in BOOLEAN

-----------------------------------------------------------------------------
(* Helpers, named as in session.rs. *)

Monus(a, b) == IF a >= b THEN a - b ELSE 0          \* saturating_sub
Least(a, b) == IF a <= b THEN a ELSE b
Greatest(a, b) == IF a >= b THEN a ELSE b

Opposite(d) == IF d = "Read" THEN "Write" ELSE "Read"

Exhausted == budget.bytes = 0 \/ budget.syscalls = 0
NoBudget == [bytes |-> 0, syscalls |-> 0]
Consume(bytes, syscalls) ==
    budget' = [bytes |-> Monus(budget.bytes, bytes),
               syscalls |-> Monus(budget.syscalls, syscalls)]

Closed == phase \in {"Closing", "Reaped"}
read_paused == pending_reply_range # None
outbound_empty == Len(outbound) = write_offset
unsent == Len(outbound) - write_offset
buffered_read_len == Len(read_buffer) - read_offset

has_direction_work(d) ==
    \/ d = "Write" /\ ~outbound_empty
    \/ /\ d = "Read" /\ ~read_paused
       /\ buffered_read_len > 0 \/ (phase = "Live" /\ pty = "Live")

readable_interest == phase = "Live" /\ ~read_paused /\ pty = "Live"
writable_interest == ~Closed /\ ~outbound_empty

(* Mutant: a queue that could be written is not work. *)
needs_pump_ForgetsQueue ==
    /\ ~Closed
    /\ \/ phase = "Live" /\ ~read_paused /\ ~read_would_block
       \/ buffered_read_len > 0 /\ ~read_paused

needs_pump ==
    /\ ~Closed
    /\ \/ ~outbound_empty /\ ~write_would_block
       \/ phase = "Live" /\ ~read_paused /\ ~read_would_block
       \/ buffered_read_len > 0 /\ ~read_paused

(* Mutant: the intersection with the range forgets where the range starts. *)
pending_reply_unsent_len_NoStart(offset) ==
    IF read_paused THEN Monus(pending_reply_range.end, offset) ELSE 0

pending_reply_unsent_len(offset) ==
    IF read_paused
    THEN Monus(pending_reply_range.end, Greatest(offset, pending_reply_range.start))
    ELSE 0

(* Mutant: the range outlives its last byte. *)
RetiredRange_Late(offset) ==
    IF read_paused /\ offset > pending_reply_range.end THEN None ELSE pending_reply_range

(* The pending range once the first `offset` bytes are written. *)
RetiredRange(offset) ==
    IF read_paused /\ offset >= pending_reply_range.end THEN None ELSE pending_reply_range

(* Mutant: compaction shifts the start of the range and not its end. *)
compact_outbound_if_needed_EndStays(offset) ==
    IF offset > 0 /\ (offset >= OutboundCompactThreshold \/ offset = Len(outbound))
    THEN /\ outbound' = SubSeq(outbound, offset + 1, Len(outbound))
         /\ write_offset' = 0
         /\ pending_reply_range' =
                LET r == RetiredRange(offset)
                IN IF r = None THEN None ELSE [r EXCEPT !.start = Monus(@, offset)]
    ELSE /\ write_offset' = offset
         /\ UNCHANGED <<outbound, pending_reply_range>>

(* Mutant: compaction forgets to reset the offset. *)
compact_outbound_if_needed_OffsetStays(offset) ==
    /\ outbound' = IF offset >= OutboundCompactThreshold
                   THEN SubSeq(outbound, offset + 1, Len(outbound)) ELSE outbound
    /\ write_offset' = Least(offset, Len(outbound'))
    /\ pending_reply_range' = RetiredRange(offset)

(* write_offset becomes `offset`, and the written prefix of outbound goes when *)
(* it is long enough or is all there is.                                      *)
compact_outbound_if_needed(offset) ==
    IF offset > 0 /\ (offset >= OutboundCompactThreshold \/ offset = Len(outbound))
    THEN /\ outbound' = SubSeq(outbound, offset + 1, Len(outbound))
         /\ write_offset' = 0
         /\ pending_reply_range' =
                LET r == RetiredRange(offset)
                IN IF r = None THEN None
                   ELSE [start |-> Monus(r.start, offset), end |-> r.end - offset]
    ELSE /\ write_offset' = offset
         /\ UNCHANGED <<outbound, pending_reply_range>>

(* What compact_read_buffer_if_needed makes of the buffer and its offset. *)
read_prefix_droppable ==
    read_offset > 0 /\ (read_offset >= ReadCompactThreshold \/ buffered_read_len = 0)
(* Mutant: the decoded prefix stays while the offset is reset. *)
compacted_buffer_Undrained == read_buffer
compacted_buffer ==
    IF read_prefix_droppable
    THEN SubSeq(read_buffer, read_offset + 1, Len(read_buffer))
    ELSE read_buffer
(* Mutant: the offset stays while the decoded prefix goes. *)
compacted_offset_Unreset == read_offset
compacted_offset == IF read_prefix_droppable THEN 0 ELSE read_offset
compact_read_buffer_if_needed ==
    read_buffer' = compacted_buffer /\ read_offset' = compacted_offset

(* Mutant: EOF forgets that the child may be reaped already. *)
note_eof_ForgetsExit == phase' = "Eof"
note_eof == phase' = IF exit_status THEN "Reaped" ELSE "Eof"

(* Mutant: discarding resets the offsets and keeps the bytes. *)
Discard_KeepsBytes == write_offset' = 0 /\ pending_reply_range' = None /\ UNCHANGED outbound
Discard == outbound' = <<>> /\ write_offset' = 0 /\ pending_reply_range' = None
-----------------------------------------------------------------------------
Init ==
    /\ KernelInit
    /\ pty = "Live" /\ phase = "Live" /\ exit_status = FALSE
    /\ read_buffer = <<>> /\ read_offset = 0
    /\ outbound = <<>> /\ write_offset = 0 /\ pending_reply_range = None
    /\ direction = "Write"
    /\ read_would_block = FALSE /\ write_would_block = FALSE
    /\ counters = [pty_bytes_read |-> 0, terminal_bytes_processed |-> 0,
                   terminal_reply_bytes_generated |-> 0, input_bytes_enqueued |-> 0,
                   input_bytes_written |-> 0, reply_bytes_written |-> 0]
    /\ pc = "idle" /\ budget = NoBudget
    /\ dir = "Write" /\ round = 0 /\ progressed = FALSE

-----------------------------------------------------------------------------
(* pump_io: the loop over the two directions. *)

(* Mutant: a pump starts with the last pump's WouldBlock flags. *)
BeginPump_KeepsFlags(b) ==
    /\ pc = "idle" /\ ~Closed
    /\ pc' = "select"
    /\ budget' = b /\ dir' = direction /\ round' = 0 /\ progressed' = FALSE
    /\ UNCHANGED <<lifeVars, readVars, queueVars, direction, flagVars, counters, kernelVars>>

(* Entry.  On a closed session the call is a no-op, which is a stutter here. *)
BeginPump(b) ==
    /\ pc = "idle" /\ ~Closed
    /\ pc' = "select"
    /\ budget' = b /\ dir' = direction /\ round' = 0 /\ progressed' = FALSE
    /\ read_would_block' = FALSE /\ write_would_block' = FALSE
    /\ UNCHANGED <<lifeVars, readVars, queueVars, direction, counters, kernelVars>>

EnterPhase(d) ==
    /\ dir' = d
    /\ round' = round + 1
    /\ progressed' = FALSE
    /\ pc' = IF d = "Write" THEN "write" ELSE "decode"

(* The head of the loop: stop, or run the direction that has work. *)
SelectDirection ==
    /\ pc = "select"
    /\ \/ /\ round = 2 \/ Exhausted
          /\ pc' = "finish"
          /\ UNCHANGED <<dir, round, progressed>>
       \/ /\ round < 2 /\ ~Exhausted
          /\ \/ has_direction_work(dir) /\ EnterPhase(dir)
             \/ /\ ~has_direction_work(dir) /\ has_direction_work(Opposite(dir))
                /\ EnterPhase(Opposite(dir))
             \/ /\ ~has_direction_work(dir) /\ ~has_direction_work(Opposite(dir))
                /\ dir' = Opposite(dir) /\ pc' = "finish"
                /\ UNCHANGED <<round, progressed>>
    /\ UNCHANGED <<lifeVars, readVars, queueVars, direction, flagVars, counters,
                   budget, kernelVars>>

(* Mutant: a phase without progress ends the pump. *)
LeavePhase_SkipsOther ==
    /\ pc = "leave"
    /\ pc' = IF progressed /\ has_direction_work(Opposite(dir)) THEN "select" ELSE "finish"
    /\ dir' = IF progressed THEN Opposite(dir) ELSE dir
    /\ UNCHANGED <<lifeVars, readVars, queueVars, direction, flagVars, counters,
                   budget, round, progressed, kernelVars>>

(* The tail of the loop, after a phase returned `progressed`.  With or without *)
(* progress the loop turns to the other direction if that has work; what       *)
(* differs is the direction remembered when it has none.                       *)
LeavePhase ==
    /\ pc = "leave"
    /\ IF has_direction_work(Opposite(dir)) THEN pc' = "select" ELSE pc' = "finish"
    /\ dir' = IF progressed \/ has_direction_work(Opposite(dir))
              THEN Opposite(dir) ELSE dir
    /\ UNCHANGED <<lifeVars, readVars, queueVars, direction, flagVars, counters,
                   budget, round, progressed, kernelVars>>

(* pump_io's locals die with the call. *)
EndPump ==
    /\ pc' = "idle" /\ budget' = NoBudget
    /\ dir' = "Write" /\ round' = 0 /\ progressed' = FALSE

FinishPump ==
    /\ pc = "finish"
    /\ direction' = dir
    /\ EndPump
    /\ UNCHANGED <<lifeVars, readVars, queueVars, flagVars, counters, kernelVars>>

(* `?` on a phase's error: pump_io returns without storing the direction. *)
FailPump == EndPump /\ UNCHANGED direction

-----------------------------------------------------------------------------
(* write_phase *)

WriteReady == pc = "write" /\ ~Exhausted /\ ~Closed /\ ~outbound_empty /\ pty = "Live"

(* write(2) took the first n unsent bytes.  The span is split into reply and  *)
(* input bytes by its overlap with the pending range, before compaction.      *)
WriteOk(n) ==
    /\ WriteReady
    /\ n \in 1..Least(budget.bytes, unsent)
    /\ slave_open => n <= WriteRoom
    /\ LET reply_written == Monus(pending_reply_unsent_len(write_offset),
                                  pending_reply_unsent_len(write_offset + n))
       IN counters' = [counters EXCEPT !.reply_bytes_written = @ + reply_written,
                                       !.input_bytes_written = @ + (n - reply_written)]
    /\ compact_outbound_if_needed(write_offset + n)
    /\ wire' = wire \o SubSeq(outbound, write_offset + 1, write_offset + n)
    /\ Consume(n, 1)
    /\ progressed' = TRUE
    /\ UNCHANGED <<lifeVars, readVars, direction, flagVars, pc, dir, round,
                   pty_output, consumed, slave_open, child>>

WriteWouldBlock ==
    /\ WriteReady
    /\ slave_open /\ WriteRoom = 0
    /\ write_would_block' = TRUE
    /\ Consume(0, 1)
    /\ pc' = "written"
    /\ UNCHANGED <<lifeVars, readVars, queueVars, direction, read_would_block,
                   counters, dir, round, progressed, kernelVars>>

(* Ok(0) or EINTR: the phase ends with nothing moved. *)
WriteNothing ==
    /\ WriteReady
    /\ Interrupts
    /\ Consume(0, 1)
    /\ pc' = "written"
    /\ UNCHANGED <<lifeVars, readVars, queueVars, direction, flagVars, counters,
                   dir, round, progressed, kernelVars>>

(* EIO: the slave is gone, so the queue is retired and EOF is noted. *)
WriteGone ==
    /\ WriteReady
    /\ WriteEio /\ ~slave_open
    /\ Discard
    /\ note_eof
    /\ Consume(0, 1)
    /\ pc' = "written"
    /\ UNCHANGED <<pty, exit_status, readVars, direction, flagVars, counters,
                   dir, round, progressed, kernelVars>>

(* Any other error leaves pump_io at once, past the range clean-up below. *)
WriteError ==
    /\ WriteReady
    /\ IoErrors
    /\ FailPump
    /\ UNCHANGED <<lifeVars, readVars, queueVars, flagVars, counters, kernelVars>>

(* Mutant: the phase ends without looking at the range again. *)
ReturnWrite_NoCleanUp ==
    /\ \/ pc = "written"
       \/ pc = "write" /\ (Exhausted \/ Closed \/ outbound_empty \/ pty # "Live")
    /\ pc' = "leave"
    /\ UNCHANGED <<lifeVars, readVars, queueVars, direction, flagVars,
                   counters, budget, dir, round, progressed, kernelVars>>

(* The end of write_phase, reached from the loop's guards or from a break. *)
ReturnWrite ==
    /\ \/ pc = "written"
       \/ pc = "write" /\ (Exhausted \/ Closed \/ outbound_empty \/ pty # "Live")
    /\ pending_reply_range' = RetiredRange(write_offset)
    /\ pc' = "leave"
    /\ UNCHANGED <<lifeVars, readVars, outbound, write_offset, direction, flagVars,
                   counters, budget, dir, round, progressed, kernelVars>>

-----------------------------------------------------------------------------
(* read_phase and decode_buffered *)

CanDecode == budget.bytes > 0 /\ ~read_paused /\ buffered_read_len > 0

(* decode_byte: a reply joins the end of the write queue in the same step, and *)
(* decoding is paused from then on.                                            *)
DecodeByte ==
    /\ pc = "decode"
    /\ CanDecode
    /\ read_offset' = read_offset + 1
    /\ Consume(1, 0)
    /\ progressed' = TRUE
    /\ LET len == read_buffer[read_offset + 1]
           replied == counters.terminal_reply_bytes_generated
           start == Len(outbound)
       IN /\ counters' = [counters EXCEPT
                            !.terminal_bytes_processed = @ + 1,
                            !.terminal_reply_bytes_generated = @ + len]
          /\ outbound' = outbound \o Fresh("reply", replied, len)
          /\ pending_reply_range' =
                IF len = 0 THEN pending_reply_range
                ELSE [start |-> start, end |-> start + len]
    /\ UNCHANGED <<lifeVars, read_buffer, write_offset, direction, flagVars,
                   pc, dir, round, kernelVars>>

(* decode_buffered stops, and compacts. *)
DecodeDone ==
    /\ pc = "decode"
    /\ ~CanDecode
    /\ compact_read_buffer_if_needed
    /\ pc' = "read"
    /\ UNCHANGED <<lifeVars, queueVars, direction, flagVars, counters, budget,
                   dir, round, progressed, kernelVars>>

ReadCap == Least(budget.bytes, Monus(ReadBufferLimit, buffered_read_len))

(* Mutant: a reply decoded in the loop does not stop it. *)
ReadReady_Unpaused ==
    /\ pc = "read"
    /\ ~Exhausted /\ phase = "Live" /\ pty = "Live"
    /\ ReadCap > 0

ReadReady ==
    /\ pc = "read"
    /\ ~Exhausted /\ ~read_paused /\ phase = "Live" /\ pty = "Live"
    /\ ReadCap > 0

(* read(2) returned n bytes; they are decoded before the next read. *)
ReadOk(n) ==
    /\ ReadReady
    /\ n \in 1..Least(ReadCap, Len(pty_output))
    /\ read_buffer' = compacted_buffer \o SubSeq(pty_output, 1, n)
    /\ read_offset' = compacted_offset
    /\ pty_output' = SubSeq(pty_output, n + 1, Len(pty_output))
    /\ counters' = [counters EXCEPT !.pty_bytes_read = @ + n]
    /\ Consume(n, 1)
    /\ progressed' = TRUE
    /\ pc' = "decode"
    /\ UNCHANGED <<lifeVars, queueVars, direction, flagVars, dir, round,
                   wire, consumed, slave_open, child>>

ReadWouldBlock ==
    /\ ReadReady
    /\ slave_open /\ pty_output = <<>>
    /\ compact_read_buffer_if_needed
    /\ read_would_block' = TRUE
    /\ Consume(0, 1)
    /\ pc' = "leave"
    /\ UNCHANGED <<lifeVars, queueVars, direction, write_would_block, counters,
                   dir, round, progressed, kernelVars>>

ReadInterrupted ==
    /\ ReadReady
    /\ Interrupts
    /\ compact_read_buffer_if_needed
    /\ Consume(0, 1)
    /\ pc' = "leave"
    /\ UNCHANGED <<lifeVars, queueVars, direction, flagVars, counters,
                   dir, round, progressed, kernelVars>>

(* Ok(0) or EIO: nothing is left to read and no slave fd is open. *)
ReadEof ==
    /\ ReadReady
    /\ ~slave_open /\ pty_output = <<>>
    /\ compact_read_buffer_if_needed
    /\ note_eof
    /\ Consume(0, 1)
    /\ pc' = "leave"
    /\ UNCHANGED <<pty, exit_status, queueVars, direction, flagVars, counters,
                   dir, round, progressed, kernelVars>>

ReadError ==
    /\ ReadReady
    /\ IoErrors
    /\ compact_read_buffer_if_needed
    /\ FailPump
    /\ UNCHANGED <<lifeVars, queueVars, flagVars, counters, kernelVars>>

ReturnRead ==
    /\ pc = "read" /\ ~ReadReady
    /\ pc' = "leave"
    /\ UNCHANGED <<lifeVars, readVars, queueVars, direction, flagVars, counters,
                   budget, dir, round, progressed, kernelVars>>

-----------------------------------------------------------------------------
(* The caller's other calls, made between pumps. *)

(* enqueue_input: `n` encoded bytes join the queue.  On a closed session the  *)
(* call fails with BrokenPipe and changes nothing.                            *)
EnqueueInput(n) ==
    /\ pc = "idle"
    /\ phase \in {"Live", "Eof"}
    /\ outbound' = outbound \o Fresh("input", counters.input_bytes_enqueued, n)
    /\ counters' = [counters EXCEPT !.input_bytes_enqueued = @ + n]
    /\ write_would_block' = FALSE
    /\ UNCHANGED <<lifeVars, readVars, write_offset, pending_reply_range, direction,
                   read_would_block, pumpVars, kernelVars>>

(* close: idempotent, and a no-op once the session is Reaped. *)
Close ==
    /\ pc = "idle" /\ ~Closed
    /\ Discard
    /\ read_buffer' = <<>> /\ read_offset' = 0
    /\ phase' = "Closing" /\ pty' = "Closing"
    /\ UNCHANGED <<exit_status, direction, flagVars, counters, pumpVars, kernelVars>>

(* try_wait, when it finds the child exited and its status not cached yet:    *)
(* with the master open the phase only moves after EOF (note_exit), with the  *)
(* master closed it moves at once.                                            *)
TryWait ==
    /\ pc = "idle"
    /\ ~exit_status /\ child = "zombie"
    /\ child' = "reaped"
    /\ exit_status' = TRUE
    /\ phase' = IF pty = "Closing" \/ phase = "Eof" THEN "Reaped" ELSE phase
    /\ UNCHANGED <<pty, readVars, queueVars, direction, flagVars, counters, pumpVars,
                   pty_output, wire, consumed, slave_open>>

-----------------------------------------------------------------------------
(* The bounds on a behaviour. *)
InputBound(n) == counters.input_bytes_enqueued + n <= MaxInput
OutputBound == counters.pty_bytes_read + Len(pty_output) < MaxOutput

PumpStep ==
    \/ SelectDirection \/ LeavePhase \/ FinishPump
    \/ \E n \in 1..Least(budget.bytes, unsent) : WriteOk(n)
    \/ WriteWouldBlock \/ WriteNothing \/ WriteGone \/ WriteError \/ ReturnWrite
    \/ DecodeByte \/ DecodeDone
    \/ \E n \in 1..Least(budget.bytes, Len(pty_output)) : ReadOk(n)
    \/ ReadWouldBlock \/ ReadInterrupted \/ ReadEof \/ ReadError \/ ReturnRead

CallerStep ==
    \/ \E b \in Budgets : BeginPump(b)
    \/ \E n \in InputLens : InputBound(n) /\ EnqueueInput(n)
    \/ Close
    \/ TryWait

KernelStep ==
    /\ \/ pty = "Live" /\ OutputBound /\ \E byte \in Output : ChildWrite(byte)
       \/ pty = "Live" /\ ChildRead
       \/ ChildExit
       \/ SlaveClose
    /\ UNCHANGED sessionVars

Next == PumpStep \/ CallerStep \/ KernelStep

Spec == Init /\ [][Next]_vars

-----------------------------------------------------------------------------
(* Properties.  WrittenFrom and Accepted count bytes by source. *)

(* The pending range names exactly the reply bytes that are still unsent, at  *)
(* every partial write, compaction and error return: a range that drifts from *)
(* its bytes by one would resume decoding early or never.                     *)
ReplyRangeExact ==
    /\ read_paused => /\ pending_reply_range.start < pending_reply_range.end
                      /\ pending_reply_range.end <= Len(outbound)
    /\ \A i \in write_offset + 1 .. Len(outbound) :
          outbound[i].src = "reply" <=>
              /\ read_paused
              /\ pending_reply_range.start < i
              /\ i <= pending_reply_range.end

(* While decoding is paused there is something to write.  If the queue ran    *)
(* empty with the pause still on, no pump would ever find work again.         *)
PausedHasWork == read_paused => ~outbound_empty

(* What a pump can rely on however the last one ended.                         *)
ReplyRangeSound == ReplyRangeExact /\ PausedHasWork

(* Between pumps, a pause is due to a reply that is really not out yet.       *)
PauseEndsWithReply ==
    pc = "idle" /\ read_paused => write_offset < pending_reply_range.end

(* input_bytes_written and reply_bytes_written account for every byte written *)
(* to the PTY, each under its own source.                                     *)
WrittenFrom(src) == Cardinality({i \in 1..Len(wire) : wire[i].src = src})
CountersMatchWire ==
    /\ counters.input_bytes_written = WrittenFrom("input")
    /\ counters.reply_bytes_written = WrittenFrom("reply")

(* Every byte read is decoded or still in the buffer, until close discards it. *)
ReadBytesAccounted ==
    pty = "Live" =>
        counters.pty_bytes_read = counters.terminal_bytes_processed + buffered_read_len

(* The counters account for every byte that crossed the PTY, either way.      *)
BytesAccounted == CountersMatchWire /\ ReadBytesAccounted

(* Nothing accepted is lost, repeated or reordered within its source, as long *)
(* as nothing has discarded the queue.                                        *)
Accepted(src) == IF src = "input" THEN counters.input_bytes_enqueued
                 ELSE counters.terminal_reply_bytes_generated
(* The bytes of a source are numbered 1 to count, in that order.               *)
InOrder(bytes, src, count) ==
    LET places == {i \in 1..Len(bytes) : bytes[i].src = src}
    IN /\ {bytes[i].seq : i \in places} = 1..count
       /\ \A i, j \in places : i < j => bytes[i].seq < bytes[j].seq
AllBytes == wire \o SubSeq(outbound, write_offset + 1, Len(outbound))
NothingLost ==
    pty = "Live" /\ ~WriteEio =>
        \A src \in {"input", "reply"} : InOrder(AllBytes, src, Accepted(src))

(* SessionStatus::Eof: the output is drained when EOF is reported, and when    *)
(* the session is over without a close.                                       *)
EofDrained ==
    phase = "Eof" \/ (phase = "Reaped" /\ pty = "Live") =>
        pty_output = <<>> /\ buffered_read_len = 0

(* Neither direction drops a byte while the session is open.                   *)
TrafficKept == NothingLost /\ EofDrained

(* The write queue is the FIFO of WriteQueue, and status() its SessionStatus.  *)
Fifo == INSTANCE WriteQueue WITH
            Source <- {"input", "reply"},
            queue <- SubSeq(outbound, write_offset + 1, Len(outbound)),
            sent <- wire, open <- (pty = "Live"), peer <- slave_open
Status == INSTANCE SessionStatus WITH status <- phase, exited <- exit_status

WriteQueueIsFifo == Fifo!Spec
StatusFollowsLifecycle == Status!Spec

(* SessionStatus::Closing: closed and awaiting reap.                          *)
ClosingAwaitsReap == phase = "Closing" => ~exit_status
=============================================================================
