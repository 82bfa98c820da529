--------------------------- MODULE EventLoopProofs ---------------------------
(* The documented poll loop never sleeps through work, for every capacity,    *)
(* threshold, budget, input and reply length, and whichever errors and        *)
(* interrupts the kernel answers with.                                        *)
EXTENDS EventLoop, SessionProofs

(* Where the loop is tells where the pump is. *)
LoopOK ==
    /\ loop \in {"pump", "drain", "poll"}
    /\ read_edge \in BOOLEAN /\ write_edge \in BOOLEAN
    /\ loop # "drain" => pc = "idle"

(* A read that would block leaves an empty queue and an open slave, so what   *)
(* changes either of them later raises the edge; only Wake takes it, and the  *)
(* pump that follows reads again.  The same for writes and a full queue.      *)
EdgesKept ==
    loop # "pump" =>
        /\ read_would_block /\ (pty_output # <<>> \/ ~slave_open) => read_edge
        /\ write_would_block /\ (WriteRoom > 0 \/ ~slave_open) => write_edge

(* While somebody may read it, the kernel holds no more than it has room for. *)
RoomLeft == slave_open => WriteRoom >= 0

(* A blocked loop has nothing to do before an edge. *)
BlockedIdle == loop = "poll" => ~needs_pump

WakeInv == TypeOK /\ LoopOK /\ EdgesKept /\ RoomLeft /\ BlockedIdle

(* The loop only adds when the session's calls are made. *)
LEMMA LoopStepIsSessionStep == [LoopNext]_allVars => [Next]_vars
BY DEF LoopNext, PumpOnce, PumpAgain, Block, Wake, CallerActs, CallerReaps, PumpRuns,
       KernelMoves, Next, CallerStep, allVars

(* Whatever the caller's loop does, it runs a session: every theorem about    *)
(* Spec holds of LoopSpec too.                                                *)
THEOREM LoopRunsSession == LoopSpec => Spec
BY LoopStepIsSessionStep, PTL DEF LoopSpec, LoopInit, Spec

LEMMA WakeInit == LoopInit => WakeInv
<1>1. LoopInit => TypeOK
  BY InitTyped DEF LoopInit
<1>2. LoopInit => WriteRoom >= 0
  BY KernelAssumption, EmptySeq DEF LoopInit, Init, KernelInit, WriteRoom
<1> QED
  BY <1>1, <1>2 DEF LoopInit, Init, WakeInv, LoopOK, EdgesKept, RoomLeft, BlockedIdle

(* Numbers the kernel's room is made of. *)
LEMMA RoomIsInt == TypeOK => /\ Len(wire) \in Nat /\ consumed \in Nat /\ InCapacity \in Nat
                             /\ WriteRoom \in Int
BY LenProperties, KernelAssumption DEF TypeOK, KernelTypeOK, WriteRoom

(* A write that the kernel takes leaves it less room, and an open slave no    *)
(* less than none.                                                            *)
LEMMA WriteTakesRoom ==
    ASSUME TypeOK, NEW n \in 1..Least(budget.bytes, unsent), WriteOk(n)
    PROVE  /\ WriteRoom' \in Int /\ WriteRoom \in Int /\ WriteRoom' < WriteRoom
           /\ slave_open => WriteRoom' >= 0
<1> DEFINE taken == SubSeq(outbound, write_offset + 1, write_offset + n)
<1>1. n \in Nat /\ n >= 1 /\ write_offset + n \in write_offset .. Len(outbound)
  BY UnsentNat DEF Least, unsent
<1>2. taken \in Seq(Byte) /\ Len(taken) = n
  <2>1. outbound \in Seq(Byte) /\ write_offset \in 0 .. Len(outbound)
    BY DEF TypeOK
  <2>2. Len(taken) = (write_offset + n) - write_offset /\ taken \in Seq(Byte)
    BY <1>1, <2>1, Prefix
  <2> QED
    BY <1>1, <2>1, <2>2, UnsentNat
<1>3. wire' = wire \o taken /\ consumed' = consumed /\ (slave_open => n <= WriteRoom)
  BY DEF WriteOk
<1> HIDE DEF taken
<1>4. Len(wire') = Len(wire) + n
  <2>1. wire \in Seq(Byte)
    BY DEF TypeOK, KernelTypeOK
  <2> QED
    BY <1>2, <1>3, <2>1, ConcatProperties
<1> QED
  BY <1>1, <1>3, <1>4, RoomIsInt DEF WriteRoom

(* The steps of a pump. *)
LEMMA PumpRunsWake == WakeInv /\ TypeOK' /\ PumpRuns => WakeInv'
<1> SUFFICES ASSUME WakeInv, TypeOK', PumpRuns PROVE LoopOK' /\ EdgesKept' /\ RoomLeft' /\ BlockedIdle'
  BY DEF WakeInv
<1> USE DEF PumpRuns, loopVars
<1>1. loop = "drain" /\ UNCHANGED <<loop, read_edge, write_edge>>
  <2>1. pc # "idle"
    BY DEF PumpStep, SelectDirection, LeavePhase, FinishPump, WriteReady,
         WriteOk, WriteWouldBlock, WriteNothing, WriteGone, WriteError, ReturnWrite, DecodeByte,
         DecodeDone, ReadReady, ReadOk, ReadWouldBlock, ReadInterrupted, ReadEof, ReadError,
         ReturnRead
  <2> QED
    BY <2>1 DEF WakeInv, LoopOK
<1>2. ASSUME NEW n \in 1..Least(budget.bytes, unsent), WriteOk(n)
      PROVE  EdgesKept' /\ RoomLeft'
  <2>1. /\ WriteRoom' \in Int /\ WriteRoom \in Int /\ WriteRoom' < WriteRoom
        /\ slave_open => WriteRoom' >= 0
    BY <1>2, WriteTakesRoom DEF WakeInv
  <2>2. UNCHANGED <<read_would_block, write_would_block, pty_output, slave_open>>
    BY <1>2 DEF WriteOk, flagVars
  <2> QED
    BY <1>1, <2>1, <2>2 DEF WakeInv, EdgesKept, RoomLeft
<1>3. ASSUME WriteWouldBlock PROVE EdgesKept' /\ RoomLeft'
  <2>1. UNCHANGED <<read_would_block, pty_output, slave_open>> /\ WriteRoom' = WriteRoom
    BY <1>3 DEF WriteWouldBlock, kernelVars, WriteRoom
  <2>2. slave_open /\ WriteRoom = 0
    BY <1>3 DEF WriteWouldBlock
  <2>3. ~(WriteRoom' > 0 \/ ~slave_open') /\ RoomLeft'
    BY <2>1, <2>2 DEF RoomLeft
  <2> QED
    BY <1>1, <2>1, <2>3 DEF WakeInv, EdgesKept
<1>4. ASSUME ReadWouldBlock PROVE EdgesKept' /\ RoomLeft'
  <2>1. UNCHANGED <<write_would_block, pty_output, slave_open>> /\ WriteRoom' = WriteRoom
    BY <1>4 DEF ReadWouldBlock, kernelVars, WriteRoom
  <2>2. slave_open /\ pty_output = <<>>
    BY <1>4 DEF ReadWouldBlock
  <2>3. ~(pty_output' # <<>> \/ ~slave_open') /\ RoomLeft'
    BY <2>1, <2>2 DEF WakeInv, RoomLeft
  <2> QED
    BY <1>1, <2>1, <2>3 DEF WakeInv, EdgesKept
<1>5. ASSUME NEW n \in 1..Least(budget.bytes, Len(pty_output)), ReadOk(n)
      PROVE  EdgesKept' /\ RoomLeft'
  <2>1. pty_output # <<>>
    <3>1. Len(pty_output) >= 1
      BY <1>5, UnsentNat DEF Least, WakeInv
    <3> QED
      BY <3>1, EmptySeq
  <2>2. UNCHANGED <<read_would_block, write_would_block, wire, consumed, slave_open>>
    BY <1>5 DEF ReadOk, flagVars
  <2> QED
    BY <1>1, <2>1, <2>2 DEF WakeInv, EdgesKept, RoomLeft, WriteRoom
<1>6. ASSUME UNCHANGED <<flagVars, kernelVars>>
      PROVE  EdgesKept' /\ RoomLeft'
  BY <1>1, <1>6 DEF WakeInv, EdgesKept, RoomLeft, WriteRoom, kernelVars, flagVars
<1>7. EdgesKept' /\ RoomLeft'
  BY <1>2, <1>3, <1>4, <1>5, <1>6
  DEF PumpStep, SelectDirection, LeavePhase, FinishPump,
      WriteNothing, WriteGone, WriteError, ReturnWrite, DecodeByte,
      DecodeDone, ReadInterrupted, ReadEof, ReadError, ReturnRead
<1> QED
  BY <1>1, <1>7 DEF WakeInv, LoopOK, BlockedIdle

(* The caller's steps: a round starts with a pump that looks again, and the   *)
(* loop only blocks after one that found nothing more to do.                  *)
LEMMA CallerWake ==
    WakeInv /\ (PumpOnce \/ PumpAgain \/ Block \/ Wake \/ CallerActs \/ CallerReaps) => WakeInv'
<1> SUFFICES ASSUME WakeInv, PumpOnce \/ PumpAgain \/ Block \/ Wake \/ CallerActs \/ CallerReaps
             PROVE  WakeInv'
  OBVIOUS
<1>1. TypeOK'
  BY TypingStep, LoopStepIsSessionStep DEF WakeInv, LoopNext
<1>2. LoopOK' /\ UNCHANGED <<pty_output, wire, consumed, slave_open>>
  BY DEF WakeInv, LoopOK, PumpOnce, PumpAgain, Block, Wake, CallerActs, CallerReaps, BeginPump,
       EnqueueInput, Close, TryWait, vars, sessionVars, pumpVars, kernelVars, loopVars
<1>3. RoomLeft'
  BY <1>2 DEF WakeInv, RoomLeft, WriteRoom
<1>4. EdgesKept'
  <2>1. CASE PumpOnce \/ PumpAgain
    BY <2>1 DEF PumpOnce, PumpAgain, BeginPump, EdgesKept
  <2>2. CASE Block
    BY <1>2, <2>2 DEF Block, WakeInv, EdgesKept, vars, sessionVars, flagVars, WriteRoom
  <2>3. CASE Wake \/ CallerActs \/ CallerReaps
    BY <2>3 DEF Wake, CallerActs, CallerReaps, EdgesKept
  <2> QED
    BY <2>1, <2>2, <2>3
<1>5. BlockedIdle'
  <2>1. CASE Block
    BY <2>1 DEF Block, BlockedIdle, needs_pump, Closed, outbound_empty, read_paused,
         buffered_read_len, vars, sessionVars, lifeVars, readVars, queueVars, flagVars
  <2>2. CASE ~Block
    BY <2>2 DEF BlockedIdle, WakeInv, LoopOK, PumpOnce, PumpAgain, Wake, CallerActs, CallerReaps,
         loopVars
  <2> QED
    BY <2>1, <2>2
<1> QED
  BY <1>1, <1>2, <1>3, <1>4, <1>5 DEF WakeInv

(* The kernel's steps raise the edges. *)
LEMMA KernelWake == WakeInv /\ KernelMoves => WakeInv'
<1> SUFFICES ASSUME WakeInv, KernelMoves PROVE WakeInv'
  OBVIOUS
<1>1. TypeOK'
  BY TypingStep, LoopStepIsSessionStep DEF WakeInv, LoopNext
<1>2. LoopOK' /\ BlockedIdle'
  BY DEF KernelMoves, KernelStep, WakeInv, LoopOK, BlockedIdle, needs_pump, Closed, outbound_empty,
       read_paused, buffered_read_len, sessionVars, lifeVars, readVars, queueVars, flagVars, pumpVars
<1>3. /\ UNCHANGED <<loop, read_would_block, write_would_block, wire>>
      /\ read_edge' = (\/ read_edge
                       \/ pty_output = <<>> /\ pty_output' # <<>>
                       \/ slave_open /\ ~slave_open')
      /\ write_edge' = (\/ write_edge
                        \/ WriteRoom = 0 /\ consumed' > consumed
                        \/ slave_open /\ ~slave_open')
  BY DEF KernelMoves, KernelStep, sessionVars, flagVars, ChildWrite, ChildRead, ChildExit, SlaveClose
<1>4. \/ consumed' = consumed
      \/ slave_open /\ consumed' = consumed + 1
  BY DEF KernelMoves, KernelStep, ChildWrite, ChildRead, ChildExit, SlaveClose
<1>5. slave_open' => slave_open
  BY DEF KernelMoves, KernelStep, ChildWrite, ChildRead, ChildExit, SlaveClose
<1>6. RoomLeft'
  BY <1>3, <1>4, <1>5, RoomIsInt DEF WakeInv, RoomLeft, WriteRoom
<1>7. ASSUME loop # "pump", read_would_block, pty_output' # <<>> \/ ~slave_open'
      PROVE  read_edge'
  BY <1>3, <1>7 DEF WakeInv, EdgesKept
<1>8. ASSUME loop # "pump", write_would_block, WriteRoom' > 0 \/ ~slave_open'
      PROVE  write_edge'
  <2>1. CASE consumed' = consumed
    <3>1. WriteRoom' = WriteRoom
      BY <1>3, <2>1 DEF WriteRoom
    <3> QED
      BY <1>3, <1>8, <3>1 DEF WakeInv, EdgesKept
  <2>2. CASE slave_open /\ consumed' = consumed + 1
    <3>1. consumed' > consumed /\ (WriteRoom = 0 \/ WriteRoom > 0)
      BY <2>2, RoomIsInt DEF WakeInv, RoomLeft
    <3> QED
      BY <1>3, <1>8, <3>1 DEF WakeInv, EdgesKept
  <2> QED
    BY <1>4, <2>1, <2>2
<1>9. EdgesKept'
  BY <1>3, <1>7, <1>8 DEF EdgesKept
<1> QED
  BY <1>1, <1>2, <1>6, <1>9 DEF WakeInv

LEMMA WakeStep == WakeInv /\ [LoopNext]_allVars => WakeInv'
<1> SUFFICES ASSUME WakeInv, [LoopNext]_allVars PROVE WakeInv'
  OBVIOUS
<1>1. TypeOK'
  BY TypingStep, LoopStepIsSessionStep DEF WakeInv
<1>2. CASE UNCHANGED allVars
  BY <1>1, <1>2 DEF allVars, vars, sessionVars, lifeVars, readVars, queueVars, flagVars, pumpVars,
     loopVars, kernelVars, WakeInv, LoopOK, EdgesKept, RoomLeft, BlockedIdle, needs_pump, Closed,
     outbound_empty, read_paused, buffered_read_len, WriteRoom
<1> QED
  BY <1>1, <1>2, PumpRunsWake, CallerWake, KernelWake DEF LoopNext

(* While the loop is blocked, whatever the kernel could do for an interest it *)
(* registered has an edge still to deliver, and no work that needs no edge is *)
(* left behind: needs_pump() and interests() fit together.                    *)
THEOREM NoWakeupIsLost == LoopSpec => []NoLostWakeup
<1>1. WakeInv => NoLostWakeup
  <2> SUFFICES ASSUME WakeInv, loop = "poll" PROVE
          /\ ~needs_pump
          /\ readable_interest /\ (pty_output # <<>> \/ ~slave_open) => read_edge
          /\ writable_interest /\ (WriteRoom > 0 \/ ~slave_open) => write_edge
    BY DEF NoLostWakeup
  <2>1. ~needs_pump
    BY DEF WakeInv, BlockedIdle
  <2>2. readable_interest => read_would_block
    BY <2>1 DEF needs_pump, readable_interest, Closed
  <2>3. writable_interest => write_would_block
    BY <2>1 DEF needs_pump, writable_interest
  <2> QED
    BY <2>1, <2>2, <2>3 DEF WakeInv, EdgesKept
<1> QED
  BY <1>1, WakeInit, WakeStep, PTL DEF LoopSpec
=============================================================================
