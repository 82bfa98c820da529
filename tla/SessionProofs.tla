---------------------------- MODULE SessionProofs ----------------------------
(* Theorems about Session, for every capacity, threshold, budget, input and   *)
(* reply length.                                                              *)
EXTENDS Session, SequenceTheorems, FiniteSetTheorems, TLAPS

Source == {"input", "reply"}

(* Fresh bytes are a sequence of the asked length, all of one source. *)
LEMMA FreshBytes ==
    ASSUME NEW src \in Source, NEW from \in Nat, NEW count \in Nat
    PROVE  /\ Fresh(src, from, count) \in Seq(Byte)
           /\ Len(Fresh(src, from, count)) = count
           /\ \A i \in 1..count : Fresh(src, from, count)[i].src = src
<1> DEFINE f == Fresh(src, from, count)
<1>1. f \in [1..count -> Byte]
  BY DEF Fresh, Byte, Source
<1>2. f \in Seq(Byte)
  BY <1>1, SeqDef
<1>3. Len(f) = count
  BY <1>1, <1>2, LenProperties
<1> QED
  BY <1>2, <1>3 DEF Fresh

(* What is left of a sequence after its first k elements. *)
LEMMA Suffix ==
    ASSUME NEW S, NEW s \in Seq(S), NEW k \in 0..Len(s)
    PROVE  /\ SubSeq(s, k + 1, Len(s)) \in Seq(S)
           /\ Len(SubSeq(s, k + 1, Len(s))) = Len(s) - k
           /\ \A i \in 1..Len(s) - k : SubSeq(s, k + 1, Len(s))[i] = s[k + i]
<1>1. Len(s) \in Nat
  BY LenProperties
<1>2. \A i \in k + 1 .. Len(s) : s[i] \in S
  BY ElementOfSeq, <1>1
<1> QED
  BY <1>1, <1>2, SubSeqProperties

(* And its first k elements. *)
LEMMA Prefix ==
    ASSUME NEW S, NEW s \in Seq(S), NEW j \in 0..Len(s), NEW k \in j..Len(s)
    PROVE  /\ SubSeq(s, j + 1, k) \in Seq(S)
           /\ Len(SubSeq(s, j + 1, k)) = k - j
<1>1. Len(s) \in Nat
  BY LenProperties
<1>2. \A i \in j + 1 .. k : s[i] \in S
  BY ElementOfSeq, <1>1
<1> QED
  BY <1>1, <1>2, SubSeqProperties

-----------------------------------------------------------------------------
(* What compaction does to the queue when the offset reaches `offset`, in     *)
(* either branch: the unsent bytes stay the ones behind the offset.           *)
LEMMA Compaction ==
    ASSUME TypeOK, NEW offset \in 0..Len(outbound), compact_outbound_if_needed(offset)
    PROVE  /\ outbound' \in Seq(Byte)
           /\ write_offset' \in 0..Len(outbound')
           /\ Len(outbound') - write_offset' = Len(outbound) - offset
           /\ \A i \in 1..Len(outbound) - offset :
                 outbound'[write_offset' + i] = outbound[offset + i]
           /\ pending_reply_range' \in ReplyRange \cup {None}
<1> DEFINE drop == offset > 0 /\ (offset >= OutboundCompactThreshold \/ offset = Len(outbound))
<1>1. outbound \in Seq(Byte) /\ Len(outbound) \in Nat
      /\ pending_reply_range \in ReplyRange \cup {None}
  BY LenProperties DEF TypeOK
<1>2. CASE drop
  <2>1. outbound' = SubSeq(outbound, offset + 1, Len(outbound)) /\ write_offset' = 0
    BY <1>2 DEF compact_outbound_if_needed
  <2>2. /\ outbound' \in Seq(Byte) /\ Len(outbound') = Len(outbound) - offset
        /\ \A i \in 1..Len(outbound) - offset : outbound'[i] = outbound[offset + i]
    BY <1>1, <2>1, Suffix
  <2>3. pending_reply_range' \in ReplyRange \cup {None}
    BY <1>1, <1>2 DEF compact_outbound_if_needed, RetiredRange, read_paused, ReplyRange, Monus
  <2> QED
    BY <1>1, <2>1, <2>2, <2>3
<1>3. CASE ~drop
  BY <1>1, <1>3 DEF compact_outbound_if_needed
<1> QED
  BY <1>2, <1>3

LEMMA ConsumeTyped ==
    ASSUME budget \in Budget, NEW b \in Nat, NEW s \in Nat, Consume(b, s)
    PROVE  budget' \in Budget
BY DEF Consume, Budget, Monus

LEMMA NoBudgetTyped == NoBudget \in Budget
BY DEF NoBudget, Budget

LEMMA EndPumpTyped ==
    ASSUME EndPump
    PROVE  /\ budget' \in Budget /\ dir' \in Direction /\ round' \in 0..2
           /\ progressed' \in BOOLEAN
           /\ pc' \in {"idle", "select", "write", "written", "decode", "read", "leave", "finish"}
<1>1. budget' \in Budget
  BY NoBudgetTyped DEF EndPump
<1>2. round' \in 0..2
  BY DEF EndPump
<1>3. dir' \in Direction
  BY DEF EndPump, Direction
<1>4. progressed' \in BOOLEAN
  BY DEF EndPump
<1>5. pc' \in {"idle", "select", "write", "written", "decode", "read", "leave", "finish"}
  BY DEF EndPump
<1> QED
  BY <1>1, <1>2, <1>3, <1>4, <1>5

LEMMA OutputIsNat == Output \subseteq Nat
BY KernelAssumption DEF Output

LEMMA UnsentNat ==
    ASSUME TypeOK
    PROVE  /\ Len(outbound) \in Nat /\ write_offset \in Nat /\ unsent \in Nat
           /\ Len(read_buffer) \in Nat /\ read_offset \in Nat
           /\ buffered_read_len \in Nat
           /\ Len(pty_output) \in Nat /\ budget.bytes \in Nat /\ budget.syscalls \in Nat
BY LenProperties DEF TypeOK, KernelTypeOK, unsent, buffered_read_len, Budget

(* The byte decode_byte takes is in the buffer. *)
LEMMA DecodedLen ==
    ASSUME TypeOK, CanDecode
    PROVE  /\ read_offset + 1 \in 1..Len(read_buffer)
           /\ read_buffer[read_offset + 1] \in Nat
           /\ counters.terminal_reply_bytes_generated \in Nat
<1>1. read_offset + 1 \in 1..Len(read_buffer)
  BY UnsentNat DEF CanDecode, buffered_read_len
<1>2. read_buffer \in Seq(Output) /\ counters \in Counters
  BY DEF TypeOK
<1>3. read_buffer[read_offset + 1] \in Output
  BY <1>1, <1>2, ElementOfSeq
<1>4. read_buffer[read_offset + 1] \in Nat
  BY <1>3, OutputIsNat
<1>5. counters.terminal_reply_bytes_generated \in Nat
  BY <1>2 DEF Counters
<1> QED
  BY <1>1, <1>4, <1>5

LEMMA CompactedReadBuffer ==
    ASSUME TypeOK
    PROVE  /\ compacted_buffer \in Seq(Output)
           /\ compacted_offset \in 0..Len(compacted_buffer)
           /\ Len(compacted_buffer) - compacted_offset = buffered_read_len
<1>1. read_buffer \in Seq(Output) /\ read_offset \in 0..Len(read_buffer) /\ Len(read_buffer) \in Nat
  BY LenProperties DEF TypeOK
<1>2. CASE read_prefix_droppable
  BY <1>1, <1>2, Suffix DEF compacted_buffer, compacted_offset, buffered_read_len
<1>3. CASE ~read_prefix_droppable
  BY <1>1, <1>3 DEF compacted_buffer, compacted_offset, buffered_read_len
<1> QED
  BY <1>2, <1>3

-----------------------------------------------------------------------------
(* Type correctness. *)
LEMMA InitTyped == Init => TypeOK
<1> SUFFICES ASSUME Init PROVE TypeOK
  OBVIOUS
<1>1. KernelTypeOK
  BY EmptySeq DEF Init, KernelInit, KernelTypeOK
<1>2. /\ read_buffer \in Seq(Output) /\ read_offset \in 0..Len(read_buffer)
      /\ outbound \in Seq(Byte) /\ write_offset \in 0..Len(outbound)
  BY EmptySeq DEF Init
<1>3. counters \in Counters
  BY DEF Init, Counters
<1>4. budget \in Budget
  BY NoBudgetTyped DEF Init
<1>5. /\ phase \in Phase /\ direction \in Direction /\ dir \in Direction
      /\ pending_reply_range \in ReplyRange \cup {None}
  BY DEF Init, Phase, Direction
<1>6. /\ pty \in {"Live", "Closing"} /\ exit_status \in BOOLEAN
      /\ read_would_block \in BOOLEAN /\ write_would_block \in BOOLEAN
  BY DEF Init
<1>7. pc \in {"idle", "select", "write", "written", "decode", "read", "leave", "finish"}
  BY DEF Init
<1>8. round \in 0..2
  BY DEF Init
<1>9. progressed \in BOOLEAN
  BY DEF Init
<1> QED
  BY <1>1, <1>2, <1>3, <1>4, <1>5, <1>6, <1>7, <1>8, <1>9 DEF TypeOK

LEMMA PumpStepTyped == TypeOK /\ PumpStep => TypeOK'
<1> SUFFICES ASSUME TypeOK, PumpStep PROVE TypeOK'
  OBVIOUS
<1> USE DEF pumpVars, lifeVars, readVars, queueVars, flagVars, kernelVars
<1>1. CASE SelectDirection
  <2>1. dir' \in Direction /\ round' \in 0..2
    BY <1>1 DEF SelectDirection, EnterPhase, TypeOK, Direction, Opposite
  <2>2. /\ pc' \in {"idle", "select", "write", "written", "decode", "read", "leave", "finish"}
        /\ progressed' \in BOOLEAN
    BY <1>1 DEF SelectDirection, EnterPhase, TypeOK
  <2> QED
    BY <1>1, <2>1, <2>2 DEF SelectDirection, TypeOK, KernelTypeOK
<1>2. CASE LeavePhase
  BY <1>2 DEF LeavePhase, TypeOK, KernelTypeOK, Direction, Opposite
<1>3. CASE FinishPump
  BY <1>3, EndPumpTyped DEF FinishPump, TypeOK, KernelTypeOK
<1>4. ASSUME NEW n \in 1..Least(budget.bytes, unsent), WriteOk(n)
      PROVE  TypeOK'
  <2>1. n \in Nat \ {0} /\ n <= unsent /\ write_offset + n \in 0..Len(outbound)
        /\ write_offset \in 0..Len(outbound) /\ Len(outbound) \in Nat
    BY <1>4, UnsentNat DEF Least, unsent
  <2>2. /\ outbound' \in Seq(Byte) /\ write_offset' \in 0..Len(outbound')
        /\ pending_reply_range' \in ReplyRange \cup {None}
    BY <1>4, <2>1, Compaction DEF WriteOk
  <2>3. wire' \in Seq(Byte)
    <3>1. SubSeq(outbound, write_offset + 1, write_offset + n) \in Seq(Byte)
      BY <2>1, Prefix DEF TypeOK
    <3> QED
      BY <1>4, <3>1, ConcatProperties DEF WriteOk, TypeOK, KernelTypeOK
  <2>4. counters' \in Counters
    <3> DEFINE r == Monus(pending_reply_unsent_len(write_offset),
                          pending_reply_unsent_len(write_offset + n))
    <3>1. r \in 0..n
      BY <2>1 DEF TypeOK, Monus, pending_reply_unsent_len, Greatest, ReplyRange, read_paused
    <3>2. counters' = [counters EXCEPT !.reply_bytes_written = @ + r,
                                       !.input_bytes_written = @ + (n - r)]
      BY <1>4 DEF WriteOk
    <3> HIDE DEF r
    <3>3. counters \in Counters
      BY DEF TypeOK
    <3>4. counters.reply_bytes_written + r \in Nat /\ counters.input_bytes_written + (n - r) \in Nat
      BY <2>1, <3>1, <3>3 DEF Counters
    <3> QED
      BY <3>2, <3>3, <3>4 DEF Counters
  <2>5. budget' \in Budget
    BY <1>4, <2>1, ConsumeTyped DEF WriteOk, TypeOK
  <2> QED
    BY <1>4, <2>2, <2>3, <2>4, <2>5 DEF WriteOk, TypeOK, KernelTypeOK
<1>5. CASE WriteWouldBlock
  BY <1>5, ConsumeTyped DEF WriteWouldBlock, TypeOK, KernelTypeOK
<1>6. CASE WriteNothing
  BY <1>6, ConsumeTyped DEF WriteNothing, TypeOK, KernelTypeOK
<1>7. CASE WriteGone
  BY <1>7, ConsumeTyped, EmptySeq DEF WriteGone, Discard, note_eof, Phase, TypeOK, KernelTypeOK
<1>8. CASE WriteError
  BY <1>8, EndPumpTyped DEF WriteError, FailPump, TypeOK, KernelTypeOK
<1>9. CASE ReturnWrite
  BY <1>9 DEF ReturnWrite, RetiredRange, TypeOK, KernelTypeOK
<1>10. CASE DecodeByte
  <2> DEFINE len == read_buffer[read_offset + 1]
             fresh == Fresh("reply", counters.terminal_reply_bytes_generated, len)
  <2>1. read_offset + 1 \in 1..Len(read_buffer)
    BY <1>10, DecodedLen DEF DecodeByte
  <2>2. len \in Nat /\ counters.terminal_reply_bytes_generated \in Nat
    BY <1>10, DecodedLen DEF DecodeByte
  <2>3. fresh \in Seq(Byte) /\ Len(fresh) = len
    <3> HIDE DEF len
    <3> QED
      BY <2>2, FreshBytes DEF Source
  <2>4. outbound' \in Seq(Byte) /\ Len(outbound') = Len(outbound) + len
    BY <1>10, <2>3, ConcatProperties DEF DecodeByte, TypeOK
  <2>5. pending_reply_range' \in ReplyRange \cup {None}
    BY <1>10, <2>2, UnsentNat DEF DecodeByte, TypeOK, ReplyRange
  <2>6. counters' \in Counters
    <3>1. counters \in Counters
      BY DEF TypeOK
    <3>2. counters' = [counters EXCEPT !.terminal_bytes_processed = @ + 1,
                                       !.terminal_reply_bytes_generated = @ + len]
      BY <1>10 DEF DecodeByte
    <3> HIDE DEF len
    <3>3. /\ counters.terminal_bytes_processed + 1 \in Nat
          /\ counters.terminal_reply_bytes_generated + len \in Nat
      BY <2>2, <3>1 DEF Counters
    <3> QED
      BY <3>1, <3>2, <3>3 DEF Counters
  <2>7. budget' \in Budget
    BY <1>10, ConsumeTyped DEF DecodeByte, TypeOK
  <2>8. write_offset' \in 0..Len(outbound') /\ read_offset' \in 0..Len(read_buffer')
    BY <1>10, <2>1, <2>2, <2>4, UnsentNat DEF DecodeByte, TypeOK
  <2> QED
    BY <1>10, <2>4, <2>5, <2>6, <2>7, <2>8 DEF DecodeByte, TypeOK, KernelTypeOK
<1>11. CASE DecodeDone
  BY <1>11, CompactedReadBuffer
     DEF DecodeDone, compact_read_buffer_if_needed, TypeOK, KernelTypeOK
<1>12. ASSUME NEW n \in 1..Least(budget.bytes, Len(pty_output)), ReadOk(n)
       PROVE  TypeOK'
  <2>1. n \in Nat \ {0} /\ n \in 0..Len(pty_output)
    BY <1>12, UnsentNat DEF Least
  <2>2. /\ SubSeq(pty_output, 1, n) \in Seq(Output) /\ Len(SubSeq(pty_output, 1, n)) = n
        /\ pty_output' \in Seq(Output)
    <3>1. pty_output \in Seq(Output) /\ Len(pty_output) \in Nat
      BY LenProperties DEF TypeOK, KernelTypeOK
    <3>2. 0 \in 0..Len(pty_output) /\ n \in 0..Len(pty_output)
      BY <2>1, <3>1
    <3>3. SubSeq(pty_output, 0 + 1, n) \in Seq(Output) /\ Len(SubSeq(pty_output, 0 + 1, n)) = n - 0
      BY <3>1, <3>2, Prefix
    <3>4. pty_output' \in Seq(Output)
      BY <1>12, <3>1, <3>2, Suffix DEF ReadOk
    <3> QED
      BY <2>1, <3>3, <3>4
  <2>3. /\ read_buffer' \in Seq(Output)
        /\ Len(read_buffer') = Len(compacted_buffer) + n
    BY <1>12, <2>2, CompactedReadBuffer, ConcatProperties DEF ReadOk
  <2>4. read_offset' \in 0..Len(read_buffer')
    BY <1>12, <2>1, <2>3, CompactedReadBuffer, LenProperties DEF ReadOk
  <2>5. counters' \in Counters
    <3>1. counters \in Counters /\ counters' = [counters EXCEPT !.pty_bytes_read = @ + n]
      BY <1>12 DEF ReadOk, TypeOK
    <3> QED
      BY <2>1, <3>1 DEF Counters
  <2>6. budget' \in Budget
    BY <1>12, <2>1, ConsumeTyped DEF ReadOk, TypeOK
  <2> QED
    BY <1>12, <2>2, <2>3, <2>4, <2>5, <2>6 DEF ReadOk, TypeOK, KernelTypeOK
<1>13. CASE ReadWouldBlock
  BY <1>13, CompactedReadBuffer, ConsumeTyped
     DEF ReadWouldBlock, compact_read_buffer_if_needed, TypeOK, KernelTypeOK
<1>14. CASE ReadInterrupted
  BY <1>14, CompactedReadBuffer, ConsumeTyped
     DEF ReadInterrupted, compact_read_buffer_if_needed, TypeOK, KernelTypeOK
<1>15. CASE ReadEof
  BY <1>15, CompactedReadBuffer, ConsumeTyped
     DEF ReadEof, compact_read_buffer_if_needed, note_eof, Phase, TypeOK, KernelTypeOK
<1>16. CASE ReadError
  BY <1>16, CompactedReadBuffer, EndPumpTyped
     DEF ReadError, FailPump, compact_read_buffer_if_needed, TypeOK, KernelTypeOK
<1>17. CASE ReturnRead
  BY <1>17 DEF ReturnRead, TypeOK, KernelTypeOK
<1> QED
  BY <1>1, <1>2, <1>3, <1>4, <1>5, <1>6, <1>7, <1>8, <1>9, <1>10, <1>11, <1>12,
     <1>13, <1>14, <1>15, <1>16, <1>17 DEF PumpStep

LEMMA CallerStepTyped == TypeOK /\ CallerStep => TypeOK'
<1> SUFFICES ASSUME TypeOK, CallerStep PROVE TypeOK'
  OBVIOUS
<1> USE DEF pumpVars, lifeVars, readVars, queueVars, flagVars, kernelVars
<1>1. ASSUME NEW b \in Budgets, BeginPump(b) PROVE TypeOK'
  <2>1. budget' \in Budget
    BY <1>1, SessionAssumption DEF BeginPump
  <2>2. dir' \in Direction
    BY <1>1 DEF BeginPump, TypeOK
  <2>3. round' \in 0..2
    BY <1>1 DEF BeginPump
  <2>4. progressed' \in BOOLEAN /\ read_would_block' \in BOOLEAN /\ write_would_block' \in BOOLEAN
    BY <1>1 DEF BeginPump
  <2>5. pc' \in {"idle", "select", "write", "written", "decode", "read", "leave", "finish"}
    BY <1>1 DEF BeginPump
  <2> QED
    BY <1>1, <2>1, <2>2, <2>3, <2>4, <2>5 DEF BeginPump, TypeOK, KernelTypeOK
<1>2. ASSUME NEW n \in InputLens, EnqueueInput(n) PROVE TypeOK'
  <2>1. n \in Nat /\ counters \in Counters /\ counters.input_bytes_enqueued \in Nat
    BY SessionAssumption DEF TypeOK, Counters
  <2>2. /\ Fresh("input", counters.input_bytes_enqueued, n) \in Seq(Byte)
        /\ Len(Fresh("input", counters.input_bytes_enqueued, n)) = n
    <3>1. "input" \in Source
      BY DEF Source
    <3> QED
      BY <2>1, <3>1, FreshBytes
  <2>3. outbound' \in Seq(Byte) /\ Len(outbound') = Len(outbound) + n
    BY <1>2, <2>2, ConcatProperties DEF EnqueueInput, TypeOK
  <2>4. write_offset' \in 0..Len(outbound')
    BY <1>2, <2>1, <2>3, UnsentNat DEF EnqueueInput, TypeOK
  <2>5. counters' \in Counters
    BY <1>2, <2>1 DEF EnqueueInput, Counters
  <2> QED
    BY <1>2, <2>3, <2>4, <2>5 DEF EnqueueInput, TypeOK, KernelTypeOK
<1>3. CASE Close
  BY <1>3, EmptySeq DEF Close, Discard, Phase, TypeOK, KernelTypeOK
<1>4. CASE TryWait
  BY <1>4 DEF TryWait, Phase, TypeOK, KernelTypeOK
<1> QED
  BY <1>1, <1>2, <1>3, <1>4 DEF CallerStep

LEMMA KernelStepTyped == TypeOK /\ KernelStep => TypeOK'
<1> SUFFICES ASSUME TypeOK, KernelStep PROVE TypeOK'
  OBVIOUS
<1>1. KernelTypeOK'
  <2>1. ASSUME NEW byte \in Output, ChildWrite(byte) PROVE KernelTypeOK'
    BY <2>1, AppendProperties DEF ChildWrite, TypeOK, KernelTypeOK
  <2>2. CASE ChildRead
    BY <2>2 DEF ChildRead, TypeOK, KernelTypeOK
  <2>3. CASE ChildExit
    BY <2>3 DEF ChildExit, TypeOK, KernelTypeOK
  <2>4. CASE SlaveClose
    BY <2>4 DEF SlaveClose, TypeOK, KernelTypeOK
  <2> QED
    BY <2>1, <2>2, <2>3, <2>4 DEF KernelStep
<1> QED
  BY <1>1 DEF KernelStep, TypeOK, sessionVars, pumpVars, lifeVars, readVars, queueVars, flagVars

LEMMA TypingStep == TypeOK /\ [Next]_vars => TypeOK'
<1>1. TypeOK /\ UNCHANGED vars => TypeOK'
  BY DEF vars, sessionVars, pumpVars, lifeVars, readVars, queueVars, flagVars,
         kernelVars, TypeOK, KernelTypeOK
<1> QED
  BY <1>1, PumpStepTyped, CallerStepTyped, KernelStepTyped DEF Next

(* Session is type-correct: offsets stay inside their buffers, budgets and    *)
(* counters never go below zero.                                              *)
THEOREM SessionTyping == Spec => []TypeOK
BY InitTyped, TypingStep, PTL DEF Spec

-----------------------------------------------------------------------------
(* The pending range.  ReplyRangeExact and PausedHasWork are inductive only    *)
(* together with the typing: a byte that is decoded or enqueued joins the      *)
(* queue behind the range, which PausedHasWork alone does not know.            *)
RangeInv == TypeOK /\ ReplyRangeExact /\ PausedHasWork

LEMMA RangeInit == Init => RangeInv
<1> SUFFICES ASSUME Init PROVE RangeInv
  OBVIOUS
<1>1. outbound = <<>> /\ write_offset = 0 /\ ~read_paused
  BY DEF Init, read_paused
<1>2. Len(outbound) = 0
  BY <1>1, EmptySeq
<1> QED
  BY <1>1, <1>2, InitTyped DEF RangeInv, ReplyRangeExact, PausedHasWork

LEMMA QueueUntouched ==
    ASSUME RangeInv, UNCHANGED queueVars
    PROVE  ReplyRangeExact' /\ PausedHasWork'
BY DEF RangeInv, queueVars, ReplyRangeExact, PausedHasWork, read_paused, outbound_empty

LEMMA DiscardKeepsRange ==
    ASSUME Discard
    PROVE  ReplyRangeExact' /\ PausedHasWork'
<1>1. outbound' = <<>> /\ write_offset' = 0 /\ ~read_paused'
  BY DEF Discard, read_paused
<1>2. Len(outbound') = 0
  BY <1>1, EmptySeq
<1> QED
  BY <1>1, <1>2 DEF ReplyRangeExact, PausedHasWork

(* Moving the offset forward, with or without compaction, keeps the range on  *)
(* its bytes: a range left whole behind the offset names no unsent byte, and  *)
(* compaction can only happen to it after it is retired or along with it.     *)
LEMMA CompactionKeepsRange ==
    ASSUME RangeInv, NEW offset \in write_offset + 1 .. Len(outbound),
           compact_outbound_if_needed(offset)
    PROVE  ReplyRangeExact' /\ PausedHasWork'
<1> DEFINE drop == offset >= OutboundCompactThreshold \/ offset = Len(outbound)
<1>1. /\ Len(outbound) \in Nat /\ write_offset \in Nat
      /\ offset \in 1..Len(outbound) /\ outbound \in Seq(Byte)
      /\ pending_reply_range \in ReplyRange \cup {None}
  BY UnsentNat DEF RangeInv, TypeOK
<1>2. \A i \in offset + 1 .. Len(outbound) :
          outbound[i].src = "reply" <=>
             read_paused /\ pending_reply_range.start < i /\ i <= pending_reply_range.end
  BY <1>1 DEF RangeInv, ReplyRangeExact
<1>3. read_paused =>
         /\ pending_reply_range.start \in Nat /\ pending_reply_range.end \in Nat
         /\ pending_reply_range.start < pending_reply_range.end
         /\ pending_reply_range.end <= Len(outbound)
  BY <1>1 DEF RangeInv, ReplyRangeExact, ReplyRange, read_paused
<1>4. CASE drop
  <2>1. /\ outbound' = SubSeq(outbound, offset + 1, Len(outbound)) /\ write_offset' = 0
        /\ pending_reply_range' =
                LET r == RetiredRange(offset)
                IN IF r = None THEN None
                   ELSE [start |-> Monus(r.start, offset), end |-> r.end - offset]
    BY <1>1, <1>4 DEF compact_outbound_if_needed
  <2>2. /\ Len(outbound') = Len(outbound) - offset
        /\ \A i \in 1..Len(outbound) - offset : outbound'[i] = outbound[offset + i]
    BY <1>1, <2>1, Suffix
  <2>3. CASE RetiredRange(offset) = None
    <3>1. pending_reply_range' = None
      BY <2>1, <2>3
    <3>2. ~read_paused \/ offset >= pending_reply_range.end
      BY <2>3 DEF RetiredRange, read_paused
    <3>3. ASSUME NEW i \in 1..Len(outbound')
          PROVE  outbound'[i].src # "reply"
      <4>1. outbound'[i] = outbound[offset + i] /\ offset + i \in offset + 1 .. Len(outbound)
        BY <1>1, <2>2, <3>3
      <4>2. ~(read_paused /\ offset + i <= pending_reply_range.end)
        BY <1>1, <1>3, <3>2, <3>3, <4>1
      <4> QED
        BY <1>2, <4>1, <4>2
    <3>4. ~read_paused'
      BY <3>1 DEF read_paused
    <3>5. \A i \in write_offset' + 1 .. Len(outbound') : outbound'[i].src # "reply"
      BY <2>1, <3>3
    <3> QED
      BY <3>4, <3>5 DEF ReplyRangeExact, PausedHasWork
  <2>4. CASE RetiredRange(offset) # None
    <3> DEFINE r == pending_reply_range
    <3>1. RetiredRange(offset) = r /\ read_paused /\ ~(offset >= r.end)
      BY <2>4 DEF RetiredRange, read_paused
    <3>2. pending_reply_range' = [start |-> Monus(r.start, offset), end |-> r.end - offset]
      BY <2>1, <2>4, <3>1
    <3>3. /\ offset < r.end
          /\ pending_reply_range'.start = Monus(r.start, offset)
          /\ pending_reply_range'.end = r.end - offset
          /\ Monus(r.start, offset) \in Nat
      BY <1>1, <1>3, <3>1, <3>2 DEF Monus
    <3>4. /\ pending_reply_range'.start < pending_reply_range'.end
          /\ pending_reply_range'.end <= Len(outbound')
          /\ Len(outbound') # 0
      BY <1>1, <1>3, <2>2, <3>1, <3>3 DEF Monus
    <3>5. ASSUME NEW i \in 1..Len(outbound')
          PROVE  outbound'[i].src = "reply" <=>
                    pending_reply_range'.start < i /\ i <= pending_reply_range'.end
      <4>1. outbound'[i] = outbound[offset + i] /\ offset + i \in offset + 1 .. Len(outbound)
        BY <1>1, <2>2, <3>5
      <4>2. outbound[offset + i].src = "reply" <=> r.start < offset + i /\ offset + i <= r.end
        BY <1>2, <3>1, <4>1
      <4>3. r.start < offset + i <=> Monus(r.start, offset) < i
        BY <1>1, <1>3, <3>1, <3>5, <2>2 DEF Monus
      <4>4. offset + i <= r.end <=> i <= r.end - offset
        BY <1>1, <1>3, <3>1, <3>5, <2>2
      <4> QED
        BY <4>1, <4>2, <4>3, <4>4, <3>3
    <3>6. read_paused'
      <4>1. pending_reply_range' \in ReplyRange
        BY <1>1, <1>3, <3>1, <3>2, <3>3 DEF ReplyRange
      <4> QED
        BY <4>1, SessionAssumption DEF read_paused
    <3> QED
      BY <2>1, <3>4, <3>5, <3>6 DEF ReplyRangeExact, PausedHasWork, outbound_empty
  <2> QED
    BY <2>3, <2>4
<1>5. CASE ~drop
  <2>1. /\ write_offset' = offset /\ outbound' = outbound
        /\ pending_reply_range' = pending_reply_range
    BY <1>5 DEF compact_outbound_if_needed
  <2>2. offset # Len(outbound)
    BY <1>5
  <2>3. read_paused' = read_paused
    BY <2>1 DEF read_paused
  <2> QED
    BY <1>2, <1>3, <2>1, <2>2, <2>3 DEF ReplyRangeExact, PausedHasWork, outbound_empty
<1> QED
  BY <1>4, <1>5

(* The end of write_phase retires a range that is fully written. *)
LEMMA RetireKeepsRange ==
    ASSUME RangeInv, pending_reply_range' = RetiredRange(write_offset),
           UNCHANGED <<outbound, write_offset>>
    PROVE  ReplyRangeExact' /\ PausedHasWork'
<1>1. CASE RetiredRange(write_offset) = pending_reply_range
  BY <1>1, QueueUntouched DEF queueVars
<1>2. CASE RetiredRange(write_offset) # pending_reply_range
  <2>1. ~read_paused' /\ read_paused /\ write_offset >= pending_reply_range.end
    BY <1>2 DEF RetiredRange, read_paused
  <2>2. /\ write_offset \in Nat /\ Len(outbound) \in Nat
        /\ pending_reply_range \in ReplyRange
    BY <2>1, UnsentNat DEF RangeInv, TypeOK, read_paused
  <2>3. \A i \in write_offset + 1 .. Len(outbound) : outbound[i].src # "reply"
    BY <2>1, <2>2 DEF RangeInv, ReplyRangeExact, ReplyRange
  <2> QED
    BY <2>1, <2>2, <2>3 DEF ReplyRangeExact, PausedHasWork
<1> QED
  BY <1>1, <1>2

(* Bytes appended to the queue, seen one index at a time. *)
AppendedQueue(fresh, n) ==
    /\ Len(outbound') = Len(outbound) + n
    /\ \A i \in 1..Len(outbound) : outbound'[i] = outbound[i]
    /\ \A i \in 1..n : outbound'[Len(outbound) + i] = fresh[i]

LEMMA QueueAppended ==
    ASSUME NEW n \in Nat, NEW fresh \in Seq(Byte), Len(fresh) = n,
           outbound \in Seq(Byte), outbound' = outbound \o fresh
    PROVE  AppendedQueue(fresh, n)
<1>1. Len(outbound) \in Nat
  BY LenProperties
<1>2. /\ Len(outbound') = Len(outbound) + n
      /\ \A i \in 1 .. Len(outbound) + n :
            outbound'[i] = IF i <= Len(outbound) THEN outbound[i] ELSE fresh[i - Len(outbound)]
  BY ConcatProperties
<1>3. \A i \in 1..Len(outbound) : outbound'[i] = outbound[i]
  BY <1>1, <1>2
<1>4. ASSUME NEW i \in 1..n PROVE outbound'[Len(outbound) + i] = fresh[i]
  <2>1. /\ Len(outbound) + i \in 1 .. Len(outbound) + n
        /\ ~(Len(outbound) + i <= Len(outbound))
        /\ (Len(outbound) + i) - Len(outbound) = i
    BY <1>1
  <2> QED
    BY <1>2, <2>1
<1> QED
  BY <1>2, <1>3, <1>4 DEF AppendedQueue

LEMMA ReplyJoinsQueue ==
    ASSUME RangeInv, ~read_paused, NEW n \in Nat, NEW fresh, AppendedQueue(fresh, n),
           \A i \in 1..n : fresh[i].src = "reply", write_offset' = write_offset,
           pending_reply_range' = IF n = 0 THEN pending_reply_range
                                  ELSE [start |-> Len(outbound), end |-> Len(outbound) + n]
    PROVE  ReplyRangeExact' /\ PausedHasWork'
<1>1. Len(outbound) \in Nat /\ write_offset \in 0..Len(outbound)
  BY UnsentNat DEF RangeInv, TypeOK
<1>2. \A i \in write_offset + 1 .. Len(outbound) : outbound[i].src # "reply"
  BY DEF RangeInv, ReplyRangeExact
<1>3. /\ Len(outbound') = Len(outbound) + n
      /\ \A i \in 1..Len(outbound) : outbound'[i] = outbound[i]
      /\ \A i \in 1..n : outbound'[Len(outbound) + i] = fresh[i]
  BY DEF AppendedQueue
<1>4. ASSUME NEW i \in write_offset' + 1 .. Len(outbound')
      PROVE  outbound'[i].src = "reply" <=> i > Len(outbound)
  <2>1. CASE i <= Len(outbound)
    BY <1>1, <1>2, <1>3, <1>4, <2>1
  <2>2. CASE i > Len(outbound)
    <3> DEFINE j == i - Len(outbound)
    <3>1. j \in 1..n /\ i = Len(outbound) + j
      BY <1>1, <1>3, <1>4, <2>2
    <3>2. outbound'[i] = fresh[j]
      BY <1>3, <3>1
    <3> QED
      BY <2>2, <3>1, <3>2
  <2> QED
    BY <1>1, <1>4, <2>1, <2>2
<1>5. CASE n = 0
  <2>1. ~read_paused' /\ Len(outbound') = Len(outbound)
    BY <1>1, <1>3, <1>5 DEF read_paused
  <2> QED
    BY <1>1, <1>4, <2>1 DEF ReplyRangeExact, PausedHasWork
<1>6. CASE n # 0
  <2> DEFINE r == [start |-> Len(outbound), end |-> Len(outbound) + n]
  <2>1. pending_reply_range' = r /\ r \in ReplyRange
    BY <1>1, <1>6 DEF ReplyRange
  <2>2. read_paused'
    BY <2>1, SessionAssumption DEF read_paused
  <2>3. /\ pending_reply_range'.start = Len(outbound)
        /\ pending_reply_range'.end = Len(outbound')
    BY <1>3, <2>1
  <2>4. Len(outbound) < Len(outbound') /\ write_offset' # Len(outbound')
    BY <1>1, <1>3, <1>6
  <2>5. ASSUME NEW i \in write_offset' + 1 .. Len(outbound')
        PROVE  i <= Len(outbound') /\ (i > Len(outbound) <=> Len(outbound) < i)
    BY <1>1, <1>3
  <2> QED
    BY <1>4, <2>2, <2>3, <2>4, <2>5 DEF ReplyRangeExact, PausedHasWork, outbound_empty
<1> QED
  BY <1>5, <1>6

LEMMA InputJoinsQueue ==
    ASSUME RangeInv, NEW n \in Nat, NEW fresh, AppendedQueue(fresh, n),
           \A i \in 1..n : fresh[i].src = "input", write_offset' = write_offset,
           pending_reply_range' = pending_reply_range
    PROVE  ReplyRangeExact' /\ PausedHasWork'
<1>1. /\ Len(outbound) \in Nat /\ write_offset \in 0..Len(outbound)
      /\ pending_reply_range \in ReplyRange \cup {None}
  BY UnsentNat DEF RangeInv, TypeOK
<1>2. /\ Len(outbound') = Len(outbound) + n
      /\ \A i \in 1..Len(outbound) : outbound'[i] = outbound[i]
      /\ \A i \in 1..n : outbound'[Len(outbound) + i] = fresh[i]
  BY DEF AppendedQueue
<1>3. read_paused =>
         /\ pending_reply_range.start \in Nat /\ pending_reply_range.end \in Nat
         /\ pending_reply_range.start < pending_reply_range.end
         /\ pending_reply_range.end <= Len(outbound)
         /\ write_offset # Len(outbound)
  BY <1>1 DEF RangeInv, ReplyRangeExact, PausedHasWork, ReplyRange, read_paused, outbound_empty
<1>4. ASSUME NEW i \in write_offset' + 1 .. Len(outbound')
      PROVE  outbound'[i].src = "reply" <=>
                 read_paused /\ pending_reply_range.start < i /\ i <= pending_reply_range.end
  <2>1. CASE i <= Len(outbound)
    BY <1>1, <1>2, <1>4, <2>1 DEF RangeInv, ReplyRangeExact
  <2>2. CASE i > Len(outbound)
    <3> DEFINE j == i - Len(outbound)
    <3>1. j \in 1..n /\ i = Len(outbound) + j
      BY <1>1, <1>2, <1>4, <2>2
    <3>2. outbound'[i].src # "reply"
      BY <1>2, <3>1
    <3>3. ~(read_paused /\ i <= pending_reply_range.end)
      BY <1>1, <1>3, <1>4, <2>2
    <3> QED
      BY <3>2, <3>3
  <2> QED
    BY <1>1, <1>4, <2>1, <2>2
<1>5. read_paused' = read_paused
  BY DEF read_paused
<1>6. read_paused => /\ pending_reply_range.end <= Len(outbound')
                     /\ write_offset' # Len(outbound')
  BY <1>1, <1>2, <1>3
<1> QED
  BY <1>3, <1>4, <1>5, <1>6 DEF ReplyRangeExact, PausedHasWork, outbound_empty

LEMMA RangeStep == RangeInv /\ [Next]_vars => RangeInv'
<1> SUFFICES ASSUME RangeInv, [Next]_vars PROVE ReplyRangeExact' /\ PausedHasWork'
  BY TypingStep DEF RangeInv
<1> USE DEF pumpVars, lifeVars, readVars, flagVars
<1>1. ASSUME NEW n \in 1..Least(budget.bytes, unsent), WriteOk(n)
      PROVE  ReplyRangeExact' /\ PausedHasWork'
  <2>1. write_offset + n \in write_offset + 1 .. Len(outbound)
    BY <1>1, UnsentNat DEF RangeInv, Least, unsent
  <2> QED
    BY <1>1, <2>1, CompactionKeepsRange DEF WriteOk
<1>2. CASE ReturnWrite
  BY <1>2, RetireKeepsRange DEF ReturnWrite
<1>3. CASE WriteGone
  BY <1>3, DiscardKeepsRange DEF WriteGone
<1>4. CASE Close
  BY <1>4, DiscardKeepsRange DEF Close
<1>5. CASE DecodeByte
  <2> DEFINE len == read_buffer[read_offset + 1]
             fresh == Fresh("reply", counters.terminal_reply_bytes_generated, len)
  <2>1. len \in Nat /\ counters.terminal_reply_bytes_generated \in Nat
    BY <1>5, DecodedLen DEF RangeInv, DecodeByte
  <2>2. /\ outbound' = outbound \o fresh /\ write_offset' = write_offset
        /\ pending_reply_range' = IF len = 0 THEN pending_reply_range
                                  ELSE [start |-> Len(outbound), end |-> Len(outbound) + len]
        /\ ~read_paused
    BY <1>5 DEF DecodeByte, CanDecode
  <2>3. /\ fresh \in Seq(Byte) /\ Len(fresh) = len
        /\ \A i \in 1..len : fresh[i].src = "reply"
    <3> HIDE DEF len
    <3>1. "reply" \in Source
      BY DEF Source
    <3>2. fresh \in Seq(Byte) /\ Len(fresh) = len
      BY <2>1, <3>1, FreshBytes
    <3>3. \A i \in 1..len : fresh[i].src = "reply"
      BY DEF Fresh
    <3> QED
      BY <3>2, <3>3
  <2> HIDE DEF len, fresh
  <2>4. AppendedQueue(fresh, len)
    <3>1. outbound \in Seq(Byte)
      BY DEF RangeInv, TypeOK
    <3> QED
      BY <2>1, <2>2, <2>3, <3>1, QueueAppended
  <2> QED
    BY <2>1, <2>2, <2>3, <2>4, ReplyJoinsQueue
<1>6. ASSUME NEW n \in InputLens, EnqueueInput(n)
      PROVE  ReplyRangeExact' /\ PausedHasWork'
  <2> DEFINE fresh == Fresh("input", counters.input_bytes_enqueued, n)
  <2>1. n \in Nat /\ counters.input_bytes_enqueued \in Nat
    BY SessionAssumption DEF RangeInv, TypeOK, Counters
  <2>2. /\ fresh \in Seq(Byte) /\ Len(fresh) = n
        /\ \A i \in 1..n : fresh[i].src = "input"
    <3>1. "input" \in Source
      BY DEF Source
    <3>2. fresh \in Seq(Byte) /\ Len(fresh) = n
      BY <2>1, <3>1, FreshBytes
    <3>3. \A i \in 1..n : fresh[i].src = "input"
      BY DEF Fresh
    <3> QED
      BY <3>2, <3>3
  <2>3. /\ outbound' = outbound \o fresh /\ write_offset' = write_offset
        /\ pending_reply_range' = pending_reply_range
    BY <1>6 DEF EnqueueInput
  <2> HIDE DEF fresh
  <2>4. AppendedQueue(fresh, n)
    <3>1. outbound \in Seq(Byte)
      BY DEF RangeInv, TypeOK
    <3> QED
      BY <2>1, <2>2, <2>3, <3>1, QueueAppended
  <2> QED
    BY <2>1, <2>2, <2>3, <2>4, InputJoinsQueue
<1>7. UNCHANGED queueVars => ReplyRangeExact' /\ PausedHasWork'
  BY QueueUntouched
<1> QED
  BY <1>1, <1>2, <1>3, <1>4, <1>5, <1>6, <1>7
     DEF Next, PumpStep, CallerStep, KernelStep, vars, sessionVars, SelectDirection,
         LeavePhase, FinishPump, WriteWouldBlock, WriteNothing, WriteError, DecodeDone,
         ReadOk, ReadWouldBlock, ReadInterrupted, ReadEof, ReadError, ReturnRead,
         BeginPump, TryWait

(* The range that pauses decoding names exactly the reply bytes still queued,  *)
(* and a paused session always has something to write, whatever the kernel     *)
(* accepts and wherever compaction falls.                                      *)
THEOREM RangeNeverDrifts == Spec => []ReplyRangeSound
<1>1. RangeInv => ReplyRangeSound
  BY DEF RangeInv, ReplyRangeSound
<1> QED
  BY RangeInit, RangeStep, <1>1, PTL DEF Spec

(* A pause that is on outside of a write phase is due to a reply that is not  *)
(* out.  Inside one the range may be fully written until the phase retires it, *)
(* and an error leaves the phase before it does.                              *)
PauseInv ==
    ~IoErrors /\ read_paused /\ pc \notin {"write", "written"}
        => write_offset < pending_reply_range.end

LEMMA PauseStep == RangeInv /\ PauseInv /\ [Next]_vars => PauseInv'
<1> SUFFICES ASSUME RangeInv, PauseInv, [Next]_vars, ~IoErrors, read_paused',
                    pc' \notin {"write", "written"}
             PROVE  write_offset' < pending_reply_range'.end
  BY DEF PauseInv
<1> USE DEF pumpVars, lifeVars, readVars, queueVars, flagVars
<1>1. /\ write_offset \in 0..Len(outbound) /\ Len(outbound) \in Nat
      /\ pending_reply_range \in ReplyRange \cup {None}
  BY UnsentNat DEF RangeInv, TypeOK
<1>2. CASE ReturnWrite
  <2>1. pending_reply_range' = RetiredRange(write_offset) /\ write_offset' = write_offset
    BY <1>2 DEF ReturnWrite
  <2>2. pending_reply_range' # None
    BY DEF read_paused
  <2>3. /\ pending_reply_range' = pending_reply_range /\ pending_reply_range # None
        /\ ~(write_offset >= pending_reply_range.end)
    BY <2>1, <2>2 DEF RetiredRange, read_paused
  <2> QED
    BY <1>1, <2>1, <2>3 DEF ReplyRange
<1>3. CASE DecodeByte
  <2> DEFINE len == read_buffer[read_offset + 1]
  <2>1. len \in Nat
    BY <1>3, DecodedLen DEF RangeInv, DecodeByte
  <2>2. /\ write_offset' = write_offset /\ pending_reply_range = None
        /\ pending_reply_range' = IF len = 0 THEN pending_reply_range
                                  ELSE [start |-> Len(outbound), end |-> Len(outbound) + len]
    BY <1>3 DEF DecodeByte, CanDecode, read_paused
  <2> HIDE DEF len
  <2>3. len # 0
    BY <2>2 DEF read_paused
  <2>4. pending_reply_range'.end = Len(outbound) + len
    BY <2>2, <2>3
  <2> QED
    BY <1>1, <2>1, <2>2, <2>3, <2>4
<1>4. CASE WriteGone \/ Close
  BY <1>4 DEF WriteGone, Close, Discard, read_paused
<1>5. CASE UNCHANGED <<write_offset, pending_reply_range>> /\ pc \notin {"write", "written"}
  BY <1>5 DEF PauseInv, read_paused
<1>6. ASSUME ~(ReturnWrite \/ DecodeByte \/ WriteGone \/ Close)
      PROVE  /\ UNCHANGED <<write_offset, pending_reply_range>>
             /\ pc \notin {"write", "written"}
  <2>1. CASE PumpStep
    BY <1>6, <2>1 DEF PumpStep, SelectDirection, EnterPhase, LeavePhase, FinishPump, WriteReady,
       WriteOk, WriteWouldBlock, WriteNothing, WriteError, DecodeDone, ReadReady,
       ReadOk, ReadWouldBlock, ReadInterrupted, ReadEof, ReadError, ReturnRead
  <2>2. CASE ~PumpStep
    BY <1>6, <2>2 DEF Next, CallerStep, KernelStep, vars, sessionVars, BeginPump, EnqueueInput,
       TryWait
  <2> QED
    BY <2>1, <2>2
<1> QED
  BY <1>2, <1>3, <1>4, <1>5, <1>6

(* Between two pumps, decoding is paused only for a reply that is really not  *)
(* out yet, as long as no write fails with an error other than EIO: such an   *)
(* error leaves write_phase past its last look at the range.                  *)
THEOREM PauseEndsInTime == Spec => [](~IoErrors => PauseEndsWithReply)
<1>1. Init => PauseInv
  BY DEF Init, PauseInv, read_paused
<1>2. PauseInv => (~IoErrors => PauseEndsWithReply)
  BY DEF PauseInv, PauseEndsWithReply
<1> QED
  BY RangeInit, RangeStep, PauseStep, <1>1, <1>2, PTL DEF Spec

-----------------------------------------------------------------------------
(* The refinement of SessionStatus.                                           *)

(* Eof waits for the exit, Reaped has it, and the master is closed from       *)
(* Closing on.                                                                *)
StatusInv ==
    /\ phase \in Phase
    /\ phase = "Eof" => ~exit_status
    /\ phase = "Reaped" => exit_status
    /\ phase = "Closing" => pty = "Closing"
    /\ pty = "Closing" => phase \in {"Closing", "Reaped"}

(* The only steps that move the phase or the cached exit. *)
LEMMA StatusStep ==
    StatusInv /\ TypeOK /\ (WriteGone \/ ReadEof \/ Close \/ TryWait)
    => StatusInv' /\ [Status!Next]_(Status!svars)
<1> SUFFICES ASSUME StatusInv, TypeOK, WriteGone \/ ReadEof \/ Close \/ TryWait
             PROVE  StatusInv' /\ [Status!Next]_(Status!svars)
  OBVIOUS
<1> USE DEF StatusInv, Phase, Status!Next, Status!svars
<1>1. CASE WriteGone
  BY <1>1 DEF TypeOK, WriteGone, WriteReady, Closed, note_eof, Status!IoEnds
<1>2. CASE ReadEof
  BY <1>2 DEF TypeOK, ReadEof, ReadReady, note_eof, Status!IoEnds
<1>3. CASE Close
  BY <1>3 DEF TypeOK, Close, Closed, Status!Close
<1>4. CASE TryWait
  BY <1>4 DEF TypeOK, TryWait, Status!ChildReaped
<1> QED
  BY <1>1, <1>2, <1>3, <1>4

LEMMA StatusUntouched == [Next]_vars => \/ WriteGone \/ ReadEof \/ Close \/ TryWait
                                        \/ UNCHANGED lifeVars
BY DEF Next, PumpStep, CallerStep, KernelStep, vars, sessionVars, SelectDirection,
       LeavePhase, FinishPump, WriteOk, WriteWouldBlock, WriteNothing, WriteError, ReturnWrite,
       DecodeByte, DecodeDone, ReadOk, ReadWouldBlock, ReadInterrupted, ReadError, ReturnRead,
       BeginPump, EnqueueInput

(* What status() and exit_status() show of a session whose child may exit     *)
(* before, during or after the pump that reads EOF, or that finds the slave   *)
(* gone while it writes, is the lifecycle of SessionStatus.                   *)
THEOREM SessionImplementsStatus == Spec => StatusFollowsLifecycle
<1>1. Init => StatusInv /\ Status!Init
  BY DEF Init, StatusInv, Phase, Status!Init
<1>2. StatusInv /\ TypeOK /\ [Next]_vars => StatusInv' /\ [Status!Next]_(Status!svars)
  <2>1. StatusInv /\ UNCHANGED lifeVars => StatusInv' /\ UNCHANGED Status!svars
    BY DEF StatusInv, lifeVars, Status!svars
  <2> QED
    BY <2>1, StatusStep, StatusUntouched
<1> QED
  BY <1>1, <1>2, SessionTyping, PTL DEF Spec, StatusFollowsLifecycle, Status!Spec

-----------------------------------------------------------------------------
(* Session implements the FIFO of WriteQueue.                                 *)

(* The queue of the refinement: what is accepted and not yet written.         *)
Queued == SubSeq(outbound, write_offset + 1, Len(outbound))

LEMMA QueuedBytes ==
    ASSUME TypeOK
    PROVE  /\ Queued \in Seq(Byte) /\ Len(Queued) = unsent /\ unsent \in Nat
           /\ \A i \in 1..unsent : Queued[i] = outbound[write_offset + i]
<1>1. outbound \in Seq(Byte) /\ write_offset \in 0..Len(outbound)
  BY DEF TypeOK
<1> QED
  BY <1>1, Suffix, UnsentNat DEF Queued, unsent

LEMMA QueuedBytesNext ==
    ASSUME TypeOK'
    PROVE  /\ Queued' \in Seq(Byte) /\ Len(Queued') = unsent' /\ unsent' \in Nat
           /\ \A i \in 1..unsent' : Queued'[i] = outbound'[write_offset' + i]
<1>1. outbound' \in Seq(Byte) /\ write_offset' \in 0..Len(outbound')
  BY DEF TypeOK
<1>2. Len(outbound') \in Nat /\ unsent' = Len(outbound') - write_offset' /\ unsent' \in Nat
  BY <1>1, LenProperties DEF unsent
<1>3. /\ Queued' \in Seq(Byte) /\ Len(Queued') = Len(outbound') - write_offset'
      /\ \A i \in 1..Len(outbound') - write_offset' : Queued'[i] = outbound'[write_offset' + i]
  BY <1>1, Suffix DEF Queued
<1> QED
  BY <1>2, <1>3

(* A write is a transmission: with or without compaction, what leaves the     *)
(* queue is what the kernel takes, and the rest stays in order.               *)
LEMMA WriteTransmits ==
    ASSUME TypeOK, TypeOK', NEW n \in 1..Least(budget.bytes, unsent), WriteOk(n)
    PROVE  Fifo!Transmit
<1> DEFINE offset == write_offset + n
<1>1. /\ n \in 1..unsent /\ offset \in 0..Len(outbound)
      /\ Len(outbound) - offset = unsent - n
      /\ write_offset \in Nat /\ Len(outbound) \in Nat
  BY UnsentNat DEF Least, unsent, TypeOK
<1>2. compact_outbound_if_needed(offset)
  BY DEF WriteOk
<1>3. /\ Len(outbound') - write_offset' = Len(outbound) - offset
      /\ \A i \in 1..Len(outbound) - offset : outbound'[write_offset' + i] = outbound[offset + i]
  BY <1>1, <1>2, Compaction
<1> HIDE DEF offset
<1>4. unsent' = unsent - n /\ \A i \in 1..unsent - n : Queued'[i] = outbound[offset + i]
  BY <1>1, <1>3, QueuedBytesNext DEF unsent
<1>5. Queued' = SubSeq(Queued, n + 1, Len(Queued))
  <2> DEFINE rest == SubSeq(Queued, n + 1, Len(Queued))
  <2>1. /\ rest \in Seq(Byte) /\ Len(rest) = unsent - n
        /\ \A i \in 1..unsent - n : rest[i] = Queued[n + i]
    BY <1>1, QueuedBytes, Suffix
  <2>2. \A i \in 1..unsent - n : n + i \in 1..unsent /\ write_offset + (n + i) = offset + i
    BY <1>1, QueuedBytes DEF offset
  <2>3. \A i \in 1..unsent - n : rest[i] = outbound[offset + i]
    BY <2>1, <2>2, QueuedBytes
  <2> HIDE DEF rest
  <2>4. Queued' = rest
    BY <1>4, <2>1, <2>3, QueuedBytesNext, SeqEqual
  <2> QED
    BY <2>4 DEF rest
<1>6. SubSeq(outbound, write_offset + 1, write_offset + n) = SubSeq(Queued, 1, n)
  <2> DEFINE taken == SubSeq(outbound, write_offset + 1, write_offset + n)
             front == SubSeq(Queued, 1, n)
  <2>1. \A i \in write_offset + 1 .. write_offset + n : outbound[i] \in Byte
    <3>1. outbound \in Seq(Byte)
      BY DEF TypeOK
    <3>2. write_offset + n <= Len(outbound)
      BY <1>1 DEF offset
    <3>3. \A i \in write_offset + 1 .. write_offset + n : i \in 1 .. Len(outbound)
      BY <1>1, <3>2
    <3> QED
      BY <3>1, <3>3, ElementOfSeq
  <2>2. /\ taken \in Seq(Byte) /\ Len(taken) = n
        /\ \A i \in 1..n : taken[i] = outbound[write_offset + i]
    <3> DEFINE first == write_offset + 1
               last == write_offset + n
    <3>1. /\ first \in Int /\ last \in Int /\ first <= last /\ last - first + 1 = n
          /\ \A i \in 1..n : first + i - 1 = write_offset + i
      BY <1>1
    <3>2. \A i \in first .. last : outbound[i] \in Byte
      BY <2>1
    <3> HIDE DEF first, last
    <3>3. /\ SubSeq(outbound, first, last) \in Seq(Byte)
          /\ Len(SubSeq(outbound, first, last)) = n
          /\ \A i \in 1..n : SubSeq(outbound, first, last)[i] = outbound[first + i - 1]
      BY <3>1, <3>2, SubSeqProperties
    <3> QED
      BY <3>1, <3>3 DEF first, last
  <2>3. \A i \in 1..n : Queued[i] \in Byte
    BY <1>1, QueuedBytes, ElementOfSeq
  <2>4. /\ front \in Seq(Byte) /\ Len(front) = n
        /\ \A i \in 1..n : front[i] = Queued[i]
    BY <1>1, <2>3, SubSeqProperties
  <2> HIDE DEF taken, front
  <2>5. \A i \in 1..n : front[i] = outbound[write_offset + i]
    <3>1. \A i \in 1..n : i \in 1..unsent
      BY <1>1, QueuedBytes
    <3>2. \A i \in 1..unsent : Queued[i] = outbound[write_offset + i]
      BY QueuedBytes
    <3> QED
      BY <2>4, <3>1, <3>2
  <2>6. taken = front
    BY <2>2, <2>4, <2>5, SeqEqual
  <2> QED
    BY <2>6 DEF taken, front
<1>7. /\ wire' = wire \o SubSeq(Queued, 1, n)
      /\ pty = "Live" /\ UNCHANGED <<pty, slave_open>>
  BY <1>6 DEF WriteOk, WriteReady, lifeVars
<1>8. n \in 1..Len(Queued)
  BY <1>1, QueuedBytes
<1> QED
  BY <1>5, <1>7, <1>8 DEF Fifo!Transmit, Queued

(* Input and a reply are accepted at the tail. *)
LEMMA JoinAccepts ==
    ASSUME TypeOK, TypeOK', pty = "Live", UNCHANGED <<wire, pty, slave_open>>,
           NEW src \in {"input", "reply"}, NEW fresh \in Seq(Byte),
           \A i \in 1..Len(fresh) : fresh[i].src = src,
           outbound' = outbound \o fresh, write_offset' = write_offset
    PROVE  Fifo!Accept
<1> DEFINE n == Len(fresh)
<1>1. /\ n \in Nat /\ Len(outbound) \in Nat /\ write_offset \in 0..Len(outbound)
      /\ outbound \in Seq(Byte) /\ unsent = Len(outbound) - write_offset
  BY UnsentNat, LenProperties DEF TypeOK, unsent
<1>2. /\ Len(outbound') = Len(outbound) + n
      /\ \A i \in 1..Len(outbound) : outbound'[i] = outbound[i]
      /\ \A i \in 1..n : outbound'[Len(outbound) + i] = fresh[i]
  BY <1>1, QueueAppended DEF AppendedQueue
<1> HIDE DEF n
<1>3. unsent' = unsent + n
  BY <1>1, <1>2 DEF unsent
<1>4. \A i \in 1..unsent : Queued'[i] = Queued[i]
  <2> SUFFICES ASSUME NEW i \in 1..unsent PROVE Queued'[i] = Queued[i]
    OBVIOUS
  <2>1. Queued'[i] = outbound'[write_offset + i]
    <3>1. i \in 1..unsent'
      BY <1>1, <1>3
    <3> QED
      BY <3>1, QueuedBytesNext
  <2>2. write_offset + i \in 1..Len(outbound)
    BY <1>1
  <2> QED
    BY <1>2, <2>1, <2>2, QueuedBytes
<1>5. SubSeq(Queued', 1, Len(Queued)) = Queued
  <2> DEFINE front == SubSeq(Queued', 1, Len(Queued))
  <2>1. \A i \in 1..unsent : Queued'[i] \in Byte
    BY <1>4, QueuedBytes, ElementOfSeq
  <2>2. front \in Seq(Byte) /\ Len(front) = unsent /\ \A i \in 1..unsent : front[i] = Queued'[i]
    BY <2>1, QueuedBytes, SubSeqProperties
  <2> HIDE DEF front
  <2>3. front = Queued
    BY <1>4, <2>2, QueuedBytes, SeqEqual
  <2> QED
    BY <2>3 DEF front
<1>6. \A i \in Len(Queued) + 1 .. Len(Queued') : Queued'[i].src = src
  <2> SUFFICES ASSUME NEW i \in unsent + 1 .. unsent + n PROVE Queued'[i].src = src
    BY <1>3, QueuedBytes, QueuedBytesNext
  <2>1. Queued'[i] = outbound'[write_offset + i]
    <3>1. i \in 1..unsent'
      BY <1>1, <1>3
    <3> QED
      BY <3>1, QueuedBytesNext
  <2>2. /\ i - unsent \in 1..n
        /\ write_offset + i = Len(outbound) + (i - unsent)
    BY <1>1
  <2>3. Queued'[i] = fresh[i - unsent]
    BY <1>2, <2>1, <2>2
  <2> QED
    BY <2>2, <2>3 DEF n
<1>7. Len(Queued') >= Len(Queued)
  BY <1>1, <1>3, QueuedBytes, QueuedBytesNext
<1> QED
  BY <1>5, <1>6, <1>7 DEF Fifo!Accept, Queued

(* Discarding leaves nothing queued. *)
LEMMA DiscardEmpties == Discard => Queued' = <<>>
<1> SUFFICES ASSUME Discard PROVE Queued' = <<>>
  OBVIOUS
<1>1. outbound' = <<>> /\ write_offset' = 0 /\ Len(outbound') = 0
  BY EmptySeq DEF Discard
<1> QED
  BY <1>1, SubSeqEmpty DEF Queued

-----------------------------------------------------------------------------
(* A pump runs on an open master only: a close comes between pumps.           *)
PumpsOpen == pc # "idle" => pty = "Live"

LEMMA PumpsOpenStep == TypeOK /\ StatusInv /\ PumpsOpen /\ [Next]_vars => PumpsOpen'
<1> SUFFICES ASSUME TypeOK, StatusInv, PumpsOpen, [Next]_vars PROVE PumpsOpen'
  OBVIOUS
<1>1. CASE \E b \in Budgets : BeginPump(b)
  BY <1>1 DEF BeginPump, Closed, lifeVars, TypeOK, StatusInv, Phase, PumpsOpen
<1>2. CASE Close
  BY <1>2 DEF Close, pumpVars, PumpsOpen
<1>3. CASE ~(\E b \in Budgets : BeginPump(b)) /\ ~Close
  <2>1. pty' = pty /\ (pc = "idle" => pc' = "idle")
    BY <1>3 DEF Next, PumpStep, CallerStep, KernelStep, vars, sessionVars, lifeVars, pumpVars,
         SelectDirection, EnterPhase, LeavePhase, FinishPump, EndPump, FailPump, WriteReady,
         WriteOk, WriteWouldBlock, WriteNothing, WriteGone, WriteError, ReturnWrite, DecodeByte,
         DecodeDone, ReadReady, ReadOk, ReadWouldBlock, ReadInterrupted, ReadEof, ReadError,
         ReturnRead, EnqueueInput, TryWait
  <2> QED
    BY <2>1 DEF PumpsOpen
<1> QED
  BY <1>1, <1>2, <1>3

LEMMA QueueStep ==
    ASSUME TypeOK, TypeOK', StatusInv, PumpsOpen, [Next]_vars
    PROVE  [Fifo!Next]_(Fifo!qvars)
<1> USE DEF Fifo!Next
<1>1. ASSUME NEW n \in 1..Least(budget.bytes, unsent), WriteOk(n)
      PROVE  Fifo!Next
  BY <1>1, WriteTransmits
<1>2. CASE WriteGone
  BY <1>2, DiscardEmpties DEF WriteGone, WriteReady, kernelVars, Fifo!Abandon, Queued
<1>3. CASE Close
  <2>1. pty = "Live"
    BY <1>3 DEF Close, Closed, StatusInv, Phase, TypeOK
  <2> QED
    BY <1>3, <2>1, DiscardEmpties DEF Close, kernelVars, Fifo!Close, Queued
<1>4. CASE DecodeByte
  <2> DEFINE len == read_buffer[read_offset + 1]
             fresh == Fresh("reply", counters.terminal_reply_bytes_generated, len)
  <2>1. len \in Nat /\ counters.terminal_reply_bytes_generated \in Nat
    BY <1>4, DecodedLen DEF DecodeByte
  <2>2. /\ outbound' = outbound \o fresh /\ write_offset' = write_offset
        /\ pty = "Live" /\ UNCHANGED <<wire, pty, slave_open>>
    BY <1>4 DEF DecodeByte, PumpsOpen, lifeVars, kernelVars
  <2>3. "reply" \in Source /\ "reply" \in {"input", "reply"}
    BY DEF Source
  <2> HIDE DEF len
  <2>4. fresh \in Seq(Byte) /\ Len(fresh) = len
    BY <2>1, <2>3, FreshBytes
  <2>5. \A i \in 1..Len(fresh) : fresh[i].src = "reply"
    BY <2>4 DEF Fresh
  <2> HIDE DEF fresh
  <2> QED
    BY <2>2, <2>3, <2>4, <2>5, JoinAccepts
<1>5. ASSUME NEW n \in InputLens, EnqueueInput(n)
      PROVE  Fifo!Next
  <2> DEFINE fresh == Fresh("input", counters.input_bytes_enqueued, n)
  <2>1. n \in Nat /\ counters.input_bytes_enqueued \in Nat
    BY SessionAssumption DEF TypeOK, Counters
  <2>2. /\ outbound' = outbound \o fresh /\ write_offset' = write_offset
        /\ pty = "Live" /\ UNCHANGED <<wire, pty, slave_open>>
    BY <1>5 DEF EnqueueInput, StatusInv, TypeOK, lifeVars, kernelVars
  <2>3. "input" \in Source /\ "input" \in {"input", "reply"}
    BY DEF Source
  <2>4. fresh \in Seq(Byte) /\ Len(fresh) = n
    BY <2>1, <2>3, FreshBytes
  <2>5. \A i \in 1..Len(fresh) : fresh[i].src = "input"
    BY <2>4 DEF Fresh
  <2> HIDE DEF fresh
  <2> QED
    BY <2>2, <2>3, <2>4, <2>5, JoinAccepts
<1>6. CASE KernelStep
  BY <1>6 DEF KernelStep, sessionVars, lifeVars, queueVars, ChildWrite, ChildRead, ChildExit,
       SlaveClose, Fifo!PeerLeaves, Fifo!qvars
<1>7. UNCHANGED <<outbound, write_offset, pty, wire, slave_open>> => UNCHANGED Fifo!qvars
  BY DEF Fifo!qvars
<1> QED
  BY <1>1, <1>2, <1>3, <1>4, <1>5, <1>6, <1>7
     DEF Next, PumpStep, CallerStep, vars, sessionVars, lifeVars, queueVars, kernelVars,
         SelectDirection, LeavePhase, FinishPump, WriteWouldBlock, WriteNothing, WriteError,
         ReturnWrite, DecodeDone, ReadOk, ReadWouldBlock, ReadInterrupted, ReadEof, ReadError,
         ReturnRead, BeginPump, TryWait

(* Whatever the kernel accepts, wherever compaction falls and however a pump   *)
(* ends: the bytes for the child leave in the order they were accepted in,    *)
(* each once, and are given up only on close or when the slave is gone.       *)
THEOREM SessionImplementsWriteQueue == Spec => WriteQueueIsFifo
<1>1. Init => Fifo!Init /\ StatusInv /\ PumpsOpen
  <2>1. Init => SubSeq(outbound, write_offset + 1, Len(outbound)) = <<>>
    BY EmptySeq, SubSeqEmpty DEF Init
  <2> QED
    BY <2>1 DEF Init, KernelInit, Fifo!Init, StatusInv, Phase, PumpsOpen
<1>2. /\ TypeOK /\ TypeOK' /\ StatusInv /\ PumpsOpen /\ [Next]_vars
      => StatusInv' /\ PumpsOpen' /\ [Fifo!Next]_(Fifo!qvars)
  <2>1. StatusInv /\ UNCHANGED lifeVars => StatusInv'
    BY DEF StatusInv, lifeVars
  <2> QED
    BY <2>1, StatusStep, StatusUntouched, PumpsOpenStep, QueueStep
<1> QED
  BY <1>1, <1>2, SessionTyping, PTL DEF Spec, WriteQueueIsFifo, Fifo!Spec

-----------------------------------------------------------------------------
(* Session accounts for its bytes and keeps them.                             *)

(* The bytes one write hands to the kernel. *)
Taken(n) == SubSeq(outbound, write_offset + 1, write_offset + n)

LEMMA TakenBytes ==
    ASSUME TypeOK, NEW n \in 1..Least(budget.bytes, unsent)
    PROVE  /\ n \in Nat /\ n >= 1 /\ write_offset + n <= Len(outbound)
           /\ Taken(n) \in Seq(Byte) /\ Len(Taken(n)) = n
           /\ \A i \in 1..n : Taken(n)[i] = outbound[write_offset + i]
<1>1. /\ n \in Nat /\ n >= 1 /\ write_offset + n <= Len(outbound)
      /\ write_offset \in Nat /\ Len(outbound) \in Nat
  BY UnsentNat DEF Least, unsent
<1>2. \A i \in write_offset + 1 .. write_offset + n : outbound[i] \in Byte
  BY <1>1, ElementOfSeq DEF TypeOK
<1> DEFINE first == write_offset + 1
           last == write_offset + n
<1>3. /\ first \in Int /\ last \in Int /\ first <= last /\ last - first + 1 = n
      /\ \A i \in 1..n : first + i - 1 = write_offset + i
  BY <1>1
<1>4. \A i \in first .. last : outbound[i] \in Byte
  BY <1>2
<1> HIDE DEF first, last
<1>5. /\ SubSeq(outbound, first, last) \in Seq(Byte)
      /\ Len(SubSeq(outbound, first, last)) = n
      /\ \A i \in 1..n : SubSeq(outbound, first, last)[i] = outbound[first + i - 1]
  BY <1>3, <1>4, SubSeqProperties
<1> QED
  BY <1>1, <1>3, <1>5 DEF first, last, Taken

(* What the wire is after a write. *)
LEMMA WireGrows ==
    ASSUME TypeOK, NEW n \in 1..Least(budget.bytes, unsent), WriteOk(n)
    PROVE  /\ Len(wire) \in Nat /\ Len(wire') = Len(wire) + n
           /\ \A i \in 1..Len(wire) : wire'[i] = wire[i]
           /\ \A i \in 1..n : wire'[Len(wire) + i] = outbound[write_offset + i]
<1>1. wire \in Seq(Byte) /\ wire' = wire \o Taken(n) /\ Len(wire) \in Nat
  BY LenProperties DEF TypeOK, KernelTypeOK, WriteOk, Taken
<1>2. /\ n \in Nat /\ n >= 1
      /\ Taken(n) \in Seq(Byte) /\ Len(Taken(n)) = n
      /\ \A i \in 1..n : Taken(n)[i] = outbound[write_offset + i]
  BY TakenBytes
<1>3. /\ Len(wire') = Len(wire) + n
      /\ \A i \in 1 .. Len(wire) + n :
            wire'[i] = IF i <= Len(wire) THEN wire[i] ELSE Taken(n)[i - Len(wire)]
  BY <1>1, <1>2, ConcatProperties
<1>4. ASSUME NEW i \in 1..n PROVE wire'[Len(wire) + i] = outbound[write_offset + i]
  <2>1. /\ Len(wire) + i \in 1 .. Len(wire) + n /\ ~(Len(wire) + i <= Len(wire))
        /\ (Len(wire) + i) - Len(wire) = i
    BY <1>1, <1>2
  <2>2. wire'[Len(wire) + i] = Taken(n)[i]
    BY <1>3, <2>1
  <2> QED
    BY <1>2, <2>2
<1> QED
  BY <1>1, <1>2, <1>3, <1>4

-----------------------------------------------------------------------------
(* The counters of written bytes.                                             *)

PlacesIn(bytes, src) == {i \in 1..Len(bytes) : bytes[i].src = src}

LEMMA PlacesFinite ==
    ASSUME NEW bytes \in Seq(Byte), NEW src
    PROVE  IsFiniteSet(PlacesIn(bytes, src)) /\ Cardinality(PlacesIn(bytes, src)) \in Nat
<1>1. Len(bytes) \in Int /\ 1 \in Int
  BY LenProperties
<1>2. IsFiniteSet(1..Len(bytes))
  BY <1>1, FS_Interval
<1>3. PlacesIn(bytes, src) \in SUBSET (1..Len(bytes))
  BY DEF PlacesIn
<1>4. IsFiniteSet(PlacesIn(bytes, src))
  BY <1>2, <1>3, FS_Subset
<1> QED
  BY <1>4, FS_CardinalityType

(* What is no reply is input. *)
LEMMA TwoSources ==
    ASSUME NEW bytes \in Seq(Byte)
    PROVE  Cardinality(PlacesIn(bytes, "input")) = Len(bytes) - Cardinality(PlacesIn(bytes, "reply"))
<1> DEFINE all == 1..Len(bytes)
           replies == PlacesIn(bytes, "reply")
<1>1. Len(bytes) \in Nat /\ Len(bytes) \in Int /\ 1 \in Int
  BY LenProperties
<1>2. IsFiniteSet(all) /\ Cardinality(all) = Len(bytes)
  BY <1>1, FS_Interval
<1>3. \A i \in all : bytes[i].src \in {"input", "reply"}
  <2>1. \A i \in all : bytes[i] \in Byte
    BY ElementOfSeq
  <2> QED
    BY <2>1 DEF Byte
<1>4. PlacesIn(bytes, "input") = all \ replies /\ all \cap replies = replies
  BY <1>3 DEF PlacesIn
<1> HIDE DEF all, replies
<1>5. Cardinality(all \ replies) = Cardinality(all) - Cardinality(all \cap replies)
  BY <1>2, FS_Difference
<1> QED
  BY <1>2, <1>4, <1>5 DEF replies

(* How write_phase splits a span of n bytes: the overlap with the range.      *)
ReplyPart(n) ==
    Monus(pending_reply_unsent_len(write_offset), pending_reply_unsent_len(write_offset + n))

(* The overlap of the span behind `from` with a range, as places on a wire of  *)
(* length L: those behind Before and up to Until.                             *)
Before(L, from, start) == L + Greatest(from, start) - from
Until(L, from, n, end) == L + Least(from + n, end) - from
UnsentPart(from, start, end) == Monus(end, Greatest(from, start))

LEMMA Overlap ==
    ASSUME NEW L \in Nat, NEW from \in Nat, NEW n \in Nat, n >= 1, NEW start \in Nat, NEW end \in Nat,
           start < end
    PROVE  LET lo == Before(L, from, start)
               hi == Until(L, from, n, end)
               before == UnsentPart(from, start, end)
               after == UnsentPart(from + n, start, end)
           IN /\ lo \in Int /\ hi \in Int /\ lo >= L /\ hi <= L + n
              /\ \A i \in L + 1 .. L + n : start < from + (i - L) /\ from + (i - L) <= end
                                           <=> lo < i /\ i <= hi
              /\ before \in Nat /\ after \in Nat /\ after <= before /\ before - after <= n
              /\ before - after = IF lo + 1 > hi THEN 0 ELSE hi - lo
<1> DEFINE lo == Before(L, from, start)
           hi == Until(L, from, n, end)
           before == UnsentPart(from, start, end)
           after == UnsentPart(from + n, start, end)
<1>1. lo = IF from >= start THEN L ELSE L + start - from
  BY DEF Greatest, Before
<1>2. hi = IF from + n <= end THEN L + n ELSE L + end - from
  BY DEF Least, Until
<1>3. before = IF from >= start THEN (IF end >= from THEN end - from ELSE 0) ELSE end - start
  BY DEF Greatest, Monus, UnsentPart
<1>4. after = IF from + n >= start THEN (IF end >= from + n THEN end - (from + n) ELSE 0)
              ELSE end - start
  BY DEF Greatest, Monus, UnsentPart
<1> HIDE DEF lo, hi, before, after
<1>5. lo \in Int /\ hi \in Int /\ lo >= L /\ hi <= L + n
  BY <1>1, <1>2
<1>6. ASSUME NEW i \in L + 1 .. L + n
      PROVE  start < from + (i - L) /\ from + (i - L) <= end <=> lo < i /\ i <= hi
  <2>1. start < from + (i - L) <=> lo < i
    BY <1>1, <1>6
  <2>2. from + (i - L) <= end <=> i <= hi
    BY <1>2, <1>6
  <2> QED
    BY <2>1, <2>2
<1>7. before \in Nat /\ after \in Nat /\ after <= before /\ before - after <= n
  BY <1>3, <1>4
<1>8. before - after = IF lo + 1 > hi THEN 0 ELSE hi - lo
  <2>1. CASE from >= start
    BY <1>1, <1>2, <1>3, <1>4, <2>1
  <2>2. CASE from < start /\ from + n >= start
    BY <1>1, <1>2, <1>3, <1>4, <2>2
  <2>3. CASE from + n < start
    BY <1>1, <1>2, <1>3, <1>4, <2>3
  <2> QED
    BY <2>1, <2>2, <2>3
<1> QED
  BY <1>5, <1>6, <1>7, <1>8 DEF lo, hi, before, after

LEMMA ReplyPartCounts ==
    ASSUME TypeOK, ReplyRangeExact, NEW n \in 1..Least(budget.bytes, unsent), WriteOk(n)
    PROVE  /\ ReplyPart(n) \in 0..n
           /\ Cardinality(PlacesIn(wire', "reply")) = Cardinality(PlacesIn(wire, "reply")) + ReplyPart(n)
<1> DEFINE L == Len(wire)
           start == pending_reply_range.start
           end == pending_reply_range.end
           lo == Before(L, write_offset, start)
           hi == Until(L, write_offset, n, end)
           old == PlacesIn(wire, "reply")
           new == {i \in L + 1 .. L + n : wire'[i].src = "reply"}
<1>1. /\ n \in Nat /\ n >= 1 /\ write_offset + n <= Len(outbound)
      /\ write_offset \in Nat /\ Len(outbound) \in Nat /\ L \in Nat
      /\ wire \in Seq(Byte)
  BY TakenBytes, UnsentNat, WireGrows DEF TypeOK, KernelTypeOK
<1>2. read_paused => start \in Nat /\ end \in Nat /\ start < end
  BY DEF TypeOK, ReplyRange, read_paused, ReplyRangeExact
<1>3. ASSUME NEW i \in L + 1 .. L + n
      PROVE  wire'[i].src = "reply" <=>
                read_paused /\ start < write_offset + (i - L) /\ write_offset + (i - L) <= end
  <2> DEFINE j == i - L
  <2>1. j \in 1..n /\ i = L + j /\ write_offset + j \in write_offset + 1 .. Len(outbound)
    BY <1>1
  <2>2. wire'[i] = outbound[write_offset + j]
    BY <2>1, WireGrows
  <2> QED
    BY <2>1, <2>2 DEF ReplyRangeExact
<1>4. PlacesIn(wire', "reply") = old \cup new /\ old \cap new = {}
  BY <1>1, WireGrows DEF PlacesIn
<1>5. IsFiniteSet(old) /\ Cardinality(old) \in Nat
  BY <1>1, PlacesFinite
<1>6. IsFiniteSet(new) /\ Cardinality(new) = ReplyPart(n) /\ ReplyPart(n) \in 0..n
  <2>1. CASE ~read_paused
    <3>1. new = {} /\ ReplyPart(n) = 0
      BY <1>3, <2>1 DEF ReplyPart, pending_reply_unsent_len, Monus
    <3> HIDE DEF new
    <3>2. IsFiniteSet(new) /\ Cardinality(new) = 0
      BY <3>1, FS_EmptySet
    <3> QED
      BY <1>1, <3>1, <3>2
  <2>2. CASE read_paused
    <3> DEFINE before == UnsentPart(write_offset, start, end)
               after == UnsentPart(write_offset + n, start, end)
    <3>1. /\ lo \in Int /\ hi \in Int /\ lo >= L /\ hi <= L + n
          /\ \A i \in L + 1 .. L + n :
                start < write_offset + (i - L) /\ write_offset + (i - L) <= end <=> lo < i /\ i <= hi
          /\ before \in Nat /\ after \in Nat /\ after <= before /\ before - after <= n
          /\ before - after = IF lo + 1 > hi THEN 0 ELSE hi - lo
      <4>1. L \in Nat /\ write_offset \in Nat /\ n \in Nat /\ n >= 1 /\ start \in Nat /\ end \in Nat
            /\ start < end
        BY <1>1, <1>2, <2>2
      <4> HIDE DEF L, start, end
      <4>2. lo \in Int /\ hi \in Int /\ lo >= L /\ hi <= L + n
        BY <4>1, Overlap
      <4>3. \A i \in L + 1 .. L + n :
                start < write_offset + (i - L) /\ write_offset + (i - L) <= end <=> lo < i /\ i <= hi
        BY <4>1, Overlap
      <4>4. before \in Nat /\ after \in Nat /\ after <= before /\ before - after <= n
        BY <4>1, Overlap
      <4>5. before - after = IF lo + 1 > hi THEN 0 ELSE hi - lo
        BY <4>1, Overlap
      <4> QED
        BY <4>2, <4>3, <4>4, <4>5
    <3>2. new = lo + 1 .. hi
      <4> HIDE DEF lo, hi, before, after
      <4> QED
        BY <1>1, <1>3, <2>2, <3>1
    <3>3. /\ ReplyPart(n) = IF lo + 1 > hi THEN 0 ELSE hi - lo
          /\ ReplyPart(n) \in 0..n
      <4>1. ReplyPart(n) = Monus(before, after)
        BY <2>2 DEF ReplyPart, pending_reply_unsent_len, UnsentPart
      <4> HIDE DEF before, after, lo, hi
      <4> QED
        BY <1>1, <3>1, <4>1 DEF Monus
    <3> HIDE DEF new, lo, hi
    <3>5. IsFiniteSet(lo + 1 .. hi)
          /\ Cardinality(lo + 1 .. hi) = IF lo + 1 > hi THEN 0 ELSE hi - (lo + 1) + 1
      <4>1. lo + 1 \in Int /\ hi \in Int
        BY <3>1
      <4> QED
        BY <4>1, FS_Interval
    <3>6. hi - (lo + 1) + 1 = hi - lo
      BY <3>1
    <3> QED
      BY <3>2, <3>3, <3>5, <3>6
  <2> QED
    BY <2>1, <2>2
<1> HIDE DEF old, new
<1>7. Cardinality(old \cup new) = Cardinality(old) + Cardinality(new) - Cardinality(old \cap new)
  BY <1>5, <1>6, FS_Union
<1>8. Cardinality(old \cap new) = 0
  BY <1>4, FS_EmptySet
<1>9. Cardinality(PlacesIn(wire', "reply")) = Cardinality(old) + ReplyPart(n)
  <2>1. ReplyPart(n) \in Int
    BY <1>1, <1>6
  <2>2. Cardinality(old \cup new) = Cardinality(old) + ReplyPart(n) - 0
    BY <1>6, <1>7, <1>8
  <2>3. Cardinality(old) + ReplyPart(n) - 0 = Cardinality(old) + ReplyPart(n)
    BY <1>5, <2>1
  <2> QED
    BY <1>4, <2>2, <2>3
<1> QED
  BY <1>6, <1>9 DEF old

(* The counters of written bytes match the wire, input by what is left over.  *)
CountInv ==
    /\ counters.reply_bytes_written = Cardinality(PlacesIn(wire, "reply"))
    /\ counters.input_bytes_written + counters.reply_bytes_written = Len(wire)

LEMMA CountInit == Init => CountInv
<1> SUFFICES ASSUME Init PROVE CountInv
  OBVIOUS
<1>1. wire = <<>> /\ Len(wire) = 0
  BY EmptySeq DEF Init, KernelInit
<1>2. PlacesIn(wire, "reply") = {}
  BY <1>1 DEF PlacesIn
<1>3. Cardinality(PlacesIn(wire, "reply")) = 0
  BY <1>2, FS_EmptySet
<1> QED
  BY <1>1, <1>3 DEF Init, CountInv

(* No other step touches the wire or the counters of what is written.         *)
LEMMA OnlyWritesCount ==
    ASSUME TypeOK, [Next]_vars, ~\E n \in 1..Least(budget.bytes, unsent) : WriteOk(n)
    PROVE  /\ wire' = wire
           /\ counters'.reply_bytes_written = counters.reply_bytes_written
           /\ counters'.input_bytes_written = counters.input_bytes_written
<1>1. counters \in Counters
  BY DEF TypeOK
<1>2. CASE DecodeByte
  BY <1>1, <1>2 DEF DecodeByte, Counters, kernelVars
<1>3. CASE \E n \in 1..Least(budget.bytes, Len(pty_output)) : ReadOk(n)
  BY <1>1, <1>3 DEF ReadOk, Counters
<1>4. CASE \E n \in InputLens : EnqueueInput(n)
  BY <1>1, <1>4 DEF EnqueueInput, Counters, kernelVars
<1>5. CASE KernelStep
  BY <1>5 DEF KernelStep, sessionVars, ChildWrite, ChildRead, ChildExit, SlaveClose
<1>6. UNCHANGED <<wire, counters>> => UNCHANGED <<wire, counters.reply_bytes_written, counters.input_bytes_written>>
  OBVIOUS
<1> QED
  BY <1>2, <1>3, <1>4, <1>5, <1>6
     DEF Next, PumpStep, CallerStep, vars, sessionVars, kernelVars, SelectDirection, LeavePhase,
         FinishPump, WriteWouldBlock, WriteNothing, WriteGone, WriteError, ReturnWrite, DecodeDone,
         ReadWouldBlock, ReadInterrupted, ReadEof, ReadError, ReturnRead, BeginPump, Close, TryWait

LEMMA CountStep == RangeInv /\ CountInv /\ [Next]_vars => CountInv'
<1> SUFFICES ASSUME RangeInv, CountInv, [Next]_vars PROVE CountInv'
  OBVIOUS
<1>1. ASSUME NEW n \in 1..Least(budget.bytes, unsent), WriteOk(n) PROVE CountInv'
  <2>1. /\ counters' = [counters EXCEPT !.reply_bytes_written = @ + ReplyPart(n),
                                        !.input_bytes_written = @ + (n - ReplyPart(n))]
        /\ counters \in Counters
    BY <1>1 DEF WriteOk, ReplyPart, RangeInv, TypeOK
  <2>2. /\ ReplyPart(n) \in 0..n /\ n \in Nat /\ Len(wire) \in Nat /\ Len(wire') = Len(wire) + n
        /\ Cardinality(PlacesIn(wire', "reply")) = Cardinality(PlacesIn(wire, "reply")) + ReplyPart(n)
    BY <1>1, ReplyPartCounts, WireGrows, TakenBytes DEF RangeInv
  <2>3. /\ counters'.reply_bytes_written = counters.reply_bytes_written + ReplyPart(n)
        /\ counters'.input_bytes_written = counters.input_bytes_written + (n - ReplyPart(n))
        /\ counters.reply_bytes_written \in Nat /\ counters.input_bytes_written \in Nat
    BY <2>1 DEF Counters
  <2>a. /\ counters.reply_bytes_written = Cardinality(PlacesIn(wire, "reply"))
        /\ counters.input_bytes_written + counters.reply_bytes_written = Len(wire)
    BY Zenon DEF CountInv
  <2>4. counters'.reply_bytes_written = Cardinality(PlacesIn(wire', "reply"))
    BY <2>2, <2>3, <2>a, Zenon
  <2>5. counters'.input_bytes_written + counters'.reply_bytes_written = Len(wire')
    <3> DEFINE k == ReplyPart(n)
               r == counters.reply_bytes_written
               i == counters.input_bytes_written
    <3>1. k \in Nat /\ r \in Nat /\ i \in Nat /\ n \in Nat /\ i + r = Len(wire)
      BY <2>2, <2>3, <2>a
    <3>2. counters'.reply_bytes_written = r + k /\ counters'.input_bytes_written = i + (n - k)
          /\ Len(wire') = Len(wire) + n
      BY <2>2, <2>3, Zenon
    <3> HIDE DEF k, r, i
    <3> QED
      BY <3>1, <3>2
  <2> QED
    BY <2>4, <2>5 DEF CountInv
<1>2. CASE ~\E n \in 1..Least(budget.bytes, unsent) : WriteOk(n)
  BY <1>2, OnlyWritesCount DEF RangeInv, CountInv
<1> QED
  BY <1>1, <1>2

(* What is read is decoded or still buffered, through both compactions.        *)
LEMMA ReadCountStep == TypeOK /\ PumpsOpen /\ ReadBytesAccounted /\ [Next]_vars => ReadBytesAccounted'
<1> SUFFICES ASSUME TypeOK, PumpsOpen, ReadBytesAccounted, [Next]_vars, pty' = "Live"
             PROVE  counters'.pty_bytes_read = counters'.terminal_bytes_processed + buffered_read_len'
  BY DEF ReadBytesAccounted
<1> DEFINE read == counters.pty_bytes_read
           done == counters.terminal_bytes_processed
<1>1. /\ counters \in Counters /\ read \in Nat /\ done \in Nat /\ buffered_read_len \in Nat
      /\ read_buffer \in Seq(Output) /\ Len(read_buffer) \in Nat /\ read_offset \in Nat
  BY UnsentNat DEF TypeOK, Counters
<1>2. pty = "Live" => read = done + buffered_read_len
  BY DEF ReadBytesAccounted
<1>3. CASE DecodeByte
  <2>1. pty = "Live"
    BY <1>3 DEF DecodeByte, PumpsOpen
  <2>2. buffered_read_len' = buffered_read_len - 1
    BY <1>1, <1>3 DEF DecodeByte, buffered_read_len
  <2>3. counters'.pty_bytes_read = read /\ counters'.terminal_bytes_processed = done + 1
    BY <1>1, <1>3 DEF DecodeByte, Counters
  <2> QED
    BY <1>1, <1>2, <2>1, <2>2, <2>3
<1>4. ASSUME NEW n \in 1..Least(budget.bytes, Len(pty_output)), ReadOk(n)
      PROVE  counters'.pty_bytes_read = counters'.terminal_bytes_processed + buffered_read_len'
  <2>1. pty = "Live" /\ n \in Nat /\ n \in 1..Len(pty_output)
    <3>1. pty = "Live"
      BY <1>4 DEF ReadOk, ReadReady
    <3>2. budget.bytes \in Int /\ Len(pty_output) \in Nat
      BY UnsentNat
    <3> QED
      BY <3>1, <3>2 DEF Least
  <2>2. SubSeq(pty_output, 1, n) \in Seq(Output) /\ Len(SubSeq(pty_output, 1, n)) = n
    <3>1. pty_output \in Seq(Output) /\ Len(pty_output) \in Nat
      BY LenProperties DEF TypeOK, KernelTypeOK
    <3>2. 0 \in 0..Len(pty_output) /\ n \in 0..Len(pty_output)
      BY <2>1, <3>1
    <3>3. SubSeq(pty_output, 0 + 1, n) \in Seq(Output) /\ Len(SubSeq(pty_output, 0 + 1, n)) = n - 0
      BY <3>1, <3>2, Prefix
    <3> QED
      BY <2>1, <3>3
  <2>3. Len(read_buffer') = Len(compacted_buffer) + n /\ read_offset' = compacted_offset
    BY <1>4, <2>2, CompactedReadBuffer, ConcatProperties DEF ReadOk
  <2>4. buffered_read_len' = buffered_read_len + n
    <3>1. /\ compacted_buffer \in Seq(Output) /\ compacted_offset \in 0..Len(compacted_buffer)
          /\ Len(compacted_buffer) - compacted_offset = buffered_read_len
      BY CompactedReadBuffer
    <3>2. Len(compacted_buffer) \in Nat /\ compacted_offset \in Int
      BY <3>1, LenProperties
    <3>3. buffered_read_len' = (Len(compacted_buffer) + n) - compacted_offset
      BY <2>3 DEF buffered_read_len
    <3> QED
      BY <2>1, <3>1, <3>2, <3>3
  <2>5. counters'.pty_bytes_read = read + n /\ counters'.terminal_bytes_processed = done
    BY <1>1, <1>4 DEF ReadOk, Counters
  <2> QED
    BY <1>1, <1>2, <2>1, <2>4, <2>5
<1>5. ASSUME NEW n \in InputLens, EnqueueInput(n)
      PROVE  counters'.pty_bytes_read = counters'.terminal_bytes_processed + buffered_read_len'
  <2>1. counters'.pty_bytes_read = read /\ counters'.terminal_bytes_processed = done
    BY <1>1, <1>5 DEF EnqueueInput, Counters
  <2>2. pty = "Live" /\ buffered_read_len' = buffered_read_len
    BY <1>5 DEF EnqueueInput, lifeVars, readVars, buffered_read_len
  <2> QED
    BY <1>2, <2>1, <2>2
<1>6. ASSUME compact_read_buffer_if_needed, UNCHANGED <<pty, counters>>
      PROVE  counters'.pty_bytes_read = counters'.terminal_bytes_processed + buffered_read_len'
  <2>1. buffered_read_len' = buffered_read_len
    BY <1>6, CompactedReadBuffer DEF compact_read_buffer_if_needed, buffered_read_len
  <2> QED
    BY <1>2, <1>6, <2>1
<1>7. ASSUME UNCHANGED <<pty, counters, readVars>>
      PROVE  counters'.pty_bytes_read = counters'.terminal_bytes_processed + buffered_read_len'
  BY <1>2, <1>7 DEF readVars, buffered_read_len
<1>8. ASSUME NEW n \in 1..Least(budget.bytes, unsent), WriteOk(n)
      PROVE  counters'.pty_bytes_read = counters'.terminal_bytes_processed + buffered_read_len'
  <2>1. counters'.pty_bytes_read = read /\ counters'.terminal_bytes_processed = done
    BY <1>1, <1>8 DEF WriteOk, Counters
  <2>2. pty = "Live" /\ buffered_read_len' = buffered_read_len
    BY <1>8 DEF WriteOk, WriteReady, lifeVars, readVars, buffered_read_len
  <2> QED
    BY <1>2, <2>1, <2>2
<1>9. CASE Close
  BY <1>9 DEF Close
<1> QED
  BY <1>3, <1>4, <1>5, <1>6, <1>7, <1>8, <1>9
     DEF Next, PumpStep, CallerStep, KernelStep, vars, sessionVars, lifeVars, SelectDirection,
         LeavePhase, FinishPump, WriteWouldBlock, WriteNothing, WriteGone, WriteError, ReturnWrite,
         DecodeDone, ReadWouldBlock, ReadInterrupted, ReadEof, ReadError, ReturnRead, BeginPump,
         TryWait

(* Session's other invariants, together. *)
LEMMA SessionInvariants == Spec => [](RangeInv /\ StatusInv /\ PumpsOpen)
<1>1. Init => StatusInv /\ PumpsOpen
  BY DEF Init, StatusInv, Phase, PumpsOpen
<1>2. RangeInv /\ StatusInv /\ PumpsOpen /\ [Next]_vars => StatusInv' /\ PumpsOpen'
  <2>1. StatusInv /\ UNCHANGED lifeVars => StatusInv'
    BY DEF StatusInv, lifeVars
  <2> QED
    BY <2>1, StatusStep, StatusUntouched, PumpsOpenStep DEF RangeInv
<1> QED
  BY RangeInit, RangeStep, <1>1, <1>2, PTL DEF Spec

(* input_bytes_written and reply_bytes_written count exactly the bytes of     *)
(* their source on the wire, although a write may take the end of a reply and *)
(* the input behind it at once; and every byte read is decoded or buffered.   *)
THEOREM CountersTellTheTraffic == Spec => []BytesAccounted
<1>1. Init => ReadBytesAccounted
  BY EmptySeq DEF Init, ReadBytesAccounted, buffered_read_len
<1>2. RangeInv /\ PumpsOpen /\ ReadBytesAccounted /\ [Next]_vars => ReadBytesAccounted'
  BY ReadCountStep DEF RangeInv
<1>3. RangeInv /\ CountInv /\ ReadBytesAccounted => BytesAccounted
  <2> SUFFICES ASSUME RangeInv, CountInv, ReadBytesAccounted PROVE CountersMatchWire
    BY DEF BytesAccounted
  <2>1. wire \in Seq(Byte) /\ counters.reply_bytes_written \in Nat /\ counters.input_bytes_written \in Nat
    BY DEF RangeInv, TypeOK, KernelTypeOK, Counters
  <2>2. Cardinality(PlacesIn(wire, "input")) = Len(wire) - Cardinality(PlacesIn(wire, "reply"))
    BY <2>1, TwoSources
  <2>3. counters.input_bytes_written = Cardinality(PlacesIn(wire, "input"))
    BY <2>1, <2>2 DEF CountInv
  <2> QED
    BY <2>3 DEF CountInv, CountersMatchWire, WrittenFrom, PlacesIn
<1> QED
  BY SessionInvariants, CountInit, CountStep, <1>1, <1>2, <1>3, PTL DEF Spec

-----------------------------------------------------------------------------
(* EOF comes after the output.                                                *)

(* A read is only made with an empty buffer, and EOF only of a slave that is  *)
(* gone, after which nothing is written any more.                             *)
DrainedInv ==
    /\ pc = "read" /\ budget.bytes > 0 /\ ~read_paused => buffered_read_len = 0
    /\ ~WriteEio =>
          /\ phase = "Eof" => ~slave_open
          /\ phase = "Reaped" /\ pty = "Live" => ~slave_open
          /\ EofDrained

LEMMA BufferDry ==
    ASSUME TypeOK, DrainedInv, [Next]_vars, pc' = "read", budget'.bytes > 0, ~read_paused'
    PROVE  buffered_read_len' = 0
<1>1. CASE DecodeDone
  <2>1. budget' = budget /\ ~read_paused /\ ~CanDecode
    BY <1>1 DEF DecodeDone, queueVars, read_paused
  <2>2. ~(buffered_read_len > 0) /\ buffered_read_len \in Nat
    BY <2>1, UnsentNat DEF CanDecode
  <2>3. buffered_read_len' = buffered_read_len
    BY <1>1, CompactedReadBuffer DEF DecodeDone, compact_read_buffer_if_needed, buffered_read_len
  <2> QED
    BY <2>2, <2>3
<1>2. CASE UNCHANGED sessionVars
  BY <1>2 DEF DrainedInv, sessionVars, pumpVars, readVars, queueVars, read_paused, buffered_read_len
<1>3. pc' = "read" => DecodeDone \/ UNCHANGED sessionVars \/ pc = "read"
  BY DEF Next, PumpStep, CallerStep, KernelStep, vars, pumpVars, SelectDirection, EnterPhase,
       LeavePhase, FinishPump, EndPump, FailPump, WriteOk, WriteReady, WriteWouldBlock, WriteNothing,
       WriteGone, WriteError, ReturnWrite, DecodeByte, ReadOk, ReadWouldBlock, ReadInterrupted, ReadEof,
       ReadError, ReturnRead, BeginPump, EnqueueInput, Close, TryWait
<1>4. pc = "read" /\ pc' = "read" => UNCHANGED sessionVars
  BY DEF Next, PumpStep, CallerStep, KernelStep, vars, SelectDirection, EnterPhase,
       LeavePhase, FinishPump, EndPump, FailPump, WriteOk, WriteReady, WriteWouldBlock, WriteNothing,
       WriteGone, WriteError, ReturnWrite, DecodeByte, DecodeDone, ReadOk, ReadWouldBlock,
       ReadInterrupted, ReadEof, ReadError, ReturnRead, BeginPump, EnqueueInput, Close, TryWait
<1> QED
  BY <1>1, <1>2, <1>3, <1>4

Over == phase = "Eof" \/ (phase = "Reaped" /\ pty = "Live")

(* Once it is over nothing can come in, and only ReadEof starts it. *)
LEMMA OverStays ==
    ASSUME RangeInv, StatusInv, PumpsOpen, DrainedInv, [Next]_vars, ~WriteEio, Over'
    PROVE  ~slave_open' /\ pty_output' = <<>> /\ buffered_read_len' = 0
<1>1. buffered_read_len \in Nat
  BY UnsentNat DEF RangeInv
<1>2. Over => ~slave_open /\ pty_output = <<>> /\ buffered_read_len = 0
  BY DEF DrainedInv, EofDrained, Over
<1>3. CASE ReadEof
  <2>1. /\ pc = "read" /\ budget.bytes # 0 /\ ~read_paused /\ ~slave_open /\ pty_output = <<>>
        /\ UNCHANGED <<slave_open, pty_output>> /\ compact_read_buffer_if_needed
    BY <1>3 DEF ReadEof, ReadReady, Exhausted, kernelVars
  <2>2. buffered_read_len = 0
    BY <2>1, UnsentNat DEF DrainedInv, RangeInv
  <2>3. buffered_read_len' = buffered_read_len
    BY <2>1, CompactedReadBuffer DEF RangeInv, compact_read_buffer_if_needed, buffered_read_len
  <2> QED
    BY <2>1, <2>2, <2>3
<1>4. CASE Close
  BY <1>4 DEF Close, Over
<1>5. CASE TryWait
  <2>1. Over
    BY <1>5 DEF TryWait, Over, StatusInv
  <2> QED
    BY <1>2, <1>5, <2>1 DEF TryWait, readVars, buffered_read_len
<1>6. WriteGone => FALSE
  BY DEF WriteGone
<1>7. ASSUME ~ReadEof, ~Close, ~TryWait PROVE ~slave_open' /\ pty_output' = <<>> /\ buffered_read_len' = 0
  <2>1. UNCHANGED lifeVars
    BY <1>6, <1>7, StatusUntouched
  <2>2. Over /\ phase # "Live"
    BY <2>1 DEF Over, lifeVars
  <2>3. ~slave_open /\ pty_output = <<>> /\ buffered_read_len = 0 /\ ~(buffered_read_len > 0)
    BY <1>2, <2>2
  <2>4. CASE KernelStep
    BY <2>3, <2>4 DEF KernelStep, ChildWrite, ChildRead, ChildExit, SlaveClose, sessionVars,
       readVars, buffered_read_len
  <2>5. CASE compact_read_buffer_if_needed /\ UNCHANGED kernelVars
    <3>1. buffered_read_len' = buffered_read_len
      BY <2>5, CompactedReadBuffer DEF RangeInv, compact_read_buffer_if_needed, buffered_read_len
    <3> QED
      BY <2>3, <2>5, <3>1 DEF kernelVars
  <2>6. CASE UNCHANGED <<readVars, pty_output, slave_open>>
    BY <2>3, <2>6 DEF readVars, buffered_read_len
  <2>7. \/ KernelStep
        \/ compact_read_buffer_if_needed /\ UNCHANGED kernelVars
        \/ UNCHANGED <<readVars, pty_output, slave_open>>
    <3>1. ~DecodeByte /\ ~(\E n \in 1..Least(budget.bytes, Len(pty_output)) : ReadOk(n))
      BY <2>2, <2>3 DEF DecodeByte, CanDecode, ReadOk, ReadReady
    <3>2. ASSUME NEW n \in 1..Least(budget.bytes, unsent), WriteOk(n)
          PROVE  UNCHANGED <<readVars, pty_output, slave_open>>
      BY <3>2 DEF WriteOk
    <3>3. DecodeDone \/ ReadWouldBlock \/ ReadInterrupted \/ ReadError
            => compact_read_buffer_if_needed /\ UNCHANGED kernelVars
      BY DEF DecodeDone, ReadWouldBlock, ReadInterrupted, ReadError
    <3>4. SelectDirection \/ LeavePhase \/ FinishPump \/ WriteWouldBlock \/ WriteNothing \/ WriteError
            \/ ReturnWrite \/ ReturnRead => UNCHANGED <<readVars, kernelVars>>
      BY DEF SelectDirection, LeavePhase, FinishPump, WriteWouldBlock, WriteNothing, WriteError,
           ReturnWrite, ReturnRead
    <3>5. CallerStep => UNCHANGED <<readVars, kernelVars>>
      BY <1>7 DEF CallerStep, BeginPump, EnqueueInput
    <3>6. UNCHANGED vars => UNCHANGED <<readVars, kernelVars>>
      BY DEF vars, sessionVars
    <3>7. UNCHANGED <<readVars, kernelVars>> => UNCHANGED <<readVars, pty_output, slave_open>>
      BY DEF kernelVars
    <3>8. PumpStep => \/ compact_read_buffer_if_needed /\ UNCHANGED kernelVars
                      \/ UNCHANGED <<readVars, pty_output, slave_open>>
      BY <1>6, <1>7, <3>1, <3>2, <3>3, <3>4, <3>7 DEF PumpStep
    <3> QED
      BY <3>5, <3>6, <3>7, <3>8 DEF Next
  <2> QED
    BY <2>4, <2>5, <2>6, <2>7
<1> QED
  BY <1>3, <1>4, <1>5, <1>7

LEMMA DrainedStep == RangeInv /\ StatusInv /\ PumpsOpen /\ DrainedInv /\ [Next]_vars => DrainedInv'
<1> SUFFICES ASSUME RangeInv, StatusInv, PumpsOpen, DrainedInv, [Next]_vars PROVE DrainedInv'
  OBVIOUS
<1>1. pc' = "read" /\ budget'.bytes > 0 /\ ~read_paused' => buffered_read_len' = 0
  BY BufferDry DEF RangeInv
<1>2. ~WriteEio /\ Over' => ~slave_open' /\ pty_output' = <<>> /\ buffered_read_len' = 0
  BY OverStays
<1> QED
  BY <1>1, <1>2 DEF DrainedInv, EofDrained, Over

-----------------------------------------------------------------------------
(* Nothing accepted is lost, repeated or overtaken within its source.         *)

(* Numbered bytes joined at the end keep the order of their source.           *)
LEMMA OrderExtends ==
    ASSUME NEW bytes \in Seq(Byte), NEW fresh \in Seq(Byte), NEW src, NEW count \in Nat,
           InOrder(bytes, src, count),
           \A i \in 1..Len(fresh) : fresh[i].src = src /\ fresh[i].seq = count + i
    PROVE  InOrder(bytes \o fresh, src, count + Len(fresh))
<1> DEFINE all == bytes \o fresh
           L == Len(bytes)
           n == Len(fresh)
           old == {i \in 1..L : bytes[i].src = src}
           places == {i \in 1..Len(all) : all[i].src = src}
<1>1. /\ L \in Nat /\ n \in Nat /\ Len(all) = L + n
      /\ \A i \in 1 .. L + n : all[i] = IF i <= L THEN bytes[i] ELSE fresh[i - L]
  BY ConcatProperties, LenProperties
<1>2. /\ {bytes[i].seq : i \in old} = 1..count
      /\ \A i, j \in old : i < j => bytes[i].seq < bytes[j].seq
  BY DEF InOrder
<1> HIDE DEF all
<1>3. \A i \in 1..L : all[i] = bytes[i]
  BY <1>1
<1>4. ASSUME NEW i \in L + 1 .. L + n
      PROVE  all[i].src = src /\ all[i].seq = count + (i - L) /\ all[i].seq > count
  <2>1. i - L \in 1..n /\ ~(i <= L) /\ i \in 1 .. L + n
    BY <1>1
  <2>2. all[i] = fresh[i - L]
    BY <1>1, <2>1
  <2> QED
    BY <1>1, <2>1, <2>2
<1>5. places = old \cup (L + 1 .. L + n)
  BY <1>1, <1>3, <1>4
<1>6. \A i \in old : i \in 1..L /\ all[i] = bytes[i] /\ bytes[i].seq \in 1..count
  BY <1>2, <1>3
<1>7. {all[i].seq : i \in places} = 1 .. count + n
  <2>1. ASSUME NEW i \in places PROVE all[i].seq \in 1 .. count + n
    <3>1. CASE i \in old
      BY <1>1, <1>6, <3>1
    <3>2. CASE i \in L + 1 .. L + n
      BY <1>1, <1>4, <3>2
    <3> QED
      BY <1>5, <2>1, <3>1, <3>2
  <2>2. ASSUME NEW k \in 1 .. count + n PROVE \E i \in places : all[i].seq = k
    <3>1. CASE k <= count
      <4>1. k \in 1..count
        BY <3>1
      <4>2. PICK i \in old : bytes[i].seq = k
        BY <1>2, <4>1
      <4> QED
        BY <1>5, <1>6, <4>2
    <3>2. CASE k > count
      <4>1. L + (k - count) \in L + 1 .. L + n /\ count + ((L + (k - count)) - L) = k
        BY <1>1, <3>2
      <4>2. all[L + (k - count)].seq = k
        BY <1>4, <4>1
      <4> QED
        BY <1>5, <4>1, <4>2
    <3> QED
      BY <3>1, <3>2
  <2> HIDE DEF places
  <2> QED
    BY <2>1, <2>2
<1>8. ASSUME NEW i \in places, NEW j \in places, i < j PROVE all[i].seq < all[j].seq
  <2>1. CASE i \in old /\ j \in old
    BY <1>2, <1>6, <1>8, <2>1
  <2>2. CASE i \in old /\ j \in L + 1 .. L + n
    BY <1>4, <1>6, <2>2
  <2>3. CASE i \in L + 1 .. L + n /\ j \in L + 1 .. L + n
    BY <1>1, <1>4, <1>8, <2>3
  <2>4. CASE i \in L + 1 .. L + n /\ j \in old
    BY <1>1, <1>8, <2>4
  <2> QED
    BY <1>5, <2>1, <2>2, <2>3, <2>4
<1> QED
  BY <1>7, <1>8 DEF InOrder, all

(* Bytes of the other source do not matter. *)
LEMMA OrderIgnores ==
    ASSUME NEW bytes \in Seq(Byte), NEW fresh \in Seq(Byte), NEW src, NEW count \in Nat,
           InOrder(bytes, src, count),
           \A i \in 1..Len(fresh) : fresh[i].src # src
    PROVE  InOrder(bytes \o fresh, src, count)
<1> DEFINE all == bytes \o fresh
           L == Len(bytes)
           n == Len(fresh)
           old == {i \in 1..L : bytes[i].src = src}
           places == {i \in 1..Len(all) : all[i].src = src}
<1>1. /\ L \in Nat /\ n \in Nat /\ Len(all) = L + n
      /\ \A i \in 1 .. L + n : all[i] = IF i <= L THEN bytes[i] ELSE fresh[i - L]
  BY ConcatProperties, LenProperties
<1> HIDE DEF all
<1>2. \A i \in 1..L : all[i] = bytes[i]
  BY <1>1
<1>3. ASSUME NEW i \in L + 1 .. L + n PROVE all[i].src # src
  <2>1. i - L \in 1..n /\ ~(i <= L) /\ i \in 1 .. L + n
    BY <1>1
  <2>2. all[i] = fresh[i - L]
    BY <1>1, <2>1
  <2> QED
    BY <2>1, <2>2
<1>4. places = old
  BY <1>1, <1>2, <1>3
<1>5. \A i \in old : all[i] = bytes[i]
  BY <1>2
<1>6. {all[i].seq : i \in places} = {bytes[i].seq : i \in old}
  BY <1>4, <1>5
<1> HIDE DEF old, places
<1>7. \A i, j \in places : i < j => all[i].seq < all[j].seq
  <2>1. \A i, j \in old : i < j => bytes[i].seq < bytes[j].seq
    BY DEF InOrder, old
  <2> QED
    BY <1>4, <1>5, <2>1
<1> QED
  BY <1>6, <1>7 DEF InOrder, all, old, places

(* A write moves bytes from the queue to the wire and changes none of them.   *)
LEMMA WriteKeepsAll ==
    ASSUME TypeOK, TypeOK', NEW n \in 1..Least(budget.bytes, unsent), WriteOk(n)
    PROVE  AllBytes' = AllBytes
<1>1. /\ wire \in Seq(Byte) /\ Queued \in Seq(Byte) /\ Len(wire) \in Nat /\ Len(Queued) \in Nat
      /\ wire' \in Seq(Byte) /\ Queued' \in Seq(Byte)
  BY QueuedBytes, QueuedBytesNext, LenProperties DEF TypeOK, KernelTypeOK
<1>2. PICK k \in 1..Len(Queued) : /\ wire' = wire \o SubSeq(Queued, 1, k)
                                 /\ Queued' = SubSeq(Queued, k + 1, Len(Queued))
  BY WriteTransmits DEF Fifo!Transmit, Queued
<1> DEFINE front == SubSeq(Queued, 1, k)
           L == Len(wire)
           n2 == Len(Queued)
<1>3. /\ front \in Seq(Byte) /\ Len(front) = k /\ \A i \in 1..k : front[i] = Queued[i]
  <2>1. \A i \in 1..k : Queued[i] \in Byte
    BY <1>1, ElementOfSeq
  <2> QED
    BY <1>1, <2>1, SubSeqProperties
<1>4. /\ Len(Queued') = n2 - k /\ \A i \in 1 .. n2 - k : Queued'[i] = Queued[k + i]
  BY <1>1, <1>2, Suffix
<1> HIDE DEF front
<1>5. /\ Len(wire') = L + k
      /\ \A i \in 1 .. L + k : wire'[i] = IF i <= L THEN wire[i] ELSE front[i - L]
  BY <1>1, <1>2, <1>3, ConcatProperties DEF front
<1>6. /\ wire \o Queued \in Seq(Byte) /\ Len(wire \o Queued) = L + n2
      /\ \A i \in 1 .. L + n2 : (wire \o Queued)[i] = IF i <= L THEN wire[i] ELSE Queued[i - L]
  BY <1>1, ConcatProperties
<1>7. /\ wire' \o Queued' \in Seq(Byte) /\ Len(wire' \o Queued') = L + n2
      /\ \A i \in 1 .. L + n2 : (wire' \o Queued')[i] =
                                    IF i <= L + k THEN wire'[i] ELSE Queued'[i - (L + k)]
  <2>1. /\ wire' \o Queued' \in Seq(Byte) /\ Len(wire' \o Queued') = Len(wire') + Len(Queued')
        /\ \A i \in 1 .. Len(wire') + Len(Queued') : (wire' \o Queued')[i] =
               IF i <= Len(wire') THEN wire'[i] ELSE Queued'[i - Len(wire')]
    BY <1>1, ConcatProperties
  <2>2. (L + k) + (n2 - k) = L + n2
    BY <1>1, <1>2
  <2> QED
    BY <1>4, <1>5, <2>1, <2>2
<1>8. ASSUME NEW i \in 1 .. L + n2 PROVE (wire' \o Queued')[i] = (wire \o Queued)[i]
  <2>1. CASE i <= L
    BY <1>1, <1>5, <1>6, <1>7, <2>1
  <2>2. CASE i > L /\ i <= L + k
    <3>1. i - L \in 1..k /\ i \in 1 .. L + k /\ ~(i <= L)
      BY <1>1, <2>2
    <3> QED
      BY <1>3, <1>5, <1>6, <1>7, <2>2, <3>1
  <2>3. CASE i > L + k
    <3>1. i - (L + k) \in 1 .. n2 - k /\ k + (i - (L + k)) = i - L /\ ~(i <= L) /\ ~(i <= L + k)
      BY <1>1, <2>3
    <3>2. (wire' \o Queued')[i] = Queued'[i - (L + k)]
      BY <1>7, <3>1
    <3>3. Queued'[i - (L + k)] = Queued[i - L]
      BY <1>4, <3>1
    <3> QED
      BY <1>6, <3>1, <3>2, <3>3
  <2>4. i <= L \/ (i > L /\ i <= L + k) \/ i > L + k
    BY <1>1, <1>2
  <2> QED
    BY <2>1, <2>2, <2>3, <2>4
<1> HIDE DEF L, n2
<1>9. wire' \o Queued' = wire \o Queued
  BY <1>6, <1>7, <1>8, SeqEqual
<1> QED
  BY <1>9 DEF AllBytes, Queued

(* What joins the queue joins the end of everything accepted. *)
LEMMA JoinExtendsAll ==
    ASSUME TypeOK, TypeOK', NEW fresh \in Seq(Byte), outbound' = outbound \o fresh,
           UNCHANGED <<write_offset, wire>>
    PROVE  AllBytes' = AllBytes \o fresh
<1> DEFINE n == Len(fresh)
           L == Len(wire)
           q == Len(Queued)
<1>1. /\ wire \in Seq(Byte) /\ Queued \in Seq(Byte) /\ Queued' \in Seq(Byte)
      /\ L \in Nat /\ q \in Nat /\ n \in Nat
  BY QueuedBytes, QueuedBytesNext, LenProperties DEF TypeOK, KernelTypeOK
<1>2. /\ Len(outbound) \in Nat /\ write_offset \in 0..Len(outbound)
      /\ q = Len(outbound) - write_offset /\ unsent = q
  BY QueuedBytes, UnsentNat DEF TypeOK, unsent
<1>3. /\ Len(outbound') = Len(outbound) + n
      /\ \A i \in 1..Len(outbound) : outbound'[i] = outbound[i]
      /\ \A i \in 1..n : outbound'[Len(outbound) + i] = fresh[i]
  BY <1>1, QueueAppended DEF AppendedQueue, TypeOK
<1> HIDE DEF n, L, q
<1>4. unsent' = q + n /\ Len(Queued') = q + n
  <2>1. unsent' = (Len(outbound) + n) - write_offset
    BY <1>3 DEF unsent
  <2>2. (Len(outbound) + n) - write_offset = q + n
    BY <1>1, <1>2
  <2> QED
    BY <2>1, <2>2, QueuedBytesNext
<1>5. ASSUME NEW i \in 1 .. q + n
      PROVE  Queued'[i] = IF i <= q THEN Queued[i] ELSE fresh[i - q]
  <2>1. Queued'[i] = outbound'[write_offset + i]
    <3>1. i \in 1..unsent'
      BY <1>4
    <3> QED
      BY <3>1, QueuedBytesNext
  <2>2. CASE i <= q
    <3>1. write_offset + i \in 1..Len(outbound) /\ i \in 1..unsent
      BY <1>1, <1>2, <2>2
    <3> QED
      BY <1>3, <2>1, <2>2, <3>1, QueuedBytes
  <2>3. CASE ~(i <= q)
    <3>1. i - q \in 1..n /\ write_offset + i = Len(outbound) + (i - q)
      BY <1>1, <1>2, <2>3
    <3> QED
      BY <1>3, <2>1, <2>3, <3>1
  <2> QED
    BY <2>2, <2>3
<1>6. /\ AllBytes \in Seq(Byte) /\ Len(AllBytes) = L + q
      /\ \A i \in 1 .. L + q : AllBytes[i] = IF i <= L THEN wire[i] ELSE Queued[i - L]
  BY <1>1, ConcatProperties DEF AllBytes, Queued, L, q
<1>7. /\ AllBytes' \in Seq(Byte) /\ Len(AllBytes') = L + (q + n)
      /\ \A i \in 1 .. L + (q + n) : AllBytes'[i] = IF i <= L THEN wire[i] ELSE Queued'[i - L]
  <2>1. AllBytes' = wire \o Queued'
    BY DEF AllBytes, Queued
  <2>2. /\ wire \o Queued' \in Seq(Byte) /\ Len(wire \o Queued') = Len(wire) + Len(Queued')
        /\ \A i \in 1 .. Len(wire) + Len(Queued') : (wire \o Queued')[i] =
               IF i <= Len(wire) THEN wire[i] ELSE Queued'[i - Len(wire)]
    BY <1>1, ConcatProperties
  <2> QED
    BY <1>4, <2>1, <2>2 DEF L
<1>8. /\ AllBytes \o fresh \in Seq(Byte) /\ Len(AllBytes \o fresh) = (L + q) + n
      /\ \A i \in 1 .. (L + q) + n :
            (AllBytes \o fresh)[i] = IF i <= L + q THEN AllBytes[i] ELSE fresh[i - (L + q)]
  <2>1. /\ AllBytes \o fresh \in Seq(Byte) /\ Len(AllBytes \o fresh) = Len(AllBytes) + Len(fresh)
        /\ \A i \in 1 .. Len(AllBytes) + Len(fresh) : (AllBytes \o fresh)[i] =
               IF i <= Len(AllBytes) THEN AllBytes[i] ELSE fresh[i - Len(AllBytes)]
    BY <1>6, ConcatProperties
  <2> QED
    BY <1>6, <2>1 DEF n
<1>9. ASSUME NEW i \in 1 .. (L + q) + n PROVE AllBytes'[i] = (AllBytes \o fresh)[i]
  <2>0. i \in 1 .. L + (q + n)
    BY <1>1
  <2>1. CASE i <= L
    <3>1. i <= L + q /\ i \in 1 .. L + q
      BY <1>1, <2>1
    <3>2. AllBytes'[i] = wire[i] /\ AllBytes[i] = wire[i]
      BY <1>6, <1>7, <2>0, <2>1, <3>1
    <3> QED
      BY <1>8, <3>1, <3>2
  <2>2. CASE ~(i <= L) /\ i <= L + q
    <3>1. i - L \in 1 .. q + n /\ i - L <= q /\ i \in 1 .. L + q
      BY <1>1, <2>2
    <3>2. AllBytes'[i] = Queued[i - L]
      BY <1>5, <1>7, <2>0, <2>2, <3>1
    <3> QED
      BY <1>6, <1>8, <2>2, <3>1, <3>2
  <2>3. CASE ~(i <= L + q)
    <3>1. i - L \in 1 .. q + n /\ ~(i - L <= q) /\ (i - L) - q = i - (L + q) /\ ~(i <= L)
      BY <1>1, <2>3
    <3>2. AllBytes'[i] = fresh[i - (L + q)]
      BY <1>5, <1>7, <2>0, <3>1
    <3> QED
      BY <1>8, <2>3, <3>2
  <2> QED
    BY <2>1, <2>2, <2>3
<1>10. Len(AllBytes') = Len(AllBytes \o fresh)
  BY <1>1, <1>7, <1>8
<1> HIDE DEF AllBytes
<1>11. \A i \in 1..Len(AllBytes') : AllBytes'[i] = (AllBytes \o fresh)[i]
  BY <1>8, <1>9, <1>10
<1> QED
  BY <1>7, <1>8, <1>10, <1>11, SeqEqual

(* The steps that accept a byte number it as the next of its source. *)
LEMMA KeptStep == RangeInv /\ TypeOK' /\ StatusInv /\ PumpsOpen /\ NothingLost /\ [Next]_vars => NothingLost'
<1> SUFFICES ASSUME RangeInv, TypeOK', StatusInv, PumpsOpen, NothingLost, [Next]_vars,
                    pty' = "Live", ~WriteEio, NEW src \in {"input", "reply"}
             PROVE  InOrder(AllBytes', src, Accepted(src)')
  BY DEF NothingLost
<1>1. /\ TypeOK /\ counters \in Counters /\ AllBytes \in Seq(Byte)
      /\ Accepted("input") \in Nat /\ Accepted("reply") \in Nat /\ Accepted(src) \in Nat
  <2>1. TypeOK /\ wire \in Seq(Byte) /\ counters \in Counters
    BY DEF RangeInv, TypeOK, KernelTypeOK
  <2>2. AllBytes \in Seq(Byte)
    BY <2>1, QueuedBytes, ConcatProperties DEF AllBytes, Queued
  <2> QED
    BY <2>1, <2>2 DEF Accepted, Counters
<1>2. pty = "Live" => InOrder(AllBytes, src, Accepted(src))
  BY DEF NothingLost
<1>3. ASSUME NEW from \in {"input", "reply"}, NEW n \in Nat, pty = "Live",
             outbound' = outbound \o Fresh(from, Accepted(from), n),
             UNCHANGED <<write_offset, wire>>,
             Accepted(from)' = Accepted(from) + n,
             src # from => Accepted(src)' = Accepted(src)
      PROVE  InOrder(AllBytes', src, Accepted(src)')
  <2> DEFINE fresh == Fresh(from, Accepted(from), n)
  <2>1. fresh \in Seq(Byte) /\ Len(fresh) = n
    <3>1. Accepted(from) \in Nat /\ from \in Source /\ n \in Nat
      BY <1>1, <1>3 DEF Source
    <3> QED
      BY <3>1, FreshBytes
  <2>2. \A i \in 1..n : fresh[i].src = from /\ fresh[i].seq = Accepted(from) + i
    BY DEF Fresh
  <2> HIDE DEF fresh
  <2>3. AllBytes' = AllBytes \o fresh
    BY <1>1, <1>3, <2>1, JoinExtendsAll DEF fresh
  <2>4. CASE src = from
    <3>1. InOrder(AllBytes \o fresh, src, Accepted(src) + Len(fresh))
      <4>1. \A i \in 1..Len(fresh) : fresh[i].src = src /\ fresh[i].seq = Accepted(src) + i
        BY <2>1, <2>2, <2>4
      <4>2. InOrder(AllBytes, src, Accepted(src))
        BY <1>2, <1>3
      <4> QED
        BY <1>1, <2>1, <4>1, <4>2, OrderExtends
    <3> QED
      BY <1>3, <2>1, <2>3, <2>4, <3>1
  <2>5. CASE src # from
    <3>1. InOrder(AllBytes \o fresh, src, Accepted(src))
      <4>1. \A i \in 1..Len(fresh) : fresh[i].src # src
        BY <2>1, <2>2, <2>5
      <4>2. InOrder(AllBytes, src, Accepted(src))
        BY <1>2, <1>3
      <4> QED
        BY <1>1, <2>1, <4>1, <4>2, OrderIgnores
    <3> QED
      BY <1>3, <2>3, <2>5, <3>1
  <2> QED
    BY <2>4, <2>5
<1>4. CASE DecodeByte
  <2> DEFINE len == read_buffer[read_offset + 1]
  <2>1. /\ len \in Nat /\ pty = "Live"
        /\ outbound' = outbound \o Fresh("reply", Accepted("reply"), len)
        /\ UNCHANGED <<write_offset, wire>>
    BY <1>1, <1>4, DecodedLen DEF DecodeByte, PumpsOpen, Accepted, kernelVars
  <2>2. Accepted("reply")' = Accepted("reply") + len /\ Accepted("input")' = Accepted("input")
    BY <1>1, <1>4 DEF DecodeByte, Accepted, Counters
  <2> HIDE DEF len
  <2> QED
    BY <1>3, <2>1, <2>2
<1>5. ASSUME NEW n \in InputLens, EnqueueInput(n)
      PROVE  InOrder(AllBytes', src, Accepted(src)')
  <2>1. /\ n \in Nat /\ pty = "Live"
        /\ outbound' = outbound \o Fresh("input", Accepted("input"), n)
        /\ UNCHANGED <<write_offset, wire>>
    BY <1>5, SessionAssumption DEF EnqueueInput, Accepted, kernelVars, lifeVars
  <2>2. Accepted("input")' = Accepted("input") + n /\ Accepted("reply")' = Accepted("reply")
    BY <1>1, <1>5 DEF EnqueueInput, Accepted, Counters
  <2> QED
    BY <1>3, <2>1, <2>2
<1>6. ASSUME NEW n \in 1..Least(budget.bytes, unsent), WriteOk(n)
      PROVE  InOrder(AllBytes', src, Accepted(src)')
  <2>1. AllBytes' = AllBytes
    BY <1>1, <1>6, WriteKeepsAll
  <2>2. pty = "Live" /\ Accepted(src)' = Accepted(src)
    BY <1>1, <1>6 DEF WriteOk, WriteReady, Accepted, Counters
  <2> QED
    BY <1>2, <2>1, <2>2
<1>7. ASSUME UNCHANGED <<pty, outbound, write_offset, wire>>, UNCHANGED Accepted(src)
      PROVE  InOrder(AllBytes', src, Accepted(src)')
  <2>1. AllBytes' = AllBytes
    BY <1>7 DEF AllBytes
  <2> QED
    BY <1>2, <1>7, <2>1
<1>8. UNCHANGED counters => UNCHANGED Accepted(src)
  BY DEF Accepted
<1>9. CASE \E n \in 1..Least(budget.bytes, Len(pty_output)) : ReadOk(n)
  <2>1. UNCHANGED Accepted(src)
    BY <1>1, <1>9 DEF ReadOk, Accepted, Counters
  <2> QED
    BY <1>7, <1>9, <2>1 DEF ReadOk, lifeVars, queueVars
<1>10. ~WriteGone /\ ~Close
  BY DEF WriteGone, Close
<1>11. KernelStep => UNCHANGED <<pty, outbound, write_offset, wire, counters>>
  BY DEF KernelStep, sessionVars, lifeVars, queueVars, ChildWrite, ChildRead, ChildExit, SlaveClose
<1> QED
  BY <1>4, <1>5, <1>6, <1>7, <1>8, <1>9, <1>10, <1>11
     DEF Next, PumpStep, CallerStep, vars, sessionVars, lifeVars, queueVars, kernelVars,
         SelectDirection, LeavePhase, FinishPump, WriteWouldBlock, WriteNothing, WriteError,
         ReturnWrite, DecodeDone, ReadWouldBlock, ReadInterrupted, ReadEof, ReadError, ReturnRead,
         BeginPump, TryWait

(* While the session is open and writes to a gone slave do not fail, every    *)
(* byte of input and reply is on the wire or queued once, in the order of its *)
(* source; and EOF is reported only when the output is read and decoded.      *)
THEOREM OpenSessionKeepsTraffic == Spec => [](~WriteEio => TrafficKept)
<1>1. Init => DrainedInv /\ NothingLost
  <2> SUFFICES ASSUME Init PROVE DrainedInv /\ NothingLost
    OBVIOUS
  <2>1. DrainedInv
    BY DEF Init, DrainedInv, EofDrained
  <2>2. /\ wire = <<>> /\ outbound = <<>> /\ write_offset = 0 /\ Len(outbound) = 0
        /\ \A src \in {"input", "reply"} : Accepted(src) = 0
    BY EmptySeq DEF Init, KernelInit, Accepted
  <2>3. SubSeq(outbound, write_offset + 1, Len(outbound)) = <<>>
    BY <2>2, EmptySeq, SubSeqEmpty
  <2>4. AllBytes = <<>> \o <<>>
    BY <2>2, <2>3 DEF AllBytes
  <2>5. Len(AllBytes) = 0
    BY <2>4, EmptySeq, ConcatProperties
  <2>6. \A src \in {"input", "reply"} : InOrder(AllBytes, src, Accepted(src))
    BY <2>2, <2>5 DEF InOrder
  <2> QED
    BY <2>1, <2>6 DEF NothingLost
<1>2. RangeInv /\ StatusInv /\ PumpsOpen /\ DrainedInv /\ [Next]_vars => DrainedInv'
  BY DrainedStep
<1>3. RangeInv /\ RangeInv' /\ StatusInv /\ PumpsOpen /\ NothingLost /\ [Next]_vars => NothingLost'
  BY KeptStep DEF RangeInv
<1>4. DrainedInv /\ NothingLost => (~WriteEio => TrafficKept)
  BY DEF DrainedInv, NothingLost, TrafficKept
<1> QED
  BY SessionInvariants, <1>1, <1>2, <1>3, <1>4, PTL DEF Spec
=============================================================================
