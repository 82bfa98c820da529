# A verification development for termnix

termnix is a Unix library of three parts: the pseudo-terminal of a child
process, an I/O-free terminal emulator, and a `Session` that joins the two and
is driven from the caller's poll loop. This directory holds TLA+ modules of
those parts, TLC configurations that check them on small instances, and proofs
for TLAPS. Paths below are those of the repository (`src/session.rs` and so on).

## Inventory

| Component | State | Operations | What is hard |
|---|---|---|---|
| **Session I/O** (`session.rs`) | read buffer and offset, write queue and offset, pending reply range, direction, two WouldBlock flags, counters, phase | `pump_io` (`write_phase`, `read_phase`, `decode_buffered`, `decode_byte`), `enqueue_input`, `close`, `needs_pump`, `interests` | partial writes, two compaction rules, EINTR, EIO and other errors in mid-phase, a budget that ends anywhere, the pause of decoding, readiness edges |
| **Lifecycle** (`session.rs`, `pty.rs`) | phase, cached status, `ClosingState`, observed exit, remembered error | `try_wait`, `wait`, `close`, `terminate`, `force_terminate`, `shutdown`, `Drop` | EOF and exit in either order, other waiters, pid reuse, errors between two system calls, blocking cleanup |
| **Screen** (`terminal_buffer.rs`) | cells, dirty flag | put, erase, insert and delete of columns and lines, scrolls, `resize` | halves of wide glyphs, which rows a shrink keeps |
| **Emulator** (`terminal.rs`, `terminal_emu.rs`, `terminal_types.rs`) | two screens, cursor, saved cursor, pen, modes, scroll region, title, replies, history, hyperlink counter | one handler per control sequence; `feed`, `resize`, `trim_scrollback`, `dequeue_event`, `advance_reply_bytes` | long sequences of legal calls: save here, resize, restore there; state shared by the two screens; u16 arithmetic |
| **Event channel** (`terminal.rs`) | four merged flags, payload queue | mark, push, `clear_requests`, `next` | an event lost, or raised for nothing, between two drains |
| **Input encoding** (`input.rs`) | none | keys, pastes, mouse events and colour reports to bytes | mode-dependent forms, two mouse encodings, what the child can tell apart |
| **Payloads** (`terminal_emu.rs`) | none | SGR and its colours, OSC 4, 10 to 12 and 52, base64 | malformed values between good ones, the loop that consumes a variable number of them |
| **Spawning** (`pty.rs`, `Session::new`) | descriptors here and in the child | `open_pty_pair`, the fcntl helpers, `setup_child_session`, `Command::spawn`, reclaiming | a failure after any call, numbers of closed standard streams |
| **Interactive example** (`examples/tuinix.rs`) | two sessions, selection, held key, dirty flag, rotation | reap, deliver, drain, draw, take input, poll | a budget tested between passes, a busy session beside a quiet one, a key held across iterations |
| **Headless example** (`examples/headless.rs`) | a session and a script | poll, pump, reap | |

How they interact: the caller's loop calls `pump_io`; `pump_io` reads and writes
the master, feeds each byte it read to the emulator (`TerminalState::feed`), and
moves the reply the emulator made, if any, to the end of the write queue. The
caller drains events from the emulator and reads its screen and history; it
polls the child through the session and cleans up with `shutdown` or `Drop`.
The interactive example does so for two sessions and a host terminal at once.
Everything is single-threaded; the kernel and the children run beside it.

What makes each part correct:

- Session I/O: bytes of the two sources share one FIFO and none is lost,
  repeated or overtaken; a reply stops decoding until it is out and no longer;
  a blocked caller is woken for whatever can be done.
- Lifecycle: the status a caller sees is the child's; a signal never reaches a
  stranger; no status is dropped on an error path; cleanup leaves no zombie, and
  returns unless its kill was refused and the child runs on.
- Screen and emulator: the cursor and the region are on the screen; a wide glyph
  is whole; the history is exactly what left the primary screen at the top; the
  alternate screen gives the primary back.
- Spawning: child and parent hold the ends of the pty they are meant to, and a
  failure leaves no descriptor and no child.
- Conversions: the child reads what the host meant and the terminal what the
  child meant; a malformed value spoils nothing beside itself.
- Interactive example: keys go where they were typed, no session waits for
  another, the host is brought up to date, the loop ends.
- Event channel: a caller that acts on events is never out of date once the
  channel is empty.

## Modules

| Module | Models | Notes |
|---|---|---|
| `KernelPty` | the kernel's two queues and the slave side | external, from how `session.rs` uses it |
| `Session` | `Session`'s I/O | one step per syscall and per decoded byte |
| `WriteQueue` | abstract FIFO of accepted bytes | implemented by `Session` (`WriteQueueIsFifo`) |
| `SessionStatus` | abstract lifecycle of `status()` and `exit_status()` | implemented by `Session` and by `Lifecycle` (`StatusFollowsLifecycle`) |
| `EventLoop` | the loop documented in `session.rs`, around `Session` | edge-triggered poller, the weakest one |
| `KernelProcess` | the child, its group, its pid | external, from how `pty.rs` uses it |
| `Lifecycle` | the process side of `Session`, `PtyProcess`, `ClosingPtyProcess` | one step per system call |
| `Screen` | `Screen` of `terminal_buffer.rs` | operators on rows and screens |
| `Events` | `Events` of `terminal.rs` | operators on the channel |
| `Terminal` | `TerminalState` and its `Perform` handlers, and a caller | one action per control sequence |
| `Spawn` | `PtyProcess::spawn` and `Session::new`, in front of `Lifecycle` | one step per system call, on both sides of the fork |
| `InputEncoding` | `Input::write_to` | operators from events to control sequences |
| `ControlPayloads` | `handle_sgr` and the OSC handlers | operators on lists of numbers and fields |
| `Conversions` | samples for the two modules above, and what their results have to be | one sample after another |
| `Multiplexer` | `App` and `run_loop` of `tuinix.rs`, with two children and a user | level-triggered poll; one step per part of an iteration |
| `MCSession`, `MCEventLoop`, `MCLifecycle`, `MCTerminal`, `MCMultiplexer`, `MCConversions` | constants for TLC | |
| `Recursion` | induction over a set of numbers and along a recursive function | lemmas for the modules below |
| `SessionProofs` | theorems about `Session` | typing, reply range, pauses, the two refinements, the bytes |
| `EventLoopProofs` | theorems about `EventLoop` | |
| `LifecycleProofs` | theorems about `Lifecycle` and `Spawn` | |
| `TerminalProofs`, `TerminalContentProofs` | theorems about `Terminal` | cursor and region, events and pending wraps; then cells, history, hyperlinks, the two screens and resizes |
| `MultiplexerProofs` | theorems about `Multiplexer` | |
| `ConversionsProofs` | theorems about `Conversions` | |

An operator whose name ends in an underscore and a word (`note_eof_ForgetsExit`)
and whose comment starts with "Mutant:" is no part of a model: it is a plausible
mistake in the definition after it, kept to see that a property notices.

### Session

`pump_io` borrows the session, so the caller's calls happen only while `pc` is
`"idle"`; inside a pump, the kernel and the child move between any two
syscalls. The variables are the fields of `Session`, and `pc`, `budget`, `dir`,
`round` and `progressed` are the locals of `pump_io` and of the running phase.
`SelectDirection` and `LeavePhase` are the head and the tail of the loop of
`pump_io`; the arms of each `match result` are one action each. `FailPump` is
`?`: it leaves out what stands behind it, as the code does.

A byte of child output is abstracted to the length of the reply it completes,
which is all the session looks at. A byte of the write queue carries its source
and its number in that source, so that a property can tell a lost byte from a
repeated one. `WriteEio` chooses between kernels that fail a write to a gone
slave with EIO and those that swallow it.

### EventLoop

`PumpOnce`, `PumpAgain` and `Block` are the three statements of the documented
loop. An edge is consumed when poll returns it and is raised again only by a new
transition in the kernel: a level-triggered poller can only wake more often.

### Lifecycle

I/O is one event, `NoteEof`. `call` is the call in progress between two of its
system calls (`waitid` then `wait` in `try_wait`; the blocking `wait` of `wait`,
`shutdown` and `Drop`). `stranger_hit` records that a signal was sent to a group
that is not the session's. Every behaviour has one set of `faults`, chosen at
the start from the constant `Faults`: transient errors, a `waitid` that
misreports, another waiter, a `kill` that may be refused. The properties that a
fault excludes ask for its absence in their text (`CanWait`, `CanReturn`), so that
one run covers all.

`kill` is refused (EPERM) for a child that changed its uid, and a success may mean
another member of the group only. `signal_group` returns the error;
`shutdown` and `Drop` ignore it (`session.rs:922`, `1248`) and go on to the
blocking `wait`. They then block for as long as the child runs, and
`CleanupReturns` says no more than the code gives: they return if no kill can be
refused, or one got through, or once the child has ended by itself.

### Spawn

A descriptor table for this process and one for the child, from `openpty` to
`exec`; the kernel's rule that a new descriptor takes the lowest free number is
what makes the `> 2` tests of `setup_child_session` matter, so the caller may
start with one of its standard streams closed. Any step may fail. The child's
own failure is reported through `Command::spawn`, which reaps it. After a
failed `set_nonblocking`, `Session::new` runs the same calls as `shutdown`, so
`Reclaim` is `Lifecycle`'s `Shutdown`. Once spawned, each step of `Lifecycle`
also moves the descriptors.

### InputEncoding, ControlPayloads, Conversions

A control sequence is its introducer, its numbers and its final byte; a field of
an OSC is its kind (number, colour, question mark) and its digits, and a
character of a base64 payload its value. Decimal and hexadecimal digits, scaling
and the eight-bit regrouping are computed as the code does. The reference
definitions are of another kind than the code: `Seen` reads a mouse report as
the child does, `PenFollowsSgr` applies each command on its own, and
`ClipboardExact` takes bits from the payload as one stream. Pastes and raw bytes,
which are copied, are left out. What a sample may be is `ConversionsAssumption`:
keys as `Key` has them (a character is printable, the others have names), channels
and palette entries that fit a byte, and SGR commands that are whole, each with
the fields of the pen that the standard says it sets.

### Multiplexer

Each part of an iteration of `run_loop` is a step, each pass of `drain_runnable`
and each input of a batch one of its own; children, user and timer move in
between. Of a session only what the loop asks about is kept, with one pump as
one step: `Session` has its inside. The queue remembers for which session a key
was typed. `budget` is the local of `drain_runnable`, and the pass subtracts
what it pumped at its end, when the code tests it. `pump_cursor` cannot be told
apart (the pumps of two sessions are independent) and is left out. `screen`
joins the dirty flag with what the host shows. The process poll is due
at any `Top` and at the latest infinitely often.

### Screen, Events, Terminal

A terminal is a record whose fields are those of `TerminalState`. A handler is
an operator from terminal to terminal, since handlers call one another
(`print_char` calls `carriage_return` and `line_feed`, which scrolls, which adds
to the history and marks an event); an action applies one handler to parameters
from `Params`. `Handle` also does what `feed` does before its first byte (the
snapshot), and `EndFeed` what it does after its last. Tokenizing is left to the
vte crate: `Repertoires` holds the sets of sequences that a behaviour sends, one of
which it chooses at the start and keeps. A cell keeps its
character, width, hyperlink and one other attribute; a reply is its length.
`target_row` keeps the u16 wrap-around of the release build (a debug build
panics there); every other sum stays far below 2^16 or saturates in the code.

`caller` is what a caller knows who acts on events: what it drew, the history
and title it last read, the hyperlinks it was told of. `left` remembers the
cursor and pen the primary screen was left with. Neither feeds back.

Abstractions on purpose: `enqueue_input` has the length of the encoded input,
not its bytes; the u64 counters do not saturate (2^64 bytes); in `Terminal` SGR
colours are one attribute and an OSC request is one payload, with the parsing of
both in `ControlPayloads`; the `vte` framing is outside.

## Runs

All "pass" runs are exhaustive within their bounds. Behaviours end where a bound
is reached or a session is spent, so deadlock is no error, but in `conversions`.

| Run | Question | Bounds and why they are enough |
|---|---|---|
| `session_faults` | Do range, counters and queue survive every error? | budgets that end before the first byte, in the middle of a phase, and never; replies of 3 bytes, thresholds of 2, kernel queues of 2: a reply always takes several writes, and compaction happens before, inside and behind it; 2 bytes in, 2 out give two replies and input on either side |
| `event_loop` | Is a wake-up lost, does everything get out, does the loop rest next to a child that stopped reading? | no errors and a kernel that swallows writes to a gone slave, so that nothing may be lost; kernel input queue of 1, so every write fills it |
| `lifecycle` | descriptors, signals, statuses, ownership, cleanup | two exit statuses (a report can be wrong), every set of faults, a refused kill among them, every interleaving of child, group, pid allocation and another waiter, each step of the spawn failing; five descriptors, of which one standard stream may be closed |
| `terminal_glyphs` | wide glyphs, pending wraps, cursor and region on the screen | 3x1, 1x3 and 2x2: a region smaller than the screen, a wide glyph with a cell beside it, one that is cut by the next size; parameters 0 to 2: the default, the first and the second row or column, the rest being a few steps away |
| `terminal_history` | the history, what is said of it, and the text through a resize | 3x1 and 1x2: each resize changes both dimensions, a shrink displaces up to two rows; two lines of history, trims by lines, by cells and to nothing |
| `terminal_repaint` | events on the primary screen | 1x2 and 2x1, two sequences per feed: a change and its undoing in one feed |
| `terminal_alternate` | the two screens, hyperlink ids | 3x1 and 2x1: screens of different content shift differently; three repertoires, one of them with two hyperlink ids, so that the counter wraps and a saved cursor may carry one through a reset |
| `multiplexer` | keys, budget, starvation, redrawing, the end | one key, which is as long as the write limit, so the second is held; a budget of two passes, so that it runs out and also ends odd; two inputs a batch |
| `conversions` | encodings and payloads | every key and every pair of keys in every mode, all mouse events at cells on both sides of 223 and at the end of u16; three SGR commands, with colours whose numbers are commands; lists of five fields, six characters and five digits around each boundary |

Where a module is too wide for one instance, each run sends the sequences its
properties are about; every handler is sent in one of the passing runs.
Insert and delete of characters are left out of `terminal_glyphs`, because they
split wide glyphs (see below); `WrapOnlyAtEdge` exempts a pending wrap that
`DECRC` brought back, since one saved before a resize can be restored off the
edge, which no text excludes. `ReturnRestores` is about a child that uses neither
`DECSC` nor origin mode: the first shares its saved cursor with mode 1049, as in
xterm, and the second bounds a restored cursor by a scroll region that the two
screens share. `ResizeKeepsText` asks for every glyph in its row and its column, of
the primary screen while it is the one shown, and if the screen gets no narrower. The alternate screen is left out of `terminal_repaint` and
`terminal_history` for what is said about it below; `terminal_alternate` covers
it.

### Runs that end in a counterexample

Each states a sentence of the repository that the code does not keep; the
sentence and the lines are quoted in `PROJECT.json`.

| Run | What happens |
|---|---|
| `session_close_after_reap` | the child is reaped before EOF, then `close()`: the status stays `Closing` for good, `Reaped` is never reached |
| `lifecycle_pid` | the child is reaped with the master open; `child_pid()` still reports the number, which may be reused |
| `terminal_stale_alternate` | on the alternate screen an erase leaves the cursor where it is: no `ScreenUpdated` |

### Disagreements without a run

Met while modelling and left out of the runs above; the models show each when
the run is widened as said.

- `terminal_buffer.rs:233-263`: inserting and deleting characters rotate the row
  without clearing the other half of a wide glyph they cut, against the `width`
  of `terminal_types.rs:190-191` (`PairsWhole`, with `ICH` or `DCH`). `write_grid` of `tuinix.rs` returns an error
  for such a row.
- `session.rs:1068-1080`: EIO on a write notes EOF while output is unread, against
  "remaining output drained" in `session.rs:245` (`EofDrained`, part of `TrafficKept`, with `WriteEio`).
- `session.rs:521-522`: a budget of one syscall clears both WouldBlock flags and
  can set one, so next to a child that does not read the drain loop of the
  documentation spins (`DrainTerminates`, with that budget).
- `session.rs:558-562`: the last byte of work may use up the budget, and the pump
  counts as exhausted although `needs_pump()` is false, against `session.rs:208-209`.
- `terminal.rs:637-641`: a shrink while the alternate screen is shown drops the
  rows it displaces from the primary, against `terminal.rs:613-614`
  (`ResizeKeepsText`, with mode 1047).
- `terminal_emu.rs:407`: a reset clears the title and raises `TerminalReset` only,
  against `terminal_types.rs:531`. `TitleReported`, part of `CallerUpToDate`, counts
  either event.
- `pty.rs:577-578`: "`slave_fd` is distinct from 0/1/2" holds when the caller has
  closed at most one of its standard streams; with two, `dup2` onto itself keeps
  FD_CLOEXEC and the child loses that stream in `exec` (`ChildHoldsStdioOnly`, with
  two closed in `SpawnInit`).
- `terminal_emu.rs:155-158`: a clipboard payload whose first character is `+`, a
  letter of the base64 alphabet, is read as an append of the rest, which is then
  decoded out of step, against `terminal_emu.rs:909-911` (`ClipboardExact` takes
  the prefix as the code does).
- `terminal_emu.rs:790-803`: the numbers of a colour that is not understood (`38;5;300`)
  are read as commands, and so are colon subparameters (`4:3`): `PenFollowsSgr`
  sends complete colours only.
- `tuinix.rs:338`: a second key of the same batch takes the place of the one held, against
  `tuinix.rs:58` ("holds the key when above this"); a shorter key may overtake it.
- `tuinix.rs:844-847`: "Rendering is skipped unless the selected session's screen is
  dirty", but `apply_resize` marks it in every iteration (277-289). This is also what
  redraws after `reap_finished` moves the selection, which marks nothing
  (`HostCatchesUp`, with the mutant).
- `tuinix.rs:22-25`: Ctrl+Q and Ctrl+T are not heard while a key is held (`AppEnds` says so).
- `terminal_emu.rs:617`: ED 3 empties the history with no event, so places in it
  go stale without the trim that `terminal.rs:565-572` speaks of.

## Fairness

`LoopSpec` assumes that one thread runs the loop: a pump that began goes on, the
loop's own statements happen, poll returns when it has an edge, `try_wait` is
polled. The code is that thread. `ChildReadFairness` assumes a slave side that
reads what it is sent while it is open; `QueueDrains` and `OutputDecoded` need
it and state it as their hypothesis, since a child that never reads holds its
reply back, and decoding with it. `LoopSpec` itself leaves it out: nothing
forces the child to read, write, exit or close.
`Lifecycle` assumes that the caller polls, that a blocked wait
returns when it can, and that a child SIGKILL reached dies; SIGTERM and a refused
SIGKILL promise nothing. `Spawn` adds that `new` goes on.
`Multiplexer` assumes that the loop goes on and, as strong fairness, that the
50 ms of the process poll pass between some of the iterations: the timer is
compared to the clock, so no schedule of the loop can keep it from being due.
Children and user are under no obligation.

## Proofs

`tlapm` checks 34 theorems and the lemmas they rest on. They hold for every
value of the constants that satisfies the named assumptions
(`KernelAssumption`, `SessionAssumption`, `ProcessAssumption`,
`TerminalAssumption`, `MultiplexerAssumption`, `ConversionsAssumption`). Every
invariant and every action property of the passing runs is among them.

- `SessionTyping`: `Spec => []TypeOK`. `TypeOK` says that both offsets lie
  in their buffers, which is what slices and subtractions of the code rely on,
  and it is inductive. One lemma per group of actions; the lemmas of
  compaction carry the arithmetic.
- `RangeNeverDrifts`: `Spec => []ReplyRangeSound`, which is `ReplyRangeExact` and
  `PausedHasWork`. Neither
  conjunct is inductive alone: `PausedHasWork` rests on a range that ends within
  the queue and is not yet written, and exactness on a queue that holds at most
  one reply, which in turn rests on decoding being paused while there is one.
  The invariant of the proof, `RangeInv`, is their conjunction with `TypeOK`.
- `PauseEndsInTime`: `Spec => [](~IoErrors => PauseEndsWithReply)`: no write may fail with
  an error other than EIO. The pause is lifted in two places, at the
  head of `pump_io` and at the end of `write_phase`; the invariant follows the
  phases and says which of the two is still ahead. An error leaves
  `write_phase` by `?` past the second, and the pause then lasts until the next
  pump, so the hypothesis is needed.
- `CountersTellTheTraffic`: `Spec => []BytesAccounted`. A byte of the wire carries its
  source, so the counters are numbers of places in a sequence; the lemmas
  count the places of a sequence that is joined, cut or moved by compaction.
  The written range and the pending reply range overlap in an interval,
  whose length is what `WriteOk` adds to the reply counter.
- `OpenSessionKeepsTraffic`: `Spec => [](~WriteEio => TrafficKept)`: the wire and the
  queue together hold, source by source, the numbers from 0 on, each once and in
  order. If writes to a gone slave fail, the property is false (see Disagreements).
- `LoopRunsSession`: every behaviour of `LoopSpec` is one of `Session`'s `Spec`, so
  the theorems above hold of the documented loop as well.
- `NoWakeupIsLost`: `LoopSpec => []NoLostWakeup`. The invariant `WakeInv` ties each
  of the two WouldBlock flags to the kernel queue it speaks of: outside of a
  pump, if the call that blocked could go on by now, its edge is raised. It adds
  that a blocked loop has no work, and holds for every capacity, budget and error.
- `SessionImplementsStatus`: `Spec => StatusFollowsLifecycle`. Only four actions
  move the phase or the cached exit; the invariant `StatusInv` says that
  `Eof` waits for the exit, `Reaped` has it, and the master is closed from
  `Closing` on, which is why a failed write after EOF changes nothing.
- `SessionImplementsWriteQueue`: `Spec => WriteQueueIsFifo`. The abstract queue is
  what lies behind `write_offset`. `Compaction` says that moving the offset keeps
  it in order in either branch, `WriteTransmits` that a partial write of `n`
  bytes is the transmission of its first `n`, `JoinAccepts` that input and a reply
  join its tail. That a pump only runs on an open master (`PumpsOpen`) makes
  decoding an `Accept` and the discard of a write to a gone slave an `Abandon`.
- `NoStrangerIsSignalled`, `StatusesAreKept`: `SpawnSpec => []SignalsReachOwnGroup` and
  `[]StatusReliable`. The invariant `Inv` ties the cached status to the child
  (`CacheIsTrue`), a call in progress to a status not yet known (`CallsOpen`), a
  remembered error to its fault and the phase to the handle; the signal lemma
  rests on `LiveKnowsChild`: while a handle may signal, only another waiter can
  have reaped the child. There is one lemma per action, for every set of faults.
  `SpawnStepsAreLifecycleSteps` carries `Inv` over to
  the state space of `Spawn`.
- `LifecycleImplementsStatus`: `SpawnSpec => StatusFollowsLifecycle`, from `Inv`: the
  four steps that hand a status out are `ChildReaped`, the rest stutter.
- `NothingStaysBehind`: `SpawnSpec => []NothingLeftBehind`. `SpawnInv` adds which
  descriptors are open at which step of the spawn: the slave is gone from this
  process once the program runs, and a child that ended has none.
- `SpawnTyping`, `ChildGetsTheSlaveOnly`: `SpawnSpec => []SpawnTypeOK` and
  `[]ChildHoldsStdioOnly`. The invariant `FdInv` says for each step of the spawn
  which numbers name an end of the pty on either side of the fork, and
  which of them `exec` will close. It rests on `SpawnInit`: at most one
  standard stream is closed at the start, so that at most one of the two ends
  has a number below 3.
- `CursorStaysOnScreen`: `Spec => []InBounds`. `InBounds` is not inductive:
  handlers build a screen from the other fields, so the invariant `Sound` adds
  that the record has its fields, that the saved cursor's coordinates are
  numbers (they may be far off the screen) and that the size is a `Size`. Most
  handlers do not touch what `Sound` reads: lemmas `...Same` say so, and
  `SoundFrame` turns that into preservation.
- `HistoryIsReported`: `Spec => []HistoryReported`, if the caller acts on
  ScrollbackLineAdded. Every handler is shown to *work* within bounds (`Works`): it
  draws on the screen shown and marks it, and what it adds to the history or
  does to the title it reports. `Works` is transitive, so a handler that
  calls others inherits it.
- `CallerIsUpToDate`: `Spec => []CallerUpToDate`, if the caller acts on ScreenUpdated and
  TitleUpdated and the child never shows the alternate screen (drawing there
  is noted in a flag that `feed` does not read; `terminal_stale_alternate` shows what
  follows). The invariant relates the caller's picture to the
  screen during a feed: it is the same, or an event is pending, or the dirty flag is
  set, or the scalars of the snapshot differ.
- `WrapWaitsAtEdge`: `Spec => []WrapOnlyAtEdge`: handlers either clear the pending wrap,
  or leave it, the cursor's column and the width alone, or put both.
- `TermTyping`, `HistoryIsCounted`, `GlyphsStayWhole`, `LinksAreAnnounced`: `Spec =>` `[]TypeOK`,
  `[]ScrollbackExact`, `[]PairsWhole` and `[]LinksResolve`, from one invariant,
  `Tidy(t, L, K, w)`: both screens, the history and the pens consist of cells
  whose hyperlinks are in `L`; each link of `L` is known to the caller (`K`) or
  announced in the channel; the total of the history is exact; and if `w`, no
  glyph is cut. Each handler keeps it, `OSC 8` with one more link. A
  reset drops announcements, and with them all that uses a link: also the saved
  cursor, whose pen would bring one back. `GlyphsStayWhole` is for children that
  send neither `ICH` nor `DCH` nor insert mode, which do cut glyphs (see
  Disagreements); `LinksAreAnnounced` for a caller that takes HyperlinkAdded.
  Below `Tidy` lie lemmas for each operation on a row (`PutLine`, `EraseLineCells`,
  `CutLine`, `ColumnsLine`) and on a screen (`LinesPane`, `ResizePane`).
- `PrimaryIsUntouched`: `Spec => PrimaryUntouched`, an action property, from `Works` and
  from `ExcessInside`: a trim gives up a number of lines that are there.
- `PrimaryIsRestored`: `Spec => ReturnRestores`, an action property, for screens of any
  size, wide characters included. The step that returns does not tell where the
  cursor has to go, so `ReturnInv` remembers it: on the alternate screen the saved
  cursor and pen are those that the primary screen was left with, and they fit the
  size that it was left in; and neither the modes nor the saved cursor can turn origin
  mode on. The `*Frozen` lemmas say that no handler but `DECSC`, a switch and a reset
  writes the saved cursor. What a wide glyph adds is in the property: a cursor left on
  its trailing half steps onto it.
- `ResizeLosesNothing`, `CursorFollowsLine`: `Spec => ResizeKeepsText` and
  `Spec => CursorKeepsLine`, action properties, for every two sizes and every content.
  Both follow from where a resize puts a row (`ResizeMoves`, `Moved`): up by the shift,
  with its glyphs; above it the rows that leave the screen, below it rows that draw
  nothing. `MovedText` turns this into the text of the rows that left, joined with the
  text of the new screen, and `ContentsText` says that a retained line has the text of
  its row. A row is filled up to the new width, and `resize` blanks what would be a wide
  glyph in the last column of the narrower of the two widths: so the text stays only if
  no line ends with the leading half of a wide glyph. That is `EdgeNarrow`, a part of
  `Tidy` that every handler keeps, also one that cuts glyphs. The cursor is on the
  screen (`Sound`) and moves by the shift of the screen shown, as its line does.
- `PumpBudgetNeverUnderflows`: `Spec => []PumpBudgetHolds` of `Multiplexer`, for every
  even budget. The budget alone is not inductive: what is left after a pass has to
  cover the next one. The invariant `Budgeted` adds that an odd rest comes only from a
  pass over one session, after which there is never again more than one to
  pump, since a pass never makes a session runnable that was not. With an odd
  budget the theorem is false; the assumption names the 64 of the code.
- `KeysStayWithTheirSession`: `Spec => []KeysReachTheirSession`, by an invariant that
  a held key names a session that is still there, so that `deliver_pending`
  never touches an empty slot. `MultiplexerTyped` comes from the same invariant.

- `InputHolds`: `Spec => []InputReadable` of `Conversions`, by reading back. Of a mouse
  report: a button, the move bit and the modifiers are digits of one number
  (`CodeParts`, `CodeSplits`), and a legacy coordinate is a byte with one value for each
  of the first 223 cells. Of a key: `KeyRead` gives a reader that takes each sequence,
  or byte, to the key it came from, so two keys with the same bytes are one key; what
  it cannot tell apart are the characters of a keypad outside its mode. Of a colour
  report: hexadecimal digits, written out, have the value that was written.
- `SgrHolds`: `Spec => []PenFollowsSgr`, for any number of commands. `ListFlat` says that
  the parameters flatten to the codes of the commands, with semicolons or colons;
  `SgrTurns` that the turns of the loop stop at the places where the commands begin and
  have made of the pen what the commands before that place make of it; `LongEnough`
  that the loop has as many turns as it needs. A turn on a colour takes all its numbers.
- `RequestsHold`: `Spec => []RequestsExact`. Palette requests are a concatenation
  (`PaletteIsFlat`). For a clipboard payload, `Reads` is the invariant of the decoder: as
  long as it has not failed, it has met `m` values and then only padding, has stored the
  bytes of the whole groups of four and keeps the rest; it fails as soon as there is no
  such `m`. `FirstByte`, `SecondByte` and `ThirdByte` say that the byte made of two
  neighbours is eight bits of the stream. `TailGroup` is the same for a group cut short.

The model's folds over sequences of any length (`CellCount`, `contents`, `erase_cells`,
`handle_sgr`, `decode_base64`, `Value`) are recursive functions, and so is
`FlattenSeq` of the community modules. What they compute is reasoned about without
the induction rule of the library, which takes an operator: in `Recursion`,
`SetInduction` is induction for a set of numbers, proved from the well-foundedness
of `<`; `RecursionExists`, `StepsKeep` and `StepsAgree` derive from it that a recursive
function is defined, that what its steps keep holds at its end, and that two
functions with the same steps are equal. `FlattenRuns` gives `FlattenSeq` its steps, and
`FlattenConcat` and `FlattenSeparate` follow.

Only model-checked: the liveness properties (`QueueDrains`, `OutputDecoded`, `SessionEnds`,
`DrainTerminates`, `ZombieIsReaped`, `CleanupReturns`, `NoneStarves`, `AppEnds`,
`HostCatchesUp`). Each needs ENABLED of the actions it is fair to, which is out of
reach of the prover.

## Not modelled

The `vte` tokenizer and `tuinix`'s decoder and frame (third party), pastes and
raw input (copied bytes), the script and the output of `headless.rs`, the
drawing of cells in `tuinix.rs` (`write_grid`, styles, colours), `Debug` output and
the plain accessors. The window between `openpty` and `F_SETFD`, in which a fork
by another thread of the process inherits both ends, is outside of `Spawn`,
which has one thread.

## Plan

Done: `KernelPty`, `Session`, `WriteQueue`, `SessionStatus`, `EventLoop`;
`KernelProcess`, `Lifecycle`, `Spawn`; `Screen`, `Events`, `Terminal`;
`InputEncoding`, `ControlPayloads`, `Conversions`; `Multiplexer`; their runs; 34
theorems, the refinements of `WriteQueue` and `SessionStatus` among them.

Open: modifiers of keys (`KeysReadable` takes keys without), and what a resize to fewer
columns keeps.
