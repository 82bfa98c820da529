----------------------------- MODULE Multiplexer -----------------------------
(* The interactive example, tuinix.rs: two sessions behind one host terminal, *)
(* in one level-triggered poll loop that also reaps the children, rotates the *)
(* pumps, draws the selected session and forwards keys with backpressure.     *)
(* Each part of an iteration is a step, each pass over the sessions and each  *)
(* host input one of its own; the children, the user and the 50 ms timer move *)
(* in between.  Of a Session only what the loop reads is kept, pump_io is one *)
(* step, and terminal replies are left to Session.                            *)
EXTENDS Integers, Sequences, FiniteSets

CONSTANTS
    None,                   \* Option::None
    Keys,                   \* the keys the user types besides the two commands
    PUMP_DRAIN_BUDGET,
    INPUT_DRAIN_BUDGET,
    WRITE_SOFT_LIMIT        \* in keys: every key is one unit long

SESSION_COUNT == 2
Slots == 0..(SESSION_COUNT - 1)

VARIABLES
    sessions, selected, pending,    \* App
    screen,         \* App.screen_dirty against what the host shows: "dirty",
                    \* "shown", or "stale", which is neither
    at,             \* where run_loop is
    ready,          \* run_loop's `ready`
    budget,         \* drain_runnable's local
    batch,          \* decoded inputs deliver_host_inputs still has to hand over
    quit_typed      \* the user typed Ctrl+Q and nobody has handled it

appVars == <<selected, pending, screen>>
loopVars == <<ready, budget, batch>>
vars == <<sessions, appVars, at, loopVars, quit_typed>>

(* A Session as the loop sees it, with the kernel's side of its pty: the slot  *)
(* each queued key was typed for, whether the last pump left work, whether     *)
(* there is output to read and room to write, and the child: when it ends the  *)
(* slave closes, a write would not block, and it stays a zombie until it is    *)
(* waited for.                                                                 *)
Session == [phase : {"Live", "Eof"}, queue : Seq(Slots), more : BOOLEAN,
            output : BOOLEAN, room : BOOLEAN, child : {"running", "zombie", "reaped"}]
PendingInput == [session : Slots, event : Keys]

ASSUME MultiplexerAssumption ==
    /\ None \notin Session \cup PendingInput
    /\ PUMP_DRAIN_BUDGET \in Nat \ {0} /\ PUMP_DRAIN_BUDGET % SESSION_COUNT = 0
    /\ INPUT_DRAIN_BUDGET \in Nat \ {0} /\ WRITE_SOFT_LIMIT \in Nat

TypeOK ==
    /\ DOMAIN sessions = Slots
    /\ \A s \in Slots : sessions[s] \in Session \/ sessions[s] = None
    /\ selected \in Slots /\ (pending \in PendingInput \/ pending = None)
    /\ screen \in {"dirty", "shown", "stale"}
    /\ at \in {"top", "deliver", "drain", "draw", "input", "poll", "woken", "done"}
    /\ ready \subseteq Slots /\ budget \in Int
    /\ batch \in 0..INPUT_DRAIN_BUDGET
    /\ quit_typed \in BOOLEAN

(* App::spawn. *)
Init ==
    /\ sessions = [s \in Slots |-> [phase |-> "Live", queue |-> <<>>, more |-> TRUE,
                                    output |-> FALSE, room |-> TRUE, child |-> "running"]]
    /\ selected = 0 /\ pending = None /\ screen = "dirty"
    /\ at = "top" /\ ready = {}
    /\ budget = PUMP_DRAIN_BUDGET /\ batch = 0 /\ quit_typed = FALSE

-----------------------------------------------------------------------------
(* What the loop asks of a Session. *)

Owned == {s \in Slots : sessions[s] # None}                 \* live_indices
IsReaped(x) == x.phase = "Eof" /\ x.child = "reaped"        \* status()

(* A pump leaves keys in the queue only after WouldBlock, and stops reading    *)
(* before WouldBlock and EOF only when its budget runs out.                    *)
needs_pump(x) == x.phase = "Live" /\ x.more

(* pump_io's write phase: what there is room for goes to the slave; with the   *)
(* slave closed, EIO is EOF and retires the queue.                             *)
Written(x) ==
    IF x.queue = <<>> THEN x
    ELSE IF x.child # "running" THEN [x EXCEPT !.queue = <<>>, !.phase = "Eof", !.more = FALSE]
    ELSE IF x.room THEN [x EXCEPT !.queue = Tail(@), !.room = FALSE]
    ELSE x

(* Its read phase: all output is read, up to WouldBlock or EOF, unless the     *)
(* budget runs out first; a running child that writes on can bring that about  *)
(* every time.                                                                 *)
ReadOn(x) ==
    LET open == x.child = "running"
        drained == [x EXCEPT !.more = FALSE, !.output = FALSE, !.phase = IF open THEN "Live" ELSE "Eof"]
        exhausted == [x EXCEPT !.more = TRUE, !.output = open]
    IN IF x.phase = "Eof" THEN {x}
       ELSE IF x.output THEN {drained, exhausted} ELSE {drained}

(* pump_io starts with the direction it did not end with. *)
Pumped(x) ==
    IF IsReaped(x) THEN {x} ELSE ReadOn(Written(x)) \cup {Written(y) : y \in ReadOn(x)}

(* What poll reports of a session for the interests it states. *)
PollReady(x) ==
    LET hung_up == x.child # "running"
    IN \/ x.phase = "Live" /\ (x.output \/ hung_up)
       \/ ~IsReaped(x) /\ x.queue # <<>> /\ x.room

TooFull(x) == Len(x.queue) + 1 > WRITE_SOFT_LIMIT
(* enqueue_input; a session that is over refuses the key with BrokenPipe. *)
Enqueued(x, slot) == IF IsReaped(x) THEN x ELSE [x EXCEPT !.queue = Append(@, slot)]

(* The sessions become `panes`.  Output read from the selected session raises *)
(* the ScreenUpdated that note_selection_events turns into screen_dirty;      *)
(* nobody looks at the flag before that.                                      *)
Become(panes) ==
    /\ sessions' = panes
    /\ screen' = IF /\ selected \in Owned /\ sessions[selected].output
                    /\ panes[selected].more \/ ~panes[selected].output
                 THEN "dirty" ELSE screen

-----------------------------------------------------------------------------
(* One iteration of run_loop. *)

(* run_loop returned: shutdown_all takes every session, and the App is gone. *)
Leave ==
    /\ at' = "done"
    /\ sessions' = [s \in Slots |-> None]
    /\ selected' = 0 /\ pending' = None /\ screen' = "dirty"
    /\ ready' = {} /\ budget' = PUMP_DRAIN_BUDGET /\ batch' = 0 /\ quit_typed' = FALSE

(* poll_processes, when it is due: try_wait reaps the children that ended. *)
poll_processes(due) ==
    [s \in Slots |-> IF due /\ s \in Owned /\ sessions[s].child = "zombie"
                     THEN [sessions[s] EXCEPT !.child = "reaped"] ELSE sessions[s]]

(* poll_processes, then reap_finished, which drops the sessions that are over  *)
(* with the key held for them and moves the selection to one that is left.     *)
Top(due) ==
    /\ at = "top"
    /\ LET panes == poll_processes(due)
           reaped == {s \in Owned : IsReaped(panes[s])}
           left == Owned \ reaped
       IN IF left = {} THEN Leave
          ELSE /\ sessions' = [s \in Slots |-> IF s \in reaped THEN None ELSE panes[s]]
               /\ pending' = IF pending # None /\ pending.session \in reaped THEN None ELSE pending
               /\ IF selected \in left THEN UNCHANGED <<selected, screen>>
                  ELSE selected' \in left /\ screen' = IF screen = "dirty" THEN "dirty" ELSE "stale"
               /\ at' = IF pending' = None THEN "drain" ELSE "deliver"
               /\ UNCHANGED <<loopVars, quit_typed>>

(* Mutant: a held key goes to the session selected now. *)
Deliver_ToSelected ==
    /\ at = "deliver"
    /\ LET s == selected
           put(x) == Become([sessions EXCEPT ![s] = x])
       IN \E x \in Pumped(sessions[s]) :
             \/ TooFull(x) /\ put(x) /\ UNCHANGED pending
             \/ /\ ~TooFull(x)
                /\ \E y \in Pumped(Enqueued(x, pending.session)) : put(y)
                /\ pending' = None
    /\ at' = "drain"
    /\ UNCHANGED <<selected, loopVars, quit_typed>>

(* deliver_pending. *)
Deliver ==
    /\ at = "deliver"
    /\ LET s == pending.session
           put(x) == Become([sessions EXCEPT ![s] = x])
       IN \E x \in Pumped(sessions[s]) :
             \/ TooFull(x) /\ put(x) /\ UNCHANGED pending
             \/ /\ ~TooFull(x)
                /\ \E y \in Pumped(Enqueued(x, s)) : put(y)
                /\ pending' = None
    /\ at' = "drain"
    /\ UNCHANGED <<selected, loopVars, quit_typed>>

(* One pass of drain_runnable over the sessions.  The pumps of different       *)
(* sessions are independent, so where pump_cursor lets a pass begin cannot be  *)
(* told apart.  The budget, and whether anybody still needs a pump, are looked *)
(* at between passes only.                                                     *)
Runnable == {s \in Owned : needs_pump(sessions[s]) \/ s \in ready}
outcomes(s, runnable) == IF s \in runnable THEN Pumped(sessions[s]) ELSE {sessions[s]}

(* Mutant: a pass takes up the sessions that became ready since poll. *)
Drain_PollsAgain ==
    /\ at = "drain"
    /\ \E x \in outcomes(0, Runnable), y \in outcomes(1, Runnable) :
          Become([s \in Slots |-> IF s = 0 THEN x ELSE y])
    /\ ready' = {s \in Owned : PollReady(sessions'[s])}
    /\ LET left == budget - Cardinality(Runnable)
       IN IF left # 0 /\ \E s \in Runnable : needs_pump(sessions'[s])
          THEN budget' = left /\ UNCHANGED at
          ELSE budget' = PUMP_DRAIN_BUDGET /\ at' = "draw"
    /\ UNCHANGED <<selected, pending, batch, quit_typed>>

(* Mutant: a pass ends with the first session it pumped. *)
Drain_FirstOnly ==
    /\ at = "drain"
    /\ LET first == IF 0 \in Runnable THEN {0} ELSE Runnable
       IN \E x \in outcomes(0, first), y \in outcomes(1, first) :
             Become([s \in Slots |-> IF s = 0 THEN x ELSE y])
    /\ ready' = {}
    /\ LET left == budget - 1
       IN IF Runnable # {} /\ left # 0 /\ \E s \in Runnable : needs_pump(sessions'[s])
          THEN budget' = left /\ UNCHANGED at
          ELSE budget' = PUMP_DRAIN_BUDGET /\ at' = "draw"
    /\ UNCHANGED <<selected, pending, batch, quit_typed>>

(* Mutant: an empty budget is refilled and the drain goes on. *)
Drain_Refills ==
    /\ at = "drain"
    /\ \E x \in outcomes(0, Runnable), y \in outcomes(1, Runnable) :
          Become([s \in Slots |-> IF s = 0 THEN x ELSE y])
    /\ ready' = {}
    /\ LET left == budget - Cardinality(Runnable)
       IN IF \E s \in Runnable : needs_pump(sessions'[s])
          THEN budget' = (IF left = 0 THEN PUMP_DRAIN_BUDGET ELSE left) /\ UNCHANGED at
          ELSE budget' = PUMP_DRAIN_BUDGET /\ at' = "draw"
    /\ UNCHANGED <<selected, pending, batch, quit_typed>>

Drain ==
    /\ at = "drain"
    /\ \E x \in outcomes(0, Runnable), y \in outcomes(1, Runnable) :
          Become([s \in Slots |-> IF s = 0 THEN x ELSE y])
    /\ ready' = {}
    /\ LET left == budget - Cardinality(Runnable)
       IN IF left # 0 /\ \E s \in Runnable : needs_pump(sessions'[s])
          THEN budget' = left /\ UNCHANGED at
          ELSE budget' = PUMP_DRAIN_BUDGET /\ at' = "draw"
    /\ UNCHANGED <<selected, pending, batch, quit_typed>>

(* drain_host_inputs and collect_inputs: what was typed, up to the budget.  A  *)
(* typed quit is the last of its batch.                                        *)
Collect == batch' \in (IF quit_typed THEN 1 ELSE 0)..INPUT_DRAIN_BUDGET

(* Mutant: only a new size marks the screen dirty. *)
apply_resize_NewSizeOnly == "unchanged"

(* apply_resize marks the screen dirty in every iteration, whether or not the  *)
(* driver's size is new.                                                       *)
apply_resize == "dirty"

(* apply_resize, note_selection_events and draw_selected. *)
Draw ==
    /\ at = "draw"
    /\ screen' = IF "dirty" \in {screen, apply_resize} THEN "shown" ELSE screen
    /\ IF pending = None THEN Collect /\ at' = "input" ELSE UNCHANGED batch /\ at' = "poll"
    /\ UNCHANGED <<sessions, selected, pending, ready, budget, quit_typed>>

(* try_enqueue. *)
try_enqueue(key) ==
    IF selected \notin Owned THEN UNCHANGED <<sessions, pending, screen>>
    ELSE LET x == sessions[selected]
         IN \/ /\ TooFull(x)
               /\ pending' = [session |-> selected, event |-> key]
               /\ UNCHANGED <<sessions, screen>>
            \/ /\ ~TooFull(x)
               /\ \E y \in Pumped(Enqueued(x, selected)) : Become([sessions EXCEPT ![selected] = y])
               /\ UNCHANGED pending

(* switch_selected: a no-op with one session left. *)
switch_selected ==
    IF Owned = Slots
    THEN selected' = (selected + 1) % SESSION_COUNT /\ screen' = "dirty"
    ELSE UNCHANGED <<selected, screen>>

(* handle_input for one input of the batch; at the end of the batch the loop   *)
(* goes on to poll, or to the next iteration when poll had returned.           *)
HandleInput ==
    /\ at \in {"input", "woken"} /\ batch > 0
    /\ IF quit_typed /\ batch = 1 THEN Leave
       ELSE /\ \/ switch_selected /\ UNCHANGED <<sessions, pending>>
               \/ (\E key \in Keys : try_enqueue(key)) /\ UNCHANGED selected
            /\ batch' = batch - 1
            /\ UNCHANGED <<at, ready, budget, quit_typed>>

InputsDone ==
    /\ at \in {"input", "woken"} /\ batch = 0
    /\ at' = IF at = "input" THEN "poll" ELSE "top"
    /\ UNCHANGED <<sessions, appVars, loopVars, quit_typed>>

(* poll_once: it returns at once when a session needs a pump, when an fd is    *)
(* ready, and at the process poll at the latest.  Host input is not watched    *)
(* while a key is held.  A resize marks the screen dirty once more.            *)
Poll ==
    /\ at = "poll"
    /\ ready' = {s \in Owned : PollReady(sessions[s])}
    /\ IF pending = None THEN Collect ELSE UNCHANGED batch
    /\ at' = IF batch' > 0 THEN "woken" ELSE "top"
    /\ screen' \in {screen, "dirty"}
    /\ UNCHANGED <<sessions, selected, pending, budget, quit_typed>>

(* A system call or the host terminal fails, and the loop ends. *)
LoopFails == at # "done" /\ Leave

-----------------------------------------------------------------------------
(* The children and the user. *)

ChildDoes(s, x) ==
    /\ sessions' = [sessions EXCEPT ![s] = x]
    /\ UNCHANGED <<appVars, at, loopVars, quit_typed>>
Running(s) == s \in Owned /\ sessions[s].child = "running"

ChildWrites(s) ==
    Running(s) /\ ~sessions[s].output /\ ChildDoes(s, [sessions[s] EXCEPT !.output = TRUE])
ChildReads(s) ==
    Running(s) /\ ~sessions[s].room /\ ChildDoes(s, [sessions[s] EXCEPT !.room = TRUE])
ChildEnds(s) ==
    Running(s) /\ ChildDoes(s, [sessions[s] EXCEPT !.child = "zombie", !.room = TRUE])

UserQuits ==
    /\ at \notin {"input", "woken", "done"} /\ ~quit_typed
    /\ quit_typed' = TRUE
    /\ UNCHANGED <<sessions, appVars, at, loopVars>>

LoopStep ==
    \/ \E due \in BOOLEAN : Top(due)
    \/ Deliver \/ Drain \/ Draw \/ HandleInput \/ InputsDone \/ Poll

Next ==
    \/ LoopStep \/ LoopFails
    \/ \E s \in Slots : ChildWrites(s) \/ ChildReads(s) \/ ChildEnds(s)
    \/ UserQuits

(* One thread runs the loop, and the process poll is due every 50 ms. *)
Fairness == WF_vars(LoopStep) /\ SF_vars(Top(TRUE))
Spec == Init /\ [][Next]_vars /\ Fairness

-----------------------------------------------------------------------------
(* Properties. *)

(* The unchecked `budget -= 1` of drain_runnable, tested only between passes, *)
(* never goes below zero: the sessions of a pass were all in the pass before.  *)
PumpBudgetHolds == at = "drain" => Cardinality(Runnable) <= budget

(* A key is queued for the session that was selected when it was typed,        *)
(* however long it was held and wherever the selection went since.             *)
KeysReachTheirSession ==
    \A s \in Owned : \A i \in 1..Len(sessions[s].queue) : sessions[s].queue[i] = s

(* "Pumped in rotating order so one busy session cannot starve the other": a   *)
(* session the kernel has something for gets its pump.                         *)
Waiting(s) == s \in Owned /\ PollReady(sessions[s]) /\ ~needs_pump(sessions[s])
NoneStarves ==
    \A s \in Slots : Waiting(s) ~> ~Waiting(s)

(* Ctrl+Q is heard next to the busiest children, unless a key is held; and     *)
(* when both children have ended the example does, with every session dropped. *)
AppEnds ==
    /\ quit_typed ~> at = "done" \/ pending # None
    /\ (\A s \in Owned : sessions[s].child # "running") ~> at = "done"

(* Whatever the selected session shows, or the selection moves to, reaches the *)
(* host.                                                                       *)
HostCatchesUp == screen # "shown" ~> screen = "shown" \/ at = "done"
=============================================================================
