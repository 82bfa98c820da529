-------------------------- MODULE MultiplexerProofs --------------------------
(* Proofs about Multiplexer for every even pump budget, every input budget    *)
(* and write limit, and every set of keys.                                    *)
EXTENDS Multiplexer, FiniteSetTheorems, TLAPS

(* Every key in the queue of session s was typed for s. *)
Mine(x, s) == \A i \in 1..Len(x.queue) : x.queue[i] = s

(* A slot holds a session with none but its own keys, or nothing any more.    *)
Pane(x, s) == x = None \/ (x \in Session /\ Mine(x, s))
Panes(panes) == DOMAIN panes = Slots /\ \A s \in Slots : Pane(panes[s], s)

(* The keys of a queue survive its tail, a pump and what is appended.         *)
LEMMA WriteKeeps ==
    ASSUME NEW s \in Slots, NEW x \in Session, Mine(x, s)
    PROVE  Written(x) \in Session /\ Mine(Written(x), s)
<1>1. \/ Written(x) = x
      \/ Written(x) = [x EXCEPT !.queue = <<>>, !.phase = "Eof", !.more = FALSE]
      \/ x.queue # <<>> /\ Written(x) = [x EXCEPT !.queue = Tail(x.queue), !.room = FALSE]
  BY DEF Written
<1>2. CASE Written(x) = [x EXCEPT !.queue = <<>>, !.phase = "Eof", !.more = FALSE]
  <2>1. <<>> \in Seq(Slots) /\ Len(<<>>) = 0
    OBVIOUS
  <2>2. Written(x) \in Session
    BY <1>2, <2>1 DEF Session
  <2>3. Written(x).queue = <<>>
    BY <1>2 DEF Session
  <2> QED
    BY <2>1, <2>2, <2>3 DEF Mine
<1>3. CASE x.queue # <<>> /\ Written(x) = [x EXCEPT !.queue = Tail(x.queue), !.room = FALSE]
  <2>1. x.queue \in Seq(Slots)
    BY DEF Session
  <2>2. /\ Tail(x.queue) \in Seq(Slots)
        /\ \A i \in 1..Len(Tail(x.queue)) : Tail(x.queue)[i] = s
    BY <1>3, <2>1 DEF Mine
  <2>3. Written(x) \in Session
    BY <1>3, <2>2 DEF Session
  <2> QED
    BY <1>3, <2>2, <2>3 DEF Session, Mine
<1> QED
  BY <1>1, <1>2, <1>3

LEMMA ReadKeeps ==
    ASSUME NEW s \in Slots, NEW x \in Session, Mine(x, s), NEW y \in ReadOn(x)
    PROVE  y \in Session /\ Mine(y, s)
<1>1. \/ y = x
      \/ y = [x EXCEPT !.more = FALSE, !.output = FALSE, !.phase = "Live"]
      \/ y = [x EXCEPT !.more = FALSE, !.output = FALSE, !.phase = "Eof"]
      \/ y = [x EXCEPT !.more = TRUE, !.output = TRUE]
      \/ y = [x EXCEPT !.more = TRUE, !.output = FALSE]
  BY DEF ReadOn
<1> QED
  BY <1>1 DEF Session, Mine

LEMMA PumpKeeps ==
    ASSUME NEW s \in Slots, NEW x \in Session, Mine(x, s), NEW y \in Pumped(x)
    PROVE  y \in Session /\ Mine(y, s)
<1>1. CASE y = x
  BY <1>1
<1>2. CASE y \in ReadOn(Written(x))
  BY <1>2, WriteKeeps, ReadKeeps
<1>3. ASSUME NEW z \in ReadOn(x), y = Written(z) PROVE y \in Session /\ Mine(y, s)
  BY <1>3, WriteKeeps, ReadKeeps
<1> QED
  BY <1>1, <1>2, <1>3 DEF Pumped

LEMMA EnqueueKeeps ==
    ASSUME NEW s \in Slots, NEW x \in Session, Mine(x, s)
    PROVE  Enqueued(x, s) \in Session /\ Mine(Enqueued(x, s), s)
<1>1. CASE IsReaped(x)
  BY <1>1 DEF Enqueued
<1>2. CASE ~IsReaped(x)
  <2>1. x.queue \in Seq(Slots)
    BY DEF Session
  <2>2. /\ Append(x.queue, s) \in Seq(Slots)
        /\ \A i \in 1..Len(Append(x.queue, s)) : Append(x.queue, s)[i] = s
    BY <2>1 DEF Mine
  <2>3. Enqueued(x, s) = [x EXCEPT !.queue = Append(x.queue, s)]
    BY <1>2 DEF Enqueued
  <2>4. Enqueued(x, s) \in Session
    BY <2>2, <2>3 DEF Session
  <2> QED
    BY <2>2, <2>3, <2>4 DEF Session, Mine
<1> QED
  BY <1>1, <1>2

-----------------------------------------------------------------------------
(* The invariant: the budget is whole outside of the drain and covers the     *)
(* sessions left to pump inside.  An odd budget means that a pass pumped one  *)
(* session only, and then there is never again more than one to pump.         *)
HeldTyped == pending = None \/ pending \in PendingInput
LoopTyped ==
    /\ selected \in Slots /\ HeldTyped
    /\ screen \in {"dirty", "shown", "stale"}
    /\ at \in {"top", "deliver", "drain", "draw", "input", "poll", "woken", "done"}
    /\ ready \subseteq Slots
    /\ batch \in 0..INPUT_DRAIN_BUDGET
    /\ quit_typed \in BOOLEAN

Budgeted ==
    /\ at # "drain" => budget = PUMP_DRAIN_BUDGET
    /\ at = "drain" =>
          /\ budget \in Nat \ {0}
          /\ Cardinality(Runnable) <= budget
          /\ budget % SESSION_COUNT = 1 => Cardinality(Runnable) <= 1

(* A key is held for a session that is there, and delivered when one is held. *)
HeldOwned ==
    /\ pending # None => pending.session \in Owned
    /\ at = "deliver" => pending # None

Inv == Panes(sessions) /\ LoopTyped /\ Budgeted /\ HeldOwned

(* At most two sessions are ever pumped in a pass, and fewer of fewer.        *)
LEMMA Passes ==
    ASSUME NEW S \in SUBSET Slots
    PROVE  /\ Cardinality(S) \in {0, 1, 2}
           /\ Cardinality(S) = 0 <=> S = {}
           /\ \A T \in SUBSET S : Cardinality(T) <= Cardinality(S)
<1>1. IsFiniteSet(Slots) /\ Cardinality(Slots) = 2
  <2>1. Slots = {0} \cup {1}
    BY DEF Slots, SESSION_COUNT
  <2>2. IsFiniteSet({0}) /\ Cardinality({0}) = 1
    BY FS_Singleton
  <2>3. IsFiniteSet({0} \cup {1}) /\ Cardinality({0} \cup {1}) = Cardinality({0}) + 1
    BY <2>2, FS_AddElement
  <2> QED
    BY <2>1, <2>2, <2>3
<1>2. IsFiniteSet(S) /\ Cardinality(S) <= 2 /\ Cardinality(S) \in Nat
  BY <1>1, FS_Subset, FS_CardinalityType
<1>3. \A T \in SUBSET S : Cardinality(T) <= Cardinality(S)
  BY <1>2, FS_Subset
<1>4. Cardinality(S) = 0 <=> S = {}
  BY <1>2, FS_EmptySet
<1> QED
  BY <1>2, <1>3, <1>4

LEMMA Constants ==
    /\ PUMP_DRAIN_BUDGET \in Nat \ {0} /\ PUMP_DRAIN_BUDGET % 2 = 0 /\ PUMP_DRAIN_BUDGET >= 2
    /\ \A x \in Session : x # None
    /\ \A x \in PendingInput : x # None
BY MultiplexerAssumption DEF SESSION_COUNT

LEMMA InitInv == Init => Inv
<1> SUFFICES ASSUME Init PROVE Inv
  OBVIOUS
<1>1. <<>> \in Seq(Slots) /\ Len(<<>>) = 0
  OBVIOUS
<1>2. \A s \in Slots : sessions[s] \in Session /\ Mine(sessions[s], s)
  BY <1>1 DEF Init, Session, Mine
<1>3. Panes(sessions)
  BY <1>2 DEF Init, Panes, Pane
<1>4. LoopTyped
  <2>1. 0 \in Slots /\ 0 \in 0..INPUT_DRAIN_BUDGET
    BY MultiplexerAssumption DEF Slots, SESSION_COUNT
  <2> QED
    BY <2>1 DEF Init, LoopTyped, HeldTyped
<1>5. Budgeted /\ HeldOwned
  BY DEF Init, Budgeted, HeldOwned
<1> QED
  BY <1>3, <1>4, <1>5 DEF Inv

-----------------------------------------------------------------------------
(* The steps. *)

(* App gone: nothing is left to own, and the loop is typed.                   *)
LEMMA LeaveStep == Leave => Inv'
<1> SUFFICES ASSUME Leave PROVE Inv'
  OBVIOUS
<1>1. Panes(sessions)'
  BY DEF Leave, Panes, Pane
<1>2. 0 \in Slots /\ 0 \in 0..INPUT_DRAIN_BUDGET
  BY MultiplexerAssumption DEF Slots, SESSION_COUNT
<1>3. LoopTyped'
  BY <1>2 DEF Leave, LoopTyped, HeldTyped
<1>4. Budgeted' /\ HeldOwned'
  BY DEF Leave, Budgeted, HeldOwned
<1> QED
  BY <1>1, <1>3, <1>4 DEF Inv

(* A whole budget covers whatever sessions there are to pump.                 *)
LEMMA WholeBudget ==
    ASSUME NEW S \in SUBSET Slots
    PROVE  Cardinality(S) <= PUMP_DRAIN_BUDGET /\ PUMP_DRAIN_BUDGET % SESSION_COUNT # 1
<1>1. Cardinality(S) \in {0, 1, 2}
  BY Passes
<1> QED
  BY <1>1, Constants DEF SESSION_COUNT

LEMMA TopStep ==
    ASSUME Inv, NEW due \in BOOLEAN, Top(due) PROVE Inv'
<1> DEFINE panes == poll_processes(due)
           reaped == {s \in Owned : IsReaped(panes[s])}
           left == Owned \ reaped
<1>1. CASE left = {}
  BY <1>1, LeaveStep DEF Top
<1>2. CASE left # {}
  <2>1. /\ sessions' = [s \in Slots |-> IF s \in reaped THEN None ELSE panes[s]]
        /\ pending' = IF pending # None /\ pending.session \in reaped THEN None ELSE pending
        /\ \/ UNCHANGED <<selected, screen>>
           \/ selected' \in left /\ screen' = IF screen = "dirty" THEN "dirty" ELSE "stale"
        /\ at' = IF pending' = None THEN "drain" ELSE "deliver"
        /\ at = "top"
        /\ UNCHANGED <<loopVars, quit_typed>>
    BY <1>2 DEF Top
  <2>2. \A s \in Slots : Pane(panes[s], s)
    <3> SUFFICES ASSUME NEW s \in Slots PROVE Pane(panes[s], s)
      OBVIOUS
    <3>1. panes[s] = sessions[s] \/ (s \in Owned /\ panes[s] = [sessions[s] EXCEPT !.child = "reaped"])
      BY DEF poll_processes
    <3> QED
      BY <3>1 DEF Inv, Panes, Pane, Owned, Session, Mine
  <2>3. Panes(sessions)'
    BY <2>1, <2>2 DEF Panes, Pane
  <2>4. LoopTyped'
    BY <2>1 DEF Inv, LoopTyped, HeldTyped, loopVars, Owned
  <2>5. budget' = PUMP_DRAIN_BUDGET
    BY <2>1 DEF Inv, Budgeted, loopVars
  <2>6. Budgeted'
    BY <2>5, WholeBudget, Constants DEF Budgeted, Runnable, Owned
  <2>7. HeldOwned'
    <3>1. \A s \in Owned \ reaped : panes[s] # None
      BY <2>2, Constants DEF poll_processes, Owned, Inv, Panes, Pane, Session
    <3>2. pending' # None => pending' = pending /\ pending.session \in Owned \ reaped
      BY <2>1 DEF Inv, HeldOwned
    <3> QED
      BY <2>1, <3>1, <3>2 DEF HeldOwned, Owned
  <2> QED
    BY <2>3, <2>4, <2>6, <2>7 DEF Inv
<1> QED
  BY <1>1, <1>2

(* Deliver and the drain hand Become panes that pumps and keys of its own     *)
(* made out of a session.                                                     *)
LEMMA BecomeStep ==
    ASSUME LoopTyped, NEW panes, Panes(panes), Become(panes)
    PROVE  Panes(sessions') /\ screen' \in {"dirty", "shown", "stale"}
BY DEF Become, LoopTyped

LEMMA DeliverStep ==
    ASSUME Inv, Deliver PROVE Inv'
<1> DEFINE s == pending.session
<1>1. s \in Slots /\ sessions[s] \in Session /\ Mine(sessions[s], s)
  BY DEF Inv, HeldOwned, Deliver, LoopTyped, HeldTyped, PendingInput, Panes, Pane, Owned
<1>2. /\ \E y : y \in Session /\ Mine(y, s) /\ Become([sessions EXCEPT ![s] = y])
      /\ pending' = pending \/ pending' = None
      /\ at' = "drain" /\ at = "deliver"
      /\ UNCHANGED <<selected, loopVars, quit_typed>>
  <2>1. PICK x \in Pumped(sessions[s]) :
           \/ Become([sessions EXCEPT ![s] = x]) /\ UNCHANGED pending
           \/ /\ \E y \in Pumped(Enqueued(x, s)) : Become([sessions EXCEPT ![s] = y])
              /\ pending' = None
    BY DEF Deliver
  <2>2. x \in Session /\ Mine(x, s)
    BY <1>1, PumpKeeps
  <2>3. \A y \in Pumped(Enqueued(x, s)) : y \in Session /\ Mine(y, s)
    BY <1>1, <2>2, EnqueueKeeps, PumpKeeps
  <2> QED
    BY <2>1, <2>2, <2>3 DEF Deliver
<1>3. PICK y : y \in Session /\ Mine(y, s) /\ Become([sessions EXCEPT ![s] = y])
  BY <1>2
<1>4. Panes([sessions EXCEPT ![s] = y])
  BY <1>1, <1>3 DEF Inv, Panes, Pane
<1>5. Panes(sessions)' /\ screen' \in {"dirty", "shown", "stale"}
  BY <1>3, <1>4, BecomeStep DEF Inv
<1>6. LoopTyped'
  BY <1>2, <1>5 DEF Inv, LoopTyped, HeldTyped, loopVars
<1>7. Budgeted'
  BY <1>2, WholeBudget, Constants DEF Inv, Budgeted, Runnable, Owned, loopVars
<1>8. HeldOwned'
  <2>1. \A t \in Owned : sessions'[t] # None
    BY <1>1, <1>3, Constants DEF Become, Inv, Panes, Owned
  <2> QED
    BY <1>2, <2>1 DEF Inv, HeldOwned, Owned
<1> QED
  BY <1>5, <1>6, <1>7, <1>8 DEF Inv

(* A pass pumps the sessions it finds to pump and no other, so the next pass  *)
(* finds none but those; what it costs is what the budget has lost.           *)
LEMMA DrainStep ==
    ASSUME Inv, Drain PROVE Inv'
<1>1. PICK x \in outcomes(0, Runnable), y \in outcomes(1, Runnable) :
         Become([s \in Slots |-> IF s = 0 THEN x ELSE y])
  BY DEF Drain
<1> DEFINE panes == [s \in Slots |-> IF s = 0 THEN x ELSE y]
<1>2. \A s \in Slots : panes[s] \in outcomes(s, Runnable)
  BY DEF Slots, SESSION_COUNT
<1>3. \A s \in Slots : s \notin Runnable => panes[s] = sessions[s]
  BY <1>2 DEF outcomes
<1>4. \A s \in Slots : s \in Runnable => panes[s] \in Session /\ Mine(panes[s], s)
  BY <1>2, PumpKeeps DEF outcomes, Runnable, Owned, Inv, Panes, Pane
<1>5. Panes(panes)
  BY <1>3, <1>4 DEF Inv, Panes, Pane
<1> HIDE DEF panes
<1>6. sessions' = panes /\ Panes(sessions)' /\ screen' \in {"dirty", "shown", "stale"}
  BY <1>1, <1>5, BecomeStep DEF Inv, Become, panes
<1>7. /\ ready' = {} /\ at = "drain"
      /\ UNCHANGED <<selected, pending, batch, quit_typed>>
      /\ \/ /\ budget - Cardinality(Runnable) # 0
            /\ \E s \in Runnable : needs_pump(sessions'[s])
            /\ budget' = budget - Cardinality(Runnable) /\ at' = "drain"
         \/ budget' = PUMP_DRAIN_BUDGET /\ at' = "draw"
  BY DEF Drain
<1>8. LoopTyped'
  BY <1>6, <1>7 DEF Inv, LoopTyped, HeldTyped
<1>9. \A s \in Owned : sessions'[s] # None
  BY <1>3, <1>4, <1>6, Constants DEF Owned
<1>10. HeldOwned'
  BY <1>7, <1>9 DEF Inv, HeldOwned, Owned
<1>11. Runnable' \subseteq Runnable
  BY <1>3, <1>6, <1>7 DEF Runnable, Owned
<1>12. Budgeted'
  <2>1. /\ Cardinality(Runnable) \in {0, 1, 2}
        /\ Cardinality(Runnable) = 0 <=> Runnable = {}
        /\ Cardinality(Runnable') <= Cardinality(Runnable)
        /\ Cardinality(Runnable') \in {0, 1, 2}
    BY <1>11, Passes DEF Runnable, Owned
  <2>2. /\ budget \in Nat \ {0} /\ Cardinality(Runnable) <= budget
        /\ budget % 2 = 1 => Cardinality(Runnable) <= 1
    <3>1. SESSION_COUNT = 2 /\ at = "drain" /\ Budgeted
      BY <1>7 DEF Inv, SESSION_COUNT
    <3>2. /\ budget \in Nat \ {0} /\ Cardinality(Runnable) <= budget
          /\ budget % SESSION_COUNT = 1 => Cardinality(Runnable) <= 1
      BY <3>1, Zenon DEF Budgeted
    <3> QED
      BY <3>1, <3>2, Zenon
  <2>3. CASE at' = "drain"
    <3>1. /\ budget' = budget - Cardinality(Runnable) /\ budget' # 0
          /\ Cardinality(Runnable) \in {1, 2}
      BY <1>7, <2>1, <2>3
    <3>2. budget' \in Nat \ {0}
      BY <2>1, <2>2, <3>1
    <3>3. CASE Cardinality(Runnable) = 1
      BY <2>1, <2>3, <3>2, <3>3 DEF Budgeted
    <3>4. CASE Cardinality(Runnable) = 2
      <4>1. budget % 2 = 0
        BY <2>2, <3>4
      <4>2. budget' % 2 = 0 /\ budget' >= 2
        BY <2>2, <3>1, <3>2, <3>4, <4>1
      <4>3. budget' % SESSION_COUNT # 1
        BY <4>2 DEF SESSION_COUNT
      <4>4. Cardinality(Runnable') <= budget'
        BY <2>1, <3>2, <4>2
      <4> QED
        BY <2>3, <3>2, <4>3, <4>4 DEF Budgeted
    <3> QED
      BY <3>1, <3>3, <3>4
  <2> QED
    BY <1>7, <2>3 DEF Budgeted
<1> QED
  BY <1>6, <1>8, <1>10, <1>12 DEF Inv

LEMMA DrawStep ==
    ASSUME Inv, Draw PROVE Inv'
<1>1. batch' \in 0..INPUT_DRAIN_BUDGET
  BY MultiplexerAssumption DEF Draw, Collect, Inv, LoopTyped
<1>2. LoopTyped' /\ HeldOwned' /\ Budgeted'
  BY <1>1 DEF Draw, Inv, LoopTyped, HeldTyped, HeldOwned, Owned, Budgeted
<1> QED
  BY <1>2 DEF Inv, Draw

LEMMA PollStep ==
    ASSUME Inv, Poll PROVE Inv'
<1>1. batch' \in 0..INPUT_DRAIN_BUDGET
  BY MultiplexerAssumption DEF Poll, Collect, Inv, LoopTyped
<1>2. ready' \subseteq Slots
  BY DEF Poll, Owned
<1>3. LoopTyped' /\ HeldOwned' /\ Budgeted'
  BY <1>1, <1>2 DEF Poll, Inv, LoopTyped, HeldTyped, HeldOwned, Owned, Budgeted
<1> QED
  BY <1>3 DEF Inv, Poll

LEMMA InputsDoneStep ==
    ASSUME Inv, InputsDone PROVE Inv'
BY DEF InputsDone, Inv, LoopTyped, HeldTyped, HeldOwned, Owned, Budgeted, appVars, loopVars

LEMMA UserQuitsStep ==
    ASSUME Inv, UserQuits PROVE Inv'
BY DEF UserQuits, Inv, LoopTyped, HeldTyped, HeldOwned, Owned, Budgeted, Runnable,
       appVars, loopVars

(* A key typed goes to the session selected now, which owns what it gets.     *)
LEMMA HandleInputStep ==
    ASSUME Inv, HandleInput PROVE Inv'
<1>1. CASE Leave
  BY <1>1, LeaveStep
<1> DEFINE Handled == /\ batch' = batch - 1 /\ batch > 0 /\ at # "drain" /\ at # "deliver"
                      /\ UNCHANGED <<at, ready, budget, quit_typed>>
<1>2. ASSUME Handled, switch_selected, UNCHANGED <<sessions, pending>> PROVE Inv'
  <2>1. selected' \in Slots /\ screen' \in {"dirty", "shown", "stale"}
    BY <1>2 DEF switch_selected, Inv, LoopTyped, Slots, SESSION_COUNT
  <2>2. LoopTyped'
    BY <1>2, <2>1, MultiplexerAssumption DEF Inv, LoopTyped, HeldTyped
  <2> QED
    BY <1>2, <2>2 DEF Inv, HeldOwned, Owned, Budgeted
<1>3. ASSUME Handled, NEW key \in Keys, try_enqueue(key), UNCHANGED selected PROVE Inv'
  <2>1. batch' \in 0..INPUT_DRAIN_BUDGET
    BY <1>3, MultiplexerAssumption DEF Inv, LoopTyped
  <2>2. CASE UNCHANGED <<sessions, pending, screen>>
    BY <1>3, <2>1, <2>2 DEF Inv, LoopTyped, HeldTyped, HeldOwned, Owned, Budgeted
  <2>3. ASSUME selected \in Owned, pending' = [session |-> selected, event |-> key],
               UNCHANGED <<sessions, screen>>
        PROVE Inv'
    <3>1. pending' \in PendingInput /\ pending'.session = selected
      BY <2>3 DEF PendingInput, Inv, LoopTyped
    <3> QED
      BY <1>3, <2>1, <2>3, <3>1 DEF Inv, LoopTyped, HeldTyped, HeldOwned, Owned, Budgeted
  <2>4. ASSUME selected \in Owned, NEW y \in Pumped(Enqueued(sessions[selected], selected)),
               Become([sessions EXCEPT ![selected] = y]), UNCHANGED pending
        PROVE Inv'
    <3>1. sessions[selected] \in Session /\ Mine(sessions[selected], selected)
      BY <2>4 DEF Inv, Panes, Pane, Owned
    <3>2. y \in Session /\ Mine(y, selected)
      BY <2>4, <3>1, EnqueueKeeps, PumpKeeps DEF Inv, LoopTyped
    <3>3. Panes([sessions EXCEPT ![selected] = y])
      BY <3>2 DEF Inv, Panes, Pane
    <3>4. Panes(sessions)' /\ screen' \in {"dirty", "shown", "stale"}
      BY <2>4, <3>3, BecomeStep DEF Inv
    <3>5. \A t \in Owned : sessions'[t] # None
      BY <2>4, <3>2, Constants DEF Become, Inv, Panes, Owned
    <3>6. HeldOwned'
      BY <1>3, <2>4, <3>5 DEF Inv, HeldOwned, Owned
    <3> QED
      BY <1>3, <2>1, <2>4, <3>4, <3>6 DEF Inv, LoopTyped, HeldTyped, Budgeted
  <2> QED
    BY <1>3, <2>2, <2>3, <2>4 DEF try_enqueue
<1> QED
  BY <1>1, <1>2, <1>3 DEF HandleInput

LEMMA ChildStep ==
    ASSUME Inv, NEW s \in Slots, ChildWrites(s) \/ ChildReads(s) \/ ChildEnds(s)
    PROVE  Inv'
<1>1. PICK x : ChildDoes(s, x) /\ Running(s)
               /\ \/ x = [sessions[s] EXCEPT !.output = TRUE]
                  \/ x = [sessions[s] EXCEPT !.room = TRUE]
                  \/ x = [sessions[s] EXCEPT !.child = "zombie", !.room = TRUE]
  BY DEF ChildWrites, ChildReads, ChildEnds
<1>2. s \in Owned /\ sessions[s] \in Session /\ Mine(sessions[s], s)
  BY <1>1 DEF Running, Inv, Panes, Pane, Owned
<1>3. /\ x \in Session /\ Mine(x, s)
      /\ x.phase = sessions[s].phase /\ x.more = sessions[s].more
  BY <1>1, <1>2 DEF Session, Mine
<1>4. sessions' = [sessions EXCEPT ![s] = x] /\ UNCHANGED <<appVars, at, loopVars, quit_typed>>
  BY <1>1 DEF ChildDoes
<1>5. Panes(sessions)'
  BY <1>3, <1>4 DEF Inv, Panes, Pane
<1>6. Owned' = Owned
  BY <1>2, <1>3, <1>4, Constants DEF Owned, Inv, Panes
<1>7. Runnable' = Runnable
  BY <1>3, <1>4, <1>6 DEF Runnable, needs_pump, Inv, Panes, Owned, loopVars
<1>8. LoopTyped' /\ HeldOwned' /\ Budgeted'
  BY <1>4, <1>6, <1>7 DEF Inv, LoopTyped, HeldTyped, HeldOwned, Budgeted, appVars, loopVars
<1> QED
  BY <1>5, <1>8 DEF Inv

LEMMA NextInv == Inv /\ [Next]_vars => Inv'
<1> SUFFICES ASSUME Inv, [Next]_vars PROVE Inv'
  OBVIOUS
<1>1. ASSUME NEW due \in BOOLEAN, Top(due) PROVE Inv'
  BY <1>1, TopStep
<1>2. CASE Deliver
  BY <1>2, DeliverStep
<1>3. CASE Drain
  BY <1>3, DrainStep
<1>4. CASE Draw
  BY <1>4, DrawStep
<1>5. CASE HandleInput
  BY <1>5, HandleInputStep
<1>6. CASE InputsDone
  BY <1>6, InputsDoneStep
<1>7. CASE Poll
  BY <1>7, PollStep
<1>8. CASE LoopFails
  BY <1>8, LeaveStep DEF LoopFails
<1>9. ASSUME NEW s \in Slots, ChildWrites(s) \/ ChildReads(s) \/ ChildEnds(s) PROVE Inv'
  BY <1>9, ChildStep
<1>10. CASE UserQuits
  BY <1>10, UserQuitsStep
<1>11. CASE UNCHANGED vars
  BY <1>11 DEF vars, appVars, loopVars, Inv, LoopTyped, HeldTyped, HeldOwned, Owned,
               Budgeted, Runnable
<1> QED
  BY <1>1, <1>2, <1>3, <1>4, <1>5, <1>6, <1>7, <1>8, <1>9, <1>10, <1>11 DEF Next, LoopStep

LEMMA InvHolds == Spec => []Inv
BY InitInv, NextInv, PTL DEF Spec

(* Every variable keeps its type: in particular a held key names a slot, and   *)
(* every session in the array is one with a well-typed queue.                  *)
THEOREM MultiplexerTyped == Spec => []TypeOK
<1>1. Inv => TypeOK
  <2>1. Inv => budget \in Int
    BY Constants DEF Inv, Budgeted
  <2> QED
    BY <2>1 DEF Inv, Panes, Pane, LoopTyped, HeldTyped, TypeOK
<1> QED
  BY <1>1, InvHolds, PTL

(* drain_runnable's `budget -= 1` never wraps below zero, for any even budget: *)
(* the invariant pairs it with the sessions a pass can still find to pump.     *)
THEOREM PumpBudgetNeverUnderflows == Spec => []PumpBudgetHolds
<1>1. Inv => PumpBudgetHolds
  BY DEF Inv, Budgeted, PumpBudgetHolds
<1> QED
  BY <1>1, InvHolds, PTL

(* No key is ever queued for another session than the one it was typed for,    *)
(* whatever the write limit and however long deliver_pending held it.          *)
THEOREM KeysStayWithTheirSession == Spec => []KeysReachTheirSession
<1>1. Inv => KeysReachTheirSession
  BY DEF Inv, Panes, Pane, Mine, Owned, KeysReachTheirSession
<1> QED
  BY <1>1, InvHolds, PTL
=============================================================================
