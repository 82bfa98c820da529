-------------------------------- MODULE Events --------------------------------
(* The event channel of terminal.rs: four merged flags and the queue of       *)
(* payloads, drained in one fixed order.  A payload is a request of the child *)
(* or the opening of a hyperlink; of a request nothing else is kept.          *)
EXTENDS Integers, Sequences

Flag == {"terminal_reset", "screen_updated", "scrollback_line_added", "title_updated"}

RequestReceived == [kind |-> "RequestReceived", id |-> 0]
HyperlinkAdded(id) == [kind |-> "HyperlinkAdded", id |-> id]
Payload ==
    {payload \in [kind : {"RequestReceived", "HyperlinkAdded"}, id : Nat] :
        payload.kind = "RequestReceived" => payload.id = 0}

Events == [flags : SUBSET Flag, payload : Seq(Payload)]
NoEvents == [flags |-> {}, payload |-> <<>>]

mark(events, flag) == [events EXCEPT !.flags = @ \cup {flag}]
push(events, payload) == [events EXCEPT !.payload = Append(@, payload)]
clear_requests(events) == [events EXCEPT !.payload = <<>>]

(* The order of the flags; payloads come last. *)
Order == <<"terminal_reset", "screen_updated", "scrollback_line_added", "title_updated">>

Pending(events) == events.flags # {} \/ events.payload # <<>>

(* What next() takes out of a channel that is not empty. *)
next_flag(events) ==
    Order[CHOOSE i \in DOMAIN Order :
            /\ Order[i] \in events.flags
            /\ \A j \in 1 .. i - 1 : Order[j] \notin events.flags]
next_event(events) ==
    IF events.flags # {} THEN [kind |-> next_flag(events), id |-> 0] ELSE Head(events.payload)

(* Mutant: yielding a flag clears all of them. *)
after_next_ClearsFlags(events) ==
    IF events.flags # {} THEN [events EXCEPT !.flags = {}]
    ELSE [events EXCEPT !.payload = Tail(@)]

(* And what it leaves behind. *)
after_next(events) ==
    IF events.flags # {} THEN [events EXCEPT !.flags = @ \ {next_flag(events)}]
    ELSE [events EXCEPT !.payload = Tail(@)]
=============================================================================
