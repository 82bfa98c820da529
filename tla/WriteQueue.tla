------------------------------ MODULE WriteQueue ------------------------------
(* What a Session promises about the bytes it accepts for the child: input    *)
(* and replies share one FIFO.  A byte is accepted at the tail, leaves from   *)
(* the head, in order and once, and is given up only when the master closes   *)
(* or the peer is gone.                                                       *)
EXTENDS Integers, Sequences

CONSTANT Source         \* who bytes come from

VARIABLES
    queue,      \* accepted, not yet handed to the kernel
    sent,       \* everything handed to the kernel, in order
    open,       \* the master is open
    peer        \* somebody can still read the other end

qvars == <<queue, sent, open, peer>>

Init == queue = <<>> /\ sent = <<>> /\ open = TRUE /\ peer = TRUE

(* Bytes of one source join the tail. *)
Accept ==
    /\ open
    /\ Len(queue') >= Len(queue)
    /\ SubSeq(queue', 1, Len(queue)) = queue
    /\ \E s \in Source : \A i \in Len(queue) + 1 .. Len(queue') : queue'[i].src = s
    /\ UNCHANGED <<sent, open, peer>>

(* The kernel takes a prefix. *)
Transmit ==
    /\ open
    /\ \E n \in 1..Len(queue) :
          /\ sent' = sent \o SubSeq(queue, 1, n)
          /\ queue' = SubSeq(queue, n + 1, Len(queue))
    /\ UNCHANGED <<open, peer>>

PeerLeaves == peer /\ peer' = FALSE /\ UNCHANGED <<queue, sent, open>>

(* Once the peer is gone what is queued may be given up. *)
Abandon == open /\ ~peer /\ queue' = <<>> /\ UNCHANGED <<sent, open, peer>>

Close == open /\ open' = FALSE /\ queue' = <<>> /\ UNCHANGED <<sent, peer>>

Next == Accept \/ Transmit \/ PeerLeaves \/ Abandon \/ Close

Spec == Init /\ [][Next]_qvars
=============================================================================
