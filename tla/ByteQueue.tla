------------------------------ MODULE ByteQueue ------------------------------
(***************************************************************************)
(* What network::flat_buffer promises the code that reads from it: bytes   *)
(* come out in the order they went in, none lost, doubled or made up, and  *)
(* a reader may return to the place it saved.  A byte is the number of its *)
(* arrival.                                                                *)
(***************************************************************************)
EXTENDS Naturals, Sequences

CONSTANT MaxBytes  \* bound: bytes that ever arrive

VARIABLES
    queue,    \* bytes not read yet
    arrived,  \* number of bytes that have arrived
    saved     \* the queue when its place was saved

vars == <<queue, arrived, saved>>

Init == queue = <<>> /\ arrived = 0 /\ saved = <<>>

Receive(n) ==
    /\ arrived' = arrived + n
    /\ queue' = queue \o [i \in 1..n |-> arrived + i]
    /\ UNCHANGED saved

Consume(n) ==
    /\ queue' = SubSeq(queue, n + 1, Len(queue))
    /\ UNCHANGED <<arrived, saved>>

Save == saved' = queue /\ UNCHANGED <<queue, arrived>>

Rewind == queue' = saved /\ UNCHANGED <<arrived, saved>>

Next ==
    \/ \E n \in 1..(MaxBytes - arrived) : Receive(n)
    \/ \E n \in 1..Len(queue) : Consume(n)
    \/ Save
    \/ Rewind

Spec == Init /\ [][Next]_vars
=============================================================================
