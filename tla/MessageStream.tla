---------------------------- MODULE MessageStream ----------------------------
(***************************************************************************)
(* What an RTMP chunk stream is for: the messages the peer has sent come   *)
(* out whole, once, unchanged and in the order in which they were          *)
(* completed.                                                              *)
(***************************************************************************)
EXTENDS Sequences

CONSTANTS Messages, NoMessage

VARIABLES
    owed,  \* sent and not handed on yet
    out    \* the message being handed on, if any

vars == <<owed, out>>

Init == owed = <<>> /\ out = NoMessage

Send(m) == owed' = Append(owed, m) /\ UNCHANGED out

Deliver == owed # <<>> /\ out' = Head(owed) /\ owed' = Tail(owed)

\* The receiver is done with the message.
Taken == out' = NoMessage /\ UNCHANGED owed

Next == (\E m \in Messages : Send(m)) \/ Deliver \/ Taken

Spec == Init /\ [][Next]_vars
=============================================================================
