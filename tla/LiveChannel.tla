----------------------------- MODULE LiveChannel -----------------------------
(***************************************************************************)
(* What a broadcast promises its viewers: whoever tunes in is sent the     *)
(* stream from the newest IDR frame on, as far back as Depth packets, and  *)
(* then every packet once, until it leaves; and whoever is tuned in when   *)
(* the channel goes off the air is told.                                   *)
(***************************************************************************)
EXTENDS Integers, Sequences

CONSTANTS
    Viewers,
    Depth     \* packets a new viewer is sent at most, the newest included

VARIABLES
    on_air,
    published,  \* number of packets so far; a packet is its number
    keys,       \* those that are IDR frames
    audience,   \* "out", "waiting" for its first packet, "tuned", "told" or "gone"
    received    \* what each viewer has been sent

vars == <<on_air, published, keys, audience, received>>

Init ==
    /\ on_air = TRUE
    /\ published = 0 /\ keys = {}
    /\ audience = [v \in Viewers |-> "out"]
    /\ received = [v \in Viewers |-> <<>>]

Publish(is_idr) ==
    /\ on_air
    /\ published' = published + 1
    /\ keys' = IF is_idr THEN keys \cup {published'} ELSE keys
    /\ received' = [v \in Viewers |-> IF audience[v] = "tuned"
                                      THEN Append(received[v], published') ELSE received[v]]
    /\ UNCHANGED <<on_air, audience>>

Join(v) ==
    /\ on_air /\ audience[v] = "out"
    /\ audience' = [audience EXCEPT ![v] = "waiting"]
    /\ UNCHANGED <<on_air, published, keys, received>>

\* Where a new viewer starts: at an IDR frame or the first packet, or at the
\* oldest of the last Depth packets, whichever is latest.
Starts == keys \cup {1, published - Depth + 1}

\* Those who wait are sent the stream from there on.
TuneIn ==
    /\ on_air /\ published > 0
    /\ \E first \in Starts :
         /\ \A s \in Starts : s <= first
         /\ received' = [v \in Viewers |->
                           IF audience[v] = "waiting"
                           THEN [i \in 1..(published - first + 1) |-> first + i - 1]
                           ELSE received[v]]
    /\ audience' = [v \in Viewers |-> IF audience[v] = "waiting" THEN "tuned" ELSE audience[v]]
    /\ UNCHANGED <<on_air, published, keys>>

Leave(v) ==
    /\ audience[v] # "gone"
    /\ audience' = [audience EXCEPT ![v] = "gone"]
    /\ UNCHANGED <<on_air, published, keys, received>>

GoOffAir ==
    /\ on_air /\ on_air' = FALSE
    /\ audience' = [v \in Viewers |-> IF audience[v] \in {"waiting", "tuned"} THEN "told"
                                      ELSE audience[v]]
    /\ UNCHANGED <<published, keys, received>>

Next ==
    \/ \E is_idr \in BOOLEAN : Publish(is_idr)
    \/ TuneIn
    \/ \E v \in Viewers : Join(v) \/ Leave(v)
    \/ GoOffAir

Spec == Init /\ [][Next]_vars
=============================================================================
