----------------------------- MODULE MCRtmpChunk -----------------------------
(***************************************************************************)
(* The small instance TLC checks: header lengths in the order of the       *)
(* code's, and a bound on what two chunk streams do together.              *)
(***************************************************************************)
EXTENDS RtmpChunk

SmallHeaders == [fmt \in 0..3 |-> 4 - fmt]

InUse == {c \in Csids : peer[c] # NoPacket}

\* Bound: the short chunk stream alone takes every header, length and time
\* stamp; once the long one is in use, messages of both are cut into chunks
\* and have no time stamps, and Set Chunk Size comes on the short one.
TwoPlain ==
    InUse \cap LongIds # {} =>
        /\ \A c \in InUse : peer[c].field = 0 /\ peer[c].ts = 0 /\ peer[c].len # 0
        /\ \A c \in InUse \cap LongIds : peer[c].kind = "media"
=============================================================================
