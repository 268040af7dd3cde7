------------------------------ MODULE RtmpChunk ------------------------------
(***************************************************************************)
(* The RTMP byte stream of one connection: the handshake and split_rtmp of *)
(* rtmp_protocol at one end, a peer that chunks messages at the other, and *)
(* TCP between them, which hands over the bytes in pieces of any size.     *)
(*                                                                         *)
(* The wire carries chunks; the parser only sees how many bytes it has,    *)
(* and decides from the header fields and its own context where a chunk    *)
(* ends.  The payload of a message is the number of its bytes and, for Set *)
(* Chunk Size, the value.  Every iteration of split_rtmp's loop is a step; *)
(* nothing else touches its state meanwhile.                               *)
(*                                                                         *)
(* The sender is any client that follows the rules for chunks (Peer) or    *)
(* this program's own send_rtmp (Writer).  The acknowledgement windows are *)
(* left out: windows_size_ is never set.                                   *)
(***************************************************************************)
EXTENDS Integers, Sequences

CONSTANTS
    ShortIds, MediumIds, LongIds,  \* chunk streams by size of the basic header
    Lens,                 \* lengths of audio, video and command messages
    ChunkSizes,           \* what Set Chunk Size may ask for
    kDefaultChunkLength,  \* 128 in the code
    kC1HandshakeSize,     \* 1536 in the code
    kHeaderLength,        \* by format: 12, 8, 4 and 1 in the code
    kExtendedLength,      \* the extended time stamp: 4 in the code
    ControlLen,           \* length of Set Chunk Size: 4 in the code
    Mark,                 \* 0xFFFFFF: the time stamp is in the extended field
    TsMod,                \* 2^32
    MaxWire               \* bound: chunks on the wire

ASSUME ConstantsAssumption ==
    /\ Lens \subseteq Nat /\ ChunkSizes \subseteq Nat \ {0}
    /\ kDefaultChunkLength \in Nat \ {0} /\ kC1HandshakeSize \in Nat \ {0}
    /\ kHeaderLength \in [0..3 -> Nat \ {0}] /\ kExtendedLength \in Nat \ {0}
    /\ ControlLen \in Nat \ {0} /\ TsMod \in Nat \ {0} /\ Mark \in Nat \ {0}
    /\ MaxWire \in Nat

Csids == ShortIds \cup MediumIds \cup LongIds
Stamps == 0..(TsMod - 1)
Kinds == {"media", "set_chunk"}
Versions == {3, 6}

VARIABLES
    wire,            \* chunks not consumed yet, the first perhaps in part arrived
    in_flight,       \* bytes sent and not arrived
    size,            \* bytes in the session's read buffer
    step,            \* next_step_func_: "C0C1", "C2" or "split"
    c2_sent,         \* the peer has answered the handshake
    version,         \* the version byte of C0
    sender,          \* who writes the messages: a "client" or "send_rtmp"
    pc,              \* "read" between two calls of on_recv, "parse" inside one,
                     \* "closed" once a handler has thrown
    now, last,       \* chunked_data_map_
    chunk_size_in_,
    peer,            \* the peer's context of each chunk stream
    chunk_size_out,  \* the chunk size the peer uses
    owed,            \* history: messages sent whole and not handed on
    out              \* history: the message handed on by the last step of the parser

parser == <<size, step, pc, now, last, chunk_size_in_, out>>
vars == <<wire, in_flight, c2_sent, version, sender, parser, peer, chunk_size_out, owed>>

Smaller(a, b) == IF a < b THEN a ELSE b

NoPacket == [none |-> TRUE]
NoMessage == [none |-> TRUE]

\* The bytes of the basic header beyond its first.
Offset(c) == IF c \in ShortIds THEN 0 ELSE IF c \in MediumIds THEN 1 ELSE 2

\* The bytes of a chunk as its sender counts them.
WireLength(c) ==
    kHeaderLength[c.fmt] + Offset(c.csid) + (IF c.ext THEN kExtendedLength ELSE 0) + c.n

Bytes(chunks) ==
    LET sum[i \in 0..Len(chunks)] == IF i = 0 THEN 0 ELSE sum[i - 1] + WireLength(chunks[i])
    IN  sum[Len(chunks)]

Init ==
    /\ wire = <<>>
    /\ in_flight = 1 + kC1HandshakeSize
    /\ size = 0
    /\ step = "C0C1"
    /\ c2_sent = FALSE
    /\ version \in Versions /\ sender \in {"client", "send_rtmp"}
    /\ pc = "read"
    /\ now = [c \in Csids |-> NoPacket] /\ last = [c \in Csids |-> NoPacket]
    /\ chunk_size_in_ = kDefaultChunkLength
    /\ peer = [c \in Csids |-> NoPacket]
    /\ chunk_size_out = kDefaultChunkLength
    /\ owed = <<>> /\ out = NoMessage

-----------------------------------------------------------------------------
(* The peer                                                                *)

\* The peer sends C2 after S0, S1 and S2.
SendC2 ==
    /\ step = "C2" /\ ~c2_sent
    /\ c2_sent' = TRUE
    /\ in_flight' = in_flight + kC1HandshakeSize
    /\ UNCHANGED <<wire, version, sender, parser, peer, chunk_size_out, owed>>

\* One chunk of message m, fmt and n payload bytes, leaving m.left to send.
\* Fields that the format does not carry are not on the wire.
Chunk(m, fmt, n) ==
    [fmt |-> fmt, csid |-> m.csid, n |-> n, ext |-> m.field >= Mark,
     stamp |-> IF fmt < 3 \/ m.field >= Mark THEN m.field ELSE 0,
     len |-> IF fmt < 2 THEN m.len ELSE 0,
     kind |-> IF fmt < 2 THEN m.kind ELSE "none",
     value |-> m.value]

Message(m) == [csid |-> m.csid, len |-> m.len, kind |-> m.kind, ts |-> m.ts, value |-> m.value]

\* Puts the next chunk of m on the wire; a message of no bytes is not owed,
\* and a Set Chunk Size holds from the next chunk on.
SendChunk(m, fmt) ==
    LET n == Smaller(chunk_size_out, m.left)
        rest == [m EXCEPT !.left = @ - n]
        done == rest.left = 0
    IN
    /\ pc # "closed" /\ Len(wire) < MaxWire
    /\ wire' = Append(wire, Chunk(m, fmt, n))
    /\ in_flight' = in_flight + WireLength(Chunk(m, fmt, n))
    /\ peer' = [peer EXCEPT ![m.csid] = rest]
    /\ owed' = IF done /\ m.len > 0 THEN Append(owed, Message(m)) ELSE owed
    /\ chunk_size_out' = IF done /\ m.kind = "set_chunk" THEN m.value ELSE chunk_size_out
    /\ UNCHANGED <<c2_sent, version, sender, parser>>

\* A new message on c.  fmt 0 has an absolute time stamp, fmt 1 and 2 a
\* difference, and what a format leaves out is what the last message had.
StartMessage(c, fmt, len, kind, stamp, value) ==
    LET old == peer[c]
        field == IF fmt = 3 THEN old.field ELSE stamp
    IN
    /\ IF old = NoPacket THEN fmt = 0 ELSE old.left = 0
    /\ fmt >= 2 => len = old.len /\ kind = old.kind
    /\ fmt = 3 => stamp = old.field
    /\ SendChunk([csid |-> c, len |-> len, kind |-> kind, field |-> field, left |-> len,
                  value |-> value,
                  ts |-> IF fmt = 0 THEN stamp ELSE (old.ts + field) % TsMod], fmt)

ContinueMessage(c) ==
    /\ peer[c] # NoPacket /\ peer[c].left > 0
    /\ SendChunk(peer[c], 3)

\* Length, kind and value: a Set Chunk Size says how long chunks will be.
Bodies ==
    {<<len, "media", 0>> : len \in Lens} \cup {<<ControlLen, "set_chunk", v>> : v \in ChunkSizes}

Peer ==
    \/ \E c \in Csids : ContinueMessage(c)
    \/ \E c \in Csids, fmt \in 0..3, b \in Bodies, stamp \in Stamps :
         StartMessage(c, fmt, b[1], b[2], stamp, b[3])

-----------------------------------------------------------------------------
(* send_rtmp                                                               *)

\* A message as send_rtmp cuts it up: a whole header and then single bytes,
\* the extended time stamp repeated in every chunk.
Pieces(m) ==
    [i \in 1..((m.len + chunk_size_out - 1) \div chunk_size_out) |->
        Chunk(m, IF i = 1 THEN 0 ELSE 3,
              Smaller(chunk_size_out, m.len - (i - 1) * chunk_size_out))]

\* Every caller has data, and a chunk stream id that fits into one byte.
send_rtmp(c, len, kind, stamp, value) ==
    LET m == [csid |-> c, len |-> len, kind |-> kind, field |-> stamp, ts |-> stamp,
              value |-> value]
    IN
    /\ c \in ShortIds /\ len > 0
    /\ pc # "closed" /\ Len(wire) + Len(Pieces(m)) <= MaxWire
    /\ wire' = wire \o Pieces(m)
    /\ in_flight' = in_flight + Bytes(Pieces(m))
    /\ owed' = Append(owed, Message(m))
    /\ UNCHANGED <<c2_sent, version, sender, parser, peer>>

\* Fault: the new size already holds for the message that announces it.
SetChunkSizeFirst(c, v) ==
    LET m == [csid |-> c, len |-> ControlLen, kind |-> "set_chunk", field |-> 0, ts |-> 0,
              value |-> v]
        pieces == [i \in 1..((ControlLen + v - 1) \div v) |->
                     Chunk(m, IF i = 1 THEN 0 ELSE 3, Smaller(v, ControlLen - (i - 1) * v))]
    IN
    /\ pc # "closed" /\ Len(wire) + Len(pieces) <= MaxWire
    /\ wire' = wire \o pieces
    /\ in_flight' = in_flight + Bytes(pieces)
    /\ owed' = Append(owed, Message(m))
    /\ chunk_size_out' = v
    /\ UNCHANGED <<c2_sent, version, sender, parser, peer>>

set_chunk_size(c, v) ==
    /\ send_rtmp(c, ControlLen, "set_chunk", 0, v)
    /\ chunk_size_out' = v

Writer ==
    \/ \E c \in Csids, len \in Lens, stamp \in Stamps :
         send_rtmp(c, len, "media", stamp, 0) /\ UNCHANGED chunk_size_out
    \/ \E c \in Csids, v \in ChunkSizes : set_chunk_size(c, v)

-----------------------------------------------------------------------------
(* TCP and the handshake                                                   *)

\* A read completes with n bytes: on_recv calls on_parse_rtmp.
Arrive(n) ==
    /\ pc = "read"
    /\ in_flight' = in_flight - n
    /\ size' = size + n
    /\ pc' = "parse"
    /\ UNCHANGED <<wire, c2_sent, version, sender, step, now, last, chunk_size_in_, out, peer,
                   chunk_size_out, owed>>

\* C0 and C1 are answered with S0, S1 and S2 as soon as they are complete,
\* unless the version is not supported; the rest of the buffer, if any, waits
\* for the next read.
handle_C0C1 ==
    LET complete == size >= 1 + kC1HandshakeSize
        accepted == complete /\ version = 3
    IN
    /\ pc = "parse" /\ step = "C0C1"
    /\ pc' = IF complete /\ ~accepted THEN "closed" ELSE "read"
    /\ size' = IF accepted THEN size - (1 + kC1HandshakeSize) ELSE size
    /\ step' = IF accepted THEN "C2" ELSE step
    /\ UNCHANGED <<wire, in_flight, c2_sent, version, sender, now, last, chunk_size_in_, out, peer,
                   chunk_size_out, owed>>

\* C2, and split_rtmp of what follows it.
handle_C2 ==
    LET complete == size >= kC1HandshakeSize IN
    /\ pc = "parse" /\ step = "C2"
    /\ pc' = IF complete THEN "parse" ELSE "read"
    /\ size' = IF complete THEN size - kC1HandshakeSize ELSE size
    /\ step' = IF complete THEN "split" ELSE step
    /\ UNCHANGED <<wire, in_flight, c2_sent, version, sender, now, last, chunk_size_in_, out, peer,
                   chunk_size_out, owed>>

-----------------------------------------------------------------------------
(* split_rtmp                                                              *)

\* Fault: an absolute time stamp stays absolute.
RestoreAbsolute(c) ==
    IF now[c] # NoPacket THEN now[c]
    ELSE IF last[c] # NoPacket THEN [last[c] EXCEPT !.got = 0]
    ELSE [is_abs_stamp |-> FALSE, msg_length |-> 0, msg_type_id |-> "none", ts_delta |-> 0,
          time_stamp |-> 0, got |-> 0]

\* now_packet: the one in progress, or a new one with the last one's context.
restore_context(c) ==
    IF now[c] # NoPacket THEN now[c]
    ELSE IF last[c] # NoPacket THEN [last[c] EXCEPT !.is_abs_stamp = FALSE, !.got = 0]
    ELSE [is_abs_stamp |-> FALSE, msg_length |-> 0, msg_type_id |-> "none", ts_delta |-> 0,
          time_stamp |-> 0, got |-> 0]

\* The packet after the message header of chunk c.
Header(c) ==
    LET p == restore_context(c.csid) IN
    [p EXCEPT !.is_abs_stamp = @ \/ c.fmt = 0,
              !.ts_delta = IF c.fmt < 3 THEN Smaller(c.stamp, Mark) ELSE @,
              !.msg_length = IF c.fmt < 2 THEN c.len ELSE @,
              !.msg_type_id = IF c.fmt < 2 THEN c.kind ELSE @]

HeaderEnd(c) == kHeaderLength[c.fmt] + Offset(c.csid)

\* Fault: a type 3 chunk is taken to have no extended time stamp.
ExtendedNotRepeated(c, p) ==
    HeaderEnd(c) + (IF p.ts_delta = Mark /\ c.fmt # 3 THEN kExtendedLength ELSE 0)

ExtendedEnd(c, p) == HeaderEnd(c) + (IF p.ts_delta = Mark THEN kExtendedLength ELSE 0)

more(p) == Smaller(chunk_size_in_, p.msg_length - p.got)

\* The bytes the parser waits for: the whole chunk, as it sees it.
Required(c, p) == ExtendedEnd(c, p) + more(p)

HeaderHere == wire # <<>> /\ size >= HeaderEnd(Head(wire))
ChunkHere == HeaderHere /\ size >= Required(Head(wire), Header(Head(wire)))

\* The loop ends, or the header is not complete: nothing is kept.
NeedHeader ==
    /\ pc = "parse" /\ step = "split"
    /\ ~HeaderHere
    /\ pc' = "read" /\ out' = NoMessage
    /\ UNCHANGED <<wire, in_flight, c2_sent, version, sender, size, step, now, last,
                   chunk_size_in_, peer, chunk_size_out, owed>>

\* The header is complete and has been applied, the rest is not: it will be
\* parsed again from its first byte.
NeedBody ==
    LET c == Head(wire) IN
    /\ pc = "parse" /\ step = "split"
    /\ HeaderHere /\ ~ChunkHere
    /\ now' = [now EXCEPT ![c.csid] = Header(c)]
    /\ pc' = "read" /\ out' = NoMessage
    /\ UNCHANGED <<wire, in_flight, c2_sent, version, sender, size, step, last,
                   chunk_size_in_, peer, chunk_size_out, owed>>

\* The time stamp of a complete message.
TimeStamp(c, p) ==
    LET field == IF p.ts_delta = Mark THEN c.stamp ELSE p.ts_delta IN
    IF p.is_abs_stamp THEN field ELSE (field + p.time_stamp) % TsMod

\* The packet once its message is complete: last_packet is the same object.
Completed(c, p) == [p EXCEPT !.got = p.msg_length, !.time_stamp = TimeStamp(c, p)]

\* handle_chunk: the message goes on, and MSG_SET_CHUNK takes effect.
handle_chunk(c, p) ==
    /\ out' = [csid |-> c.csid, len |-> p.msg_length, kind |-> p.msg_type_id,
               ts |-> TimeStamp(c, p), value |-> c.value]
    /\ owed' = IF owed = <<>> THEN owed ELSE Tail(owed)
    /\ chunk_size_in_' = IF p.msg_type_id = "set_chunk" THEN c.value ELSE chunk_size_in_

\* One round of the loop with a whole chunk.
split_rtmp ==
    LET c == Head(wire)
        p == Header(c)
        written == [p EXCEPT !.got = @ + more(p)]
    IN
    /\ pc = "parse" /\ step = "split"
    /\ ChunkHere
    /\ size' = size - Required(c, p)
    /\ wire' = Tail(wire)
    /\ IF written.got = p.msg_length
       THEN /\ last' = [last EXCEPT ![c.csid] = Completed(c, p)]
            /\ now' = [now EXCEPT ![c.csid] = NoPacket]
            /\ IF p.msg_length > 0 THEN handle_chunk(c, p)
               ELSE out' = NoMessage /\ UNCHANGED <<owed, chunk_size_in_>>
       ELSE /\ now' = [now EXCEPT ![c.csid] = written]
            /\ out' = NoMessage
            /\ UNCHANGED <<last, owed, chunk_size_in_>>
    /\ UNCHANGED <<in_flight, c2_sent, version, sender, step, pc, peer, chunk_size_out>>

\* The handler of a complete message throws (a command out of place, media
\* before publish, ...): split_rtmp and on_parse_rtmp are left and the session
\* is shut down.
HandlerThrows ==
    LET c == Head(wire)
        p == Header(c)
    IN
    /\ pc = "parse" /\ step = "split"
    /\ ChunkHere
    /\ p.msg_type_id # "set_chunk" /\ p.msg_length > 0 /\ p.got + more(p) = p.msg_length
    /\ pc' = "closed" /\ out' = NoMessage
    /\ UNCHANGED <<wire, in_flight, c2_sent, version, sender, size, step, now, last, chunk_size_in_,
                   peer, chunk_size_out, owed>>

Parser ==
    \/ \E n \in 1..in_flight : Arrive(n)
    \/ handle_C0C1
    \/ handle_C2
    \/ NeedHeader
    \/ NeedBody
    \/ split_rtmp
    \/ HandlerThrows

\* Messages are written after the handshake.
Next ==
    \/ SendC2
    \/ c2_sent /\ sender = "client" /\ Peer
    \/ c2_sent /\ sender = "send_rtmp" /\ Writer
    \/ Parser

Spec == Init /\ [][Next]_vars

-----------------------------------------------------------------------------
(* Properties                                                              *)

\* Types; no more bytes are collected for a message than it has.
TypeOK ==
    /\ in_flight \in Nat /\ size \in Nat
    /\ step \in {"C0C1", "C2", "split"} /\ pc \in {"read", "parse", "closed"}
    /\ c2_sent \in BOOLEAN
    /\ chunk_size_in_ \in ChunkSizes \cup {kDefaultChunkLength}
    /\ Len(wire) <= MaxWire
    /\ \A c \in Csids : now[c] # NoPacket => now[c].got \in 0..now[c].msg_length

HandshakeBytes ==
    (IF step = "C0C1" THEN 1 + kC1HandshakeSize ELSE 0) +
    (IF step # "split" /\ c2_sent THEN kC1HandshakeSize ELSE 0)

\* The parser is always at the start of a chunk: what it has not consumed is
\* exactly what was sent from there on, wherever TCP cut the stream.
InSync == size + in_flight = HandshakeBytes + Bytes(wire)

\* Types, and the parser's place in the stream.
ParserInv == TypeOK /\ InSync

\* When everything sent has arrived, nothing is left: split_rtmp never waits
\* for bytes that the peer has no reason to send.
NothingStuck ==
    pc = "read" /\ in_flight = 0 => size = 0 /\ wire = <<>> /\ owed = <<>>

\* Reassembly: messages come out whole, in order, with the length, the kind
\* and the time stamp they were sent with, whatever the interleaving of chunk
\* streams, the formats of the headers and the sizes of the reads.
Stream == INSTANCE MessageStream WITH
    Messages <- [csid : Csids, len : Lens \cup {ControlLen}, kind : Kinds, ts : Stamps,
                 value : ChunkSizes \cup {0}]
RefinesStream == Stream!Spec
=============================================================================
