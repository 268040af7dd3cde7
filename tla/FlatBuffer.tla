----------------------------- MODULE FlatBuffer -----------------------------
(***************************************************************************)
(* network::flat_buffer in its two uses: the read buffer of a session      *)
(* (do_read, its completion, on_recv) and the buffer of one RTMP message   *)
(* (filled by split_rtmp, decoded by input_rtmp or AMFDecoder).            *)
(*                                                                         *)
(* The storage holds the numbers of the bytes in order of arrival, Junk    *)
(* where nothing was written.  An asynchronous read keeps the address it   *)
(* was given: a block of storage and an index in it.                       *)
(***************************************************************************)
EXTENDS Integers, Sequences

CONSTANTS
    InitialSize,      \* capacity at construction
    kSocketReadSize,  \* bytes asked for by one do_read
    kMaxCacheSize,    \* capacity above which a session's buffer grows no more
    Word,             \* half of what peek_uint64 looks at
    MaxBytes          \* bound: bytes that ever arrive

ASSUME ConstantsAssumption ==
    /\ InitialSize \in Nat /\ kMaxCacheSize \in Nat /\ MaxBytes \in Nat
    /\ kSocketReadSize \in Nat \ {0} /\ Word \in Nat \ {0}

VARIABLES
    buf,       \* data_, capacity_, read_index_, write_index_, and the block data_ points to
    snapshot,  \* capacity_temp_, read_index_temp_, write_index_temp_
    region,    \* where the read in flight stores
    phase,     \* what the owner of the buffer does next
    arrived,   \* history: bytes that have arrived
    saved      \* history: the unread bytes at the snapshot

vars == <<buf, snapshot, region, phase, arrived, saved>>

Junk == 0
NoSnapshot == [capacity_temp_ |-> 0, read_index_temp_ |-> 0, write_index_temp_ |-> 0]

(***************************************************************************)
(* phase:  session:  "ready" to do_read, "reading", "parsing" in on_recv,  *)
(*                   "deaf" after the limit's exception, "broken" after    *)
(*                   socket_consume's                                      *)
(*         message:  "filling", "decoding" (input_rtmp), "command" (AMF),  *)
(*                   "done", "failed" after a decoder's exception          *)
(***************************************************************************)
Phases == {"ready", "reading", "parsing", "deaf", "broken",
           "filling", "decoding", "command", "done", "failed"}

unread_length(b) == b.write_index_ - b.read_index_
writable_bytes(b) == b.capacity_ - b.write_index_
Unread(b) == [i \in 1..unread_length(b) |-> b.data_[b.read_index_ + i - 1]]

Init ==
    /\ buf = [data_ |-> [i \in 0..(InitialSize - 1) |-> Junk], capacity_ |-> InitialSize,
              read_index_ |-> 0, write_index_ |-> 0, block |-> 1]
    /\ snapshot = NoSnapshot
    /\ region = [block |-> 0, at |-> 0]
    /\ phase \in {"ready", "filling"}
    /\ arrived = 0 /\ saved = <<>>

-----------------------------------------------------------------------------
(* Making room                                                             *)

\* Fault: the indices move and the bytes do not.
MoveIndicesOnly(b) ==
    [b EXCEPT !.read_index_ = 0, !.write_index_ = unread_length(b)]

move_unread_to_begin(b) ==
    [b EXCEPT !.data_ = [i \in 0..(b.capacity_ - 1) |->
                           IF i < unread_length(b) THEN b.data_[b.read_index_ + i] ELSE b.data_[i]],
              !.read_index_ = 0,
              !.write_index_ = unread_length(b)]

\* A new block, with the unread bytes at its begin.
Reallocated(b, capacity) ==
    [data_ |-> [i \in 0..(capacity - 1) |->
                  IF i < unread_length(b) THEN b.data_[b.read_index_ + i] ELSE Junk],
     capacity_ |-> capacity, read_index_ |-> 0, write_index_ |-> unread_length(b),
     block |-> b.block + 1]

grow(b, len) ==
    IF writable_bytes(b) < len THEN Reallocated(b, 2 * b.capacity_ + len)
    ELSE move_unread_to_begin(b)

ensure_writable_bytes(b, n) == IF writable_bytes(b) < n THEN grow(b, n) ELSE b

\* Fault: no limit.
NoLimit(b, n) == FALSE

\* The limit's exception, and what the buffer is when the call ends.
LimitReached(b, n) ==
    /\ writable_bytes(b) < n
    /\ writable_bytes(move_unread_to_begin(b)) < n
    /\ b.capacity_ > kMaxCacheSize

socket_read_length(b, n) ==
    LET moved == move_unread_to_begin(b) IN
    IF writable_bytes(b) >= n THEN b
    ELSE IF writable_bytes(moved) >= n \/ LimitReached(b, n) THEN moved
    ELSE grow(moved, n)

-----------------------------------------------------------------------------
(* A session                                                               *)

\* Bytes arrived + 1 .. arrived + n stored from index at on.
Stored(b, at, n) ==
    [b EXCEPT !.data_ = [i \in 0..(b.capacity_ - 1) |->
                           IF at <= i /\ i < at + n THEN arrived + i - at + 1 ELSE b.data_[i]]]

\* Fault: the pointer is taken before the buffer makes room.
PointerFirst(before, after) == [block |-> before.block, at |-> before.write_index_]

\* The arguments of asio::buffer(write_begin(), socket_read_length(n)) are
\* evaluated from right to left by the compiler the Dockerfile builds with.
ReadRegion(before, after) == [block |-> after.block, at |-> after.write_index_]

do_read ==
    /\ phase = "ready"
    /\ buf' = socket_read_length(buf, kSocketReadSize)
    /\ IF LimitReached(buf, kSocketReadSize)
       THEN phase' = "deaf" /\ UNCHANGED region
       ELSE phase' = "reading" /\ region' = ReadRegion(buf, buf')
    /\ UNCHANGED <<snapshot, arrived, saved>>

\* The completion handler: n bytes are in the region, socket_consume(n).
socket_consume(n) ==
    LET b == IF region.block = buf.block THEN Stored(buf, region.at, n) ELSE buf IN
    /\ phase = "reading"
    /\ arrived' = arrived + n
    /\ IF n > writable_bytes(b)
       THEN phase' = "broken" /\ buf' = b
       ELSE phase' = "parsing" /\ buf' = [b EXCEPT !.write_index_ = @ + n]
    /\ UNCHANGED <<snapshot, region, saved>>

\* Fault: the length is not checked.
ConsumeUnchecked(len) ==
    /\ phase = "parsing"
    /\ buf' = [buf EXCEPT !.read_index_ = @ + len]
    /\ phase' = "ready"
    /\ UNCHANGED <<snapshot, region, arrived, saved>>

\* The parser's verdict; http's may lie beyond the unread bytes, since strstr
\* does not stop at their end.
safe_consume(len) ==
    /\ phase = "parsing"
    /\ buf' = IF len <= unread_length(buf) THEN [buf EXCEPT !.read_index_ = @ + len]
              ELSE [buf EXCEPT !.read_index_ = 0, !.write_index_ = 0]
    /\ phase' = "ready"
    /\ UNCHANGED <<snapshot, region, arrived, saved>>

-----------------------------------------------------------------------------
(* A message                                                               *)

write(n) ==
    LET b == ensure_writable_bytes(buf, n) IN
    /\ phase = "filling"
    /\ buf' = [Stored(b, b.write_index_, n) EXCEPT !.write_index_ = @ + n]
    /\ arrived' = arrived + n
    /\ UNCHANGED <<snapshot, region, phase, saved>>

\* A command goes to the AMF decoder as it is.
on_process_cmd ==
    /\ phase = "filling"
    /\ phase' = "command"
    /\ UNCHANGED <<buf, snapshot, region, arrived, saved>>

capture_snapshot ==
    /\ phase = "filling"
    /\ snapshot' = [capacity_temp_ |-> buf.capacity_, read_index_temp_ |-> buf.read_index_,
                    write_index_temp_ |-> buf.write_index_]
    /\ saved' = Unread(buf)
    /\ phase' = "decoding"
    /\ UNCHANGED <<buf, region, arrived>>

\* The check that every read begins with: read_uint8, read_uint16 and
\* read_uint32 peek and then consume.
NotEnough(len) == len > unread_length(buf)

\* consume_or_fail(len), and the reads that end in it.
consume_or_fail(len) ==
    /\ phase \in {"decoding", "command"}
    /\ IF NotEnough(len)
       THEN phase' = "failed" /\ UNCHANGED buf
       ELSE buf' = [buf EXCEPT !.read_index_ = @ + len] /\ UNCHANGED phase
    /\ UNCHANGED <<snapshot, region, arrived, saved>>

unread_bytes(b, len) ==
    [b EXCEPT !.read_index_ = IF len > @ THEN 0 ELSE @ - len]

peek_uint64 ==
    /\ phase = "command"
    /\ IF NotEnough(2 * Word)
       THEN phase' = "failed" /\ UNCHANGED buf
       ELSE /\ buf' = unread_bytes([buf EXCEPT !.read_index_ = @ + Word], Word)
            /\ UNCHANGED phase
    /\ UNCHANGED <<snapshot, region, arrived, saved>>

\* Fault: read_index_ stays where the decoder left it.
RestoreCapacityOnly ==
    /\ phase = "decoding"
    /\ buf' = [buf EXCEPT !.capacity_ = snapshot.capacity_temp_,
                          !.write_index_ = snapshot.write_index_temp_]
    /\ phase' = "done"
    /\ UNCHANGED <<snapshot, region, arrived, saved>>

restore_snapshot ==
    /\ phase = "decoding"
    /\ buf' = [buf EXCEPT !.capacity_ = snapshot.capacity_temp_,
                          !.read_index_ = snapshot.read_index_temp_,
                          !.write_index_ = snapshot.write_index_temp_]
    /\ phase' = "done"
    /\ UNCHANGED <<snapshot, region, arrived, saved>>

-----------------------------------------------------------------------------
Session ==
    \/ do_read
    \/ \E n \in 1..kSocketReadSize : arrived + n <= MaxBytes /\ socket_consume(n)
    \/ \E len \in 0..(unread_length(buf) + 1) : safe_consume(len)

Message ==
    \/ \E n \in 1..(MaxBytes - arrived) : write(n)
    \/ on_process_cmd
    \/ capture_snapshot
    \/ \E len \in 0..(unread_length(buf) + 1) : consume_or_fail(len)
    \/ peek_uint64
    \/ restore_snapshot

Next == Session \/ Message

Spec == Init /\ [][Next]_vars

-----------------------------------------------------------------------------
(* Properties                                                              *)

\* The indices never leave the storage and never cross.
IsBuffer(b) ==
    b \in [data_ : [0..(b.capacity_ - 1) -> Nat], capacity_ : Nat, block : Nat,
           read_index_ : 0..b.write_index_, write_index_ : 0..b.capacity_]

\* Types.
TypeOK ==
    /\ IsBuffer(buf)
    /\ snapshot \in [capacity_temp_ : Nat, read_index_temp_ : Nat, write_index_temp_ : Nat]
    /\ region \in [block : Nat, at : Nat]
    /\ phase \in Phases
    /\ arrived \in 0..MaxBytes

\* The unread bytes of b are the last of the first a bytes.
HoldsTail(b, a) ==
    \A i \in b.read_index_..(b.write_index_ - 1) : b.data_[i] = a - b.write_index_ + i + 1

\* A message stays in its storage from the first byte on until it is decoded,
\* and the snapshot is that of the whole of it.
MessageKept ==
    /\ phase \in {"filling", "decoding", "done"} =>
         /\ buf.write_index_ = arrived
         /\ \A i \in 0..(arrived - 1) : buf.data_[i] = i + 1
    /\ phase \in {"filling", "done"} => buf.read_index_ = 0
    /\ phase = "decoding" =>
         /\ snapshot = [capacity_temp_ |-> buf.capacity_, read_index_temp_ |-> 0,
                        write_index_temp_ |-> arrived]
         /\ saved = [i \in 1..arrived |-> i]

\* Types and indices; the bytes between the indices are the newest ones, in
\* order, and those a decoder has passed are still there to return to.
BufferInv == TypeOK /\ HoldsTail(buf, arrived) /\ MessageKept

\* The read in flight stores where write_index_ points, in the block the
\* buffer still uses and with room for all it may bring; so socket_consume
\* never throws.
ReadHasRoom ==
    /\ phase = "reading" =>
        /\ region.block = buf.block /\ region.at = buf.write_index_
        /\ writable_bytes(buf) >= kSocketReadSize
    /\ phase # "broken"

\* A session's buffer stays within twice the limit and one read, and only a
\* client with about a whole limit of unparsed bytes is given up on.
LimitEnforced ==
    /\ phase \in {"ready", "reading", "parsing", "deaf"} =>
         buf.capacity_ <= InitialSize \/ buf.capacity_ <= 2 * kMaxCacheSize + kSocketReadSize
    /\ phase = "deaf" => unread_length(buf) > kMaxCacheSize - kSocketReadSize

\* The buffer is a queue of bytes: moving, growing, consuming, and returning
\* to a snapshot lose, double and reorder none.
Queue == INSTANCE ByteQueue WITH queue <- Unread(buf)
RefinesQueue == Queue!Spec

\* A decoded message goes to the viewers whole, with every byte it came with.
DecodedIntact ==
    phase = "done" => Unread(buf) = [i \in 1..arrived |-> i]
=============================================================================
