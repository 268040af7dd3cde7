-------------------------- MODULE FlatBufferProofs --------------------------
(***************************************************************************)
(* Proofs that flat_buffer is a queue of bytes, for every capacity, limit, *)
(* read size and number of bytes: what moves or reallocates the storage    *)
(* keeps the unread bytes, and the specification implements ByteQueue.     *)
(***************************************************************************)
EXTENDS FlatBuffer, TLAPS

-----------------------------------------------------------------------------
(* Making room                                                             *)

\* m holds the unread bytes of b at the begin of its storage.
Compacted(b, m) ==
    /\ IsBuffer(m)
    /\ m.read_index_ = 0 /\ m.write_index_ = unread_length(b)
    /\ \A i \in 0..(unread_length(b) - 1) : m.data_[i] = b.data_[b.read_index_ + i]

\* The lengths of a buffer are natural numbers.
LEMMA Lengths ==
    ASSUME NEW b, IsBuffer(b)
    PROVE  /\ b.capacity_ \in Nat /\ b.write_index_ \in Nat /\ b.read_index_ \in Nat
           /\ b.read_index_ <= b.write_index_ /\ b.write_index_ <= b.capacity_
           /\ b.block \in Nat /\ b.data_ \in [0..(b.capacity_ - 1) -> Nat]
           /\ unread_length(b) \in Nat /\ unread_length(b) <= b.capacity_
           /\ unread_length(b) = b.write_index_ - b.read_index_
           /\ writable_bytes(b) \in Nat
BY DEF IsBuffer, unread_length, writable_bytes

\* Buffer b with other contents and indices.
Edited(b, d, r, w) == [b EXCEPT !.data_ = d, !.read_index_ = r, !.write_index_ = w]

\* It is a buffer of the same capacity in the same block.
LEMMA EditLemma ==
    ASSUME NEW b, IsBuffer(b), NEW d, NEW r, NEW w
    PROVE  /\ Edited(b, d, r, w).data_ = d
           /\ Edited(b, d, r, w).read_index_ = r
           /\ Edited(b, d, r, w).write_index_ = w
           /\ Edited(b, d, r, w).capacity_ = b.capacity_
           /\ Edited(b, d, r, w).block = b.block
           /\ d \in [0..(b.capacity_ - 1) -> Nat] /\ w \in 0..b.capacity_ /\ r \in 0..w
                => IsBuffer(Edited(b, d, r, w))
BY DEF IsBuffer, Edited

\* memmove within the block.
LEMMA MoveLemma ==
    ASSUME NEW b, IsBuffer(b)
    PROVE  /\ Compacted(b, move_unread_to_begin(b))
           /\ move_unread_to_begin(b).capacity_ = b.capacity_
           /\ move_unread_to_begin(b).block = b.block
<1>. DEFINE d == [i \in 0..(b.capacity_ - 1) |->
                    IF i < unread_length(b) THEN b.data_[b.read_index_ + i] ELSE b.data_[i]]
            m == Edited(b, d, 0, unread_length(b))
<1>1. move_unread_to_begin(b) = m
  BY DEF move_unread_to_begin, Edited
<1>2. d \in [0..(b.capacity_ - 1) -> Nat]
  <2>1. \A i \in 0..(b.capacity_ - 1) : i < unread_length(b) => b.read_index_ + i \in 0..(b.capacity_ - 1)
    BY Lengths
  <2>. QED BY <2>1, Lengths
<1>3. \A i \in 0..(unread_length(b) - 1) : d[i] = b.data_[b.read_index_ + i]
  BY Lengths
<1>4. unread_length(b) \in 0..b.capacity_ /\ 0 \in 0..unread_length(b)
  BY Lengths
<1>. HIDE DEF d
<1>5. /\ m.capacity_ = b.capacity_ /\ m.block = b.block /\ m.data_ = d
      /\ m.read_index_ = 0 /\ m.write_index_ = unread_length(b)
      /\ IsBuffer(m)
  BY <1>2, <1>4, EditLemma
<1>. QED BY <1>1, <1>3, <1>5 DEF Compacted

\* memcpy into a new block with room for the unread bytes.
LEMMA ReallocatedLemma ==
    ASSUME NEW b, IsBuffer(b), NEW capacity \in Nat, unread_length(b) <= capacity
    PROVE  /\ Compacted(b, Reallocated(b, capacity))
           /\ Reallocated(b, capacity).capacity_ = capacity
           /\ Reallocated(b, capacity).block = b.block + 1
<1>. DEFINE d == [i \in 0..(capacity - 1) |->
                    IF i < unread_length(b) THEN b.data_[b.read_index_ + i] ELSE Junk]
            m == Reallocated(b, capacity)
<1>1. /\ m.capacity_ = capacity /\ m.block = b.block + 1 /\ m.data_ = d
      /\ m.read_index_ = 0 /\ m.write_index_ = unread_length(b)
  BY DEF Reallocated
<1>2. d \in [0..(capacity - 1) -> Nat]
  <2>1. \A i \in 0..(capacity - 1) : i < unread_length(b) => b.read_index_ + i \in 0..(b.capacity_ - 1)
    BY Lengths
  <2>. QED BY <2>1, Lengths DEF Junk
<1>3. \A i \in 0..(unread_length(b) - 1) : d[i] = b.data_[b.read_index_ + i]
  BY Lengths
<1>4. IsBuffer(m)
  BY <1>1, <1>2, Lengths DEF IsBuffer, Reallocated
<1>. QED BY <1>1, <1>3, <1>4 DEF Compacted

\* grow leaves room for len bytes, in a block of at least the old capacity.
LEMMA GrowLemma ==
    ASSUME NEW b, IsBuffer(b), NEW len \in Nat
    PROVE  /\ Compacted(b, grow(b, len))
           /\ writable_bytes(grow(b, len)) >= len
           /\ grow(b, len).capacity_ <= 2 * b.capacity_ + len
<1>1. CASE writable_bytes(b) < len
  <2>1. 2 * b.capacity_ + len \in Nat /\ unread_length(b) <= 2 * b.capacity_ + len
    BY Lengths
  <2>2. grow(b, len) = Reallocated(b, 2 * b.capacity_ + len)
    BY <1>1 DEF grow
  <2>3. /\ Compacted(b, grow(b, len)) /\ grow(b, len).capacity_ = 2 * b.capacity_ + len
    BY <2>1, <2>2, ReallocatedLemma
  <2>. QED BY <2>3, Lengths DEF Compacted, writable_bytes
<1>2. CASE ~(writable_bytes(b) < len)
  <2>1. grow(b, len) = move_unread_to_begin(b)
    BY <1>2 DEF grow
  <2>2. /\ Compacted(b, grow(b, len)) /\ grow(b, len).capacity_ = b.capacity_
        /\ grow(b, len).write_index_ = unread_length(b)
    BY <2>1, MoveLemma DEF Compacted
  <2>3. b.capacity_ - unread_length(b) >= len
    BY <1>2, Lengths DEF writable_bytes
  <2>. QED BY <2>2, <2>3, Lengths DEF writable_bytes
<1>. QED BY <1>1, <1>2

\* Compacting twice is compacting.
LEMMA CompactedTwice ==
    ASSUME NEW a, NEW b, NEW c, IsBuffer(a), Compacted(a, b), Compacted(b, c)
    PROVE  Compacted(a, c)
<1>1. unread_length(b) = unread_length(a)
  BY Lengths DEF Compacted, unread_length
<1>2. ASSUME NEW i \in 0..(unread_length(a) - 1) PROVE c.data_[i] = a.data_[a.read_index_ + i]
  <2>1. c.data_[i] = b.data_[b.read_index_ + i]
    BY <1>1 DEF Compacted
  <2>2. b.read_index_ + i = i
    BY Lengths DEF Compacted
  <2>. QED BY <2>1, <2>2 DEF Compacted
<1>. QED BY <1>1, <1>2 DEF Compacted

\* socket_read_length keeps the unread bytes, makes room unless the limit is
\* reached, and outgrows the limit by one doubling at most.
LEMMA ReadLengthLemma ==
    ASSUME NEW b, IsBuffer(b), NEW n \in Nat
    PROVE  LET m == socket_read_length(b, n) IN
           /\ m = b \/ Compacted(b, m)
           /\ ~LimitReached(b, n) => writable_bytes(m) >= n
           /\ m.capacity_ <= b.capacity_ \/ m.capacity_ <= 2 * kMaxCacheSize + n
           /\ LimitReached(b, n) => unread_length(m) > kMaxCacheSize - n
<1>. DEFINE m == socket_read_length(b, n)
            moved == move_unread_to_begin(b)
<1>0. kMaxCacheSize \in Nat
  BY ConstantsAssumption
<1>1. /\ Compacted(b, moved) /\ IsBuffer(moved) /\ moved.capacity_ = b.capacity_
      /\ unread_length(moved) = unread_length(b)
  <2>1. Compacted(b, moved) /\ moved.capacity_ = b.capacity_
    BY MoveLemma
  <2>. QED BY <2>1, Lengths DEF Compacted, unread_length
<1>2. CASE writable_bytes(b) >= n
  <2>1. m = b /\ ~LimitReached(b, n)
    BY <1>2, Lengths DEF socket_read_length, LimitReached
  <2>. QED BY <1>2, <2>1, Lengths
<1>3. CASE ~(writable_bytes(b) >= n) /\ (writable_bytes(moved) >= n \/ LimitReached(b, n))
  <2>1. m = moved
    BY <1>3 DEF socket_read_length
  <2>2. LimitReached(b, n) => unread_length(moved) > kMaxCacheSize - n
    <3>1. LimitReached(b, n) => moved.capacity_ - moved.write_index_ < n /\ b.capacity_ > kMaxCacheSize
      BY DEF LimitReached, writable_bytes
    <3>2. moved.write_index_ = unread_length(b)
      BY <1>1 DEF Compacted
    <3>. QED BY <1>0, <1>1, <3>1, <3>2, Lengths
  <2>. QED BY <1>1, <1>3, <2>1, <2>2, Lengths
<1>4. CASE ~(writable_bytes(b) >= n) /\ ~(writable_bytes(moved) >= n \/ LimitReached(b, n))
  <2>1. m = grow(moved, n)
    BY <1>4 DEF socket_read_length
  <2>2. /\ Compacted(moved, m) /\ writable_bytes(m) >= n /\ m.capacity_ <= 2 * moved.capacity_ + n
    BY <1>1, <2>1, GrowLemma
  <2>3. Compacted(b, m)
    BY <1>1, <2>2, CompactedTwice
  <2>4. b.capacity_ <= kMaxCacheSize
    BY <1>0, <1>1, <1>4, Lengths DEF LimitReached
  <2>5. m.capacity_ <= 2 * kMaxCacheSize + n
    <3>1. IsBuffer(m)
      BY <2>3 DEF Compacted
    <3>. QED BY <1>0, <1>1, <2>2, <2>4, <3>1, Lengths
  <2>. QED BY <1>4, <2>2, <2>3, <2>5
<1>. QED BY <1>2, <1>3, <1>4
-----------------------------------------------------------------------------
(* What is read and written                                                *)

\* Compacting keeps the unread bytes.
LEMMA CompactedTail ==
    ASSUME NEW b, NEW m, IsBuffer(b), Compacted(b, m), NEW a \in Nat, HoldsTail(b, a)
    PROVE  HoldsTail(m, a) /\ unread_length(m) = unread_length(b)
<1>1. /\ IsBuffer(m) /\ m.read_index_ = 0 /\ m.write_index_ = unread_length(b)
      /\ unread_length(b) = b.write_index_ - b.read_index_
      /\ b.read_index_ \in Nat /\ b.write_index_ \in Nat /\ unread_length(b) \in Nat
  BY Lengths DEF Compacted
<1>2. ASSUME NEW i \in m.read_index_..(m.write_index_ - 1)
      PROVE  m.data_[i] = a - m.write_index_ + i + 1
  <2>1. i \in 0..(unread_length(b) - 1)
    BY <1>1
  <2>2. m.data_[i] = b.data_[b.read_index_ + i]
    BY <2>1 DEF Compacted
  <2>3. b.read_index_ + i \in b.read_index_..(b.write_index_ - 1)
    BY <1>1, <2>1
  <2>4. b.data_[b.read_index_ + i] = a - b.write_index_ + (b.read_index_ + i) + 1
    BY <2>3 DEF HoldsTail
  <2>. QED BY <1>1, <2>2, <2>4
<1>3. unread_length(m) = unread_length(b)
  BY <1>1 DEF unread_length
<1>. QED BY <1>2, <1>3 DEF HoldsTail

\* The next n bytes stored at write_index_, where there is room for them.
Appended(b, n) == [Stored(b, b.write_index_, n) EXCEPT !.write_index_ = b.write_index_ + n]

\* They become the newest unread bytes, and the others stay where they are.
LEMMA AppendLemma ==
    ASSUME NEW b, IsBuffer(b), NEW n \in Nat, writable_bytes(b) >= n, arrived \in Nat
    PROVE  LET m == Appended(b, n) IN
           /\ IsBuffer(m)
           /\ m.read_index_ = b.read_index_ /\ m.write_index_ = b.write_index_ + n
           /\ m.capacity_ = b.capacity_ /\ m.block = b.block
           /\ \A i \in 0..(b.write_index_ - 1) : m.data_[i] = b.data_[i]
           /\ \A i \in b.write_index_..(b.write_index_ + n - 1) :
                m.data_[i] = arrived + i - b.write_index_ + 1
           /\ HoldsTail(b, arrived) => HoldsTail(m, arrived + n)
<1>. DEFINE at == b.write_index_
            d == [i \in 0..(b.capacity_ - 1) |->
                    IF at <= i /\ i < at + n THEN arrived + i - at + 1 ELSE b.data_[i]]
            m == Edited(b, d, b.read_index_, at + n)
<1>1. /\ at \in Nat /\ b.capacity_ \in Nat /\ at + n <= b.capacity_
      /\ b.read_index_ \in Nat /\ b.read_index_ <= at
      /\ b.data_ \in [0..(b.capacity_ - 1) -> Nat]
  BY Lengths DEF writable_bytes
<1>2. d \in [0..(b.capacity_ - 1) -> Nat]
  BY <1>1
<1>3. /\ \A i \in 0..(at - 1) : d[i] = b.data_[i]
      /\ \A i \in at..(at + n - 1) : d[i] = arrived + i - at + 1
  <2>1. ASSUME NEW i \in 0..(at - 1) PROVE d[i] = b.data_[i]
    <3>1. i \in 0..(b.capacity_ - 1) /\ ~(at <= i)
      BY <1>1
    <3>. QED BY <3>1
  <2>2. ASSUME NEW i \in at..(at + n - 1) PROVE d[i] = arrived + i - at + 1
    <3>1. i \in 0..(b.capacity_ - 1) /\ at <= i /\ i < at + n
      BY <1>1
    <3>. QED BY <3>1
  <2>. QED BY <2>1, <2>2
<1>. HIDE DEF d
<1>4. Stored(b, at, n) = [b EXCEPT !.data_ = d]
  BY DEF Stored, d
<1>5. Appended(b, n) = m
  BY <1>4 DEF Appended, Edited, IsBuffer
<1>6. /\ IsBuffer(m) /\ m.data_ = d /\ m.read_index_ = b.read_index_ /\ m.write_index_ = at + n
      /\ m.capacity_ = b.capacity_ /\ m.block = b.block
  BY <1>1, <1>2, EditLemma
<1>7. ASSUME HoldsTail(b, arrived) PROVE HoldsTail(m, arrived + n)
  <2>1. ASSUME NEW i \in b.read_index_..(at + n - 1)
        PROVE  d[i] = (arrived + n) - (at + n) + i + 1
    <3>1. CASE i < at
      <4>1. d[i] = b.data_[i] /\ i \in b.read_index_..(at - 1)
        BY <1>1, <1>3, <2>1, <3>1
      <4>2. b.data_[i] = arrived - at + i + 1
        BY <1>7, <4>1 DEF HoldsTail
      <4>. QED BY <1>1, <4>1, <4>2
    <3>2. CASE ~(i < at)
      <4>1. i \in at..(at + n - 1)
        BY <1>1, <3>2
      <4>2. d[i] = arrived + i - at + 1
        BY <1>3, <4>1
      <4>. QED BY <1>1, <4>1, <4>2
    <3>. QED BY <3>1, <3>2
  <2>2. ASSUME NEW i \in m.read_index_..(m.write_index_ - 1)
        PROVE  m.data_[i] = (arrived + n) - m.write_index_ + i + 1
    <3>1. i \in b.read_index_..(at + n - 1)
      BY <1>1, <1>6
    <3>2. d[i] = (arrived + n) - (at + n) + i + 1
      BY <2>1, <3>1
    <3>. QED BY <1>6, <3>2
  <2>. QED BY <2>2 DEF HoldsTail
<1>. QED BY <1>3, <1>5, <1>6, <1>7

\* Moving read_index_ forward drops unread bytes from the front.
LEMMA AdvanceLemma ==
    ASSUME NEW b, IsBuffer(b), NEW len \in Nat, len <= unread_length(b)
    PROVE  LET m == [b EXCEPT !.read_index_ = b.read_index_ + len] IN
           /\ IsBuffer(m)
           /\ m.read_index_ = b.read_index_ + len /\ m.write_index_ = b.write_index_
           /\ m.capacity_ = b.capacity_ /\ m.block = b.block /\ m.data_ = b.data_
           /\ unread_length(m) = unread_length(b) - len
           /\ \A a \in Nat : HoldsTail(b, a) => HoldsTail(m, a)
<1>. DEFINE m == [b EXCEPT !.read_index_ = b.read_index_ + len]
<1>1. b.read_index_ + len \in 0..b.write_index_
  BY Lengths
<1>2. m = Edited(b, b.data_, b.read_index_ + len, b.write_index_)
  BY DEF Edited, IsBuffer
<1>3. /\ IsBuffer(m) /\ m.data_ = b.data_ /\ m.read_index_ = b.read_index_ + len
      /\ m.write_index_ = b.write_index_ /\ m.capacity_ = b.capacity_ /\ m.block = b.block
  BY <1>1, <1>2, EditLemma, Lengths
<1>4. unread_length(m) = unread_length(b) - len
  BY <1>3, Lengths DEF unread_length
<1>5. \A i \in m.read_index_..(m.write_index_ - 1) : i \in b.read_index_..(b.write_index_ - 1)
  BY <1>3, Lengths
<1>6. ASSUME NEW a \in Nat, HoldsTail(b, a) PROVE HoldsTail(m, a)
  BY <1>3, <1>5, <1>6 DEF HoldsTail
<1>. QED BY <1>3, <1>4, <1>6
-----------------------------------------------------------------------------
(* The steps of a session                                                  *)

\* The inductive invariant.
Inv == BufferInv /\ ReadHasRoom /\ LimitEnforced

\* The constants are numbers.
LEMMA Constants ==
    /\ InitialSize \in Nat /\ kMaxCacheSize \in Nat /\ MaxBytes \in Nat
    /\ kSocketReadSize \in Nat /\ kSocketReadSize > 0 /\ Word \in Nat /\ Word > 0
BY ConstantsAssumption

\* What the invariant says of buf and arrived.
LEMMA InvFacts ==
    ASSUME Inv
    PROVE  IsBuffer(buf) /\ HoldsTail(buf, arrived) /\ arrived \in Nat /\ arrived <= MaxBytes
BY Constants DEF Inv, BufferInv, TypeOK

\* The buffers that the program constructs satisfy the invariant.
LEMMA InitStep == Init => Inv
<1>. SUFFICES ASSUME Init PROVE Inv
  OBVIOUS
<1>1. /\ buf.capacity_ = InitialSize /\ buf.read_index_ = 0 /\ buf.write_index_ = 0
      /\ buf.data_ = [i \in 0..(InitialSize - 1) |-> Junk] /\ buf.block = 1
  BY DEF Init
<1>2. IsBuffer(buf)
  BY <1>1, Constants DEF Init, IsBuffer, Junk
<1>3. TypeOK
  BY <1>2, Constants DEF Init, TypeOK, NoSnapshot, Phases
<1>4. HoldsTail(buf, arrived) /\ MessageKept
  BY <1>1 DEF Init, HoldsTail, MessageKept
<1>5. ReadHasRoom /\ LimitEnforced
  BY <1>1, Constants DEF Init, ReadHasRoom, LimitEnforced
<1>. QED BY <1>3, <1>4, <1>5 DEF Inv, BufferInv

\* do_read moves or reallocates, and keeps the unread bytes.
LEMMA DoReadStep ==
    ASSUME Inv, do_read
    PROVE  Inv' /\ unread_length(buf') = unread_length(buf) /\ UNCHANGED <<arrived, saved>>
<1>. DEFINE n == kSocketReadSize
<1>1. buf' = socket_read_length(buf, n)
  BY DEF do_read
<1>2. /\ buf' = buf \/ Compacted(buf, buf')
      /\ ~LimitReached(buf, n) => writable_bytes(buf') >= n
      /\ buf'.capacity_ <= buf.capacity_ \/ buf'.capacity_ <= 2 * kMaxCacheSize + n
      /\ LimitReached(buf, n) => unread_length(buf') > kMaxCacheSize - n
  BY <1>1, InvFacts, Constants, ReadLengthLemma
<1>3. /\ IsBuffer(buf') /\ HoldsTail(buf', arrived) /\ unread_length(buf') = unread_length(buf)
  <2>1. CASE buf' = buf
    BY <2>1, InvFacts
  <2>2. CASE Compacted(buf, buf')
    <3>1. IsBuffer(buf')
      BY <2>2 DEF Compacted
    <3>. QED BY <2>2, <3>1, InvFacts, CompactedTail
  <2>. QED BY <1>2, <2>1, <2>2
<1>4. CASE LimitReached(buf, n)
  <2>1. phase' = "deaf" /\ phase = "ready" /\ UNCHANGED <<region, snapshot, arrived, saved>>
    BY <1>4 DEF do_read
  <2>2. TypeOK'
    BY <1>3, <2>1 DEF Inv, BufferInv, TypeOK, Phases
  <2>3. MessageKept' /\ ReadHasRoom'
    BY <2>1 DEF MessageKept, ReadHasRoom
  <2>4. LimitEnforced'
    <3>1. buf.capacity_ <= InitialSize \/ buf.capacity_ <= 2 * kMaxCacheSize + n
      BY <2>1 DEF Inv, LimitEnforced
    <3>. QED BY <1>2, <1>3, <1>4, <2>1, <3>1, InvFacts, Lengths, Constants DEF LimitEnforced
  <2>. QED BY <1>3, <2>1, <2>2, <2>3, <2>4 DEF Inv, BufferInv
<1>5. CASE ~LimitReached(buf, n)
  <2>1. /\ phase' = "reading" /\ phase = "ready" /\ UNCHANGED <<snapshot, arrived, saved>>
        /\ region' = [block |-> buf'.block, at |-> buf'.write_index_]
    BY <1>5 DEF do_read, ReadRegion
  <2>2. TypeOK'
    <3>1. region' \in [block : Nat, at : Nat]
      BY <1>3, <2>1, Lengths
    <3>. QED BY <1>3, <2>1, <3>1 DEF Inv, BufferInv, TypeOK, Phases
  <2>3. MessageKept' /\ ReadHasRoom'
    BY <1>2, <1>5, <2>1 DEF MessageKept, ReadHasRoom
  <2>4. LimitEnforced'
    <3>1. buf.capacity_ <= InitialSize \/ buf.capacity_ <= 2 * kMaxCacheSize + n
      BY <2>1 DEF Inv, LimitEnforced
    <3>. QED BY <1>2, <1>3, <2>1, <3>1, InvFacts, Lengths, Constants DEF LimitEnforced
  <2>. QED BY <1>3, <2>1, <2>2, <2>3, <2>4 DEF Inv, BufferInv
<1>. QED BY <1>4, <1>5

\* The bytes of a completed read follow the unread ones: socket_consume finds
\* them where write_index_ points, and never throws.
LEMMA SocketConsumeStep ==
    ASSUME Inv, NEW n \in 1..kSocketReadSize, arrived + n <= MaxBytes, socket_consume(n)
    PROVE  /\ Inv' /\ unread_length(buf') = unread_length(buf) + n
           /\ arrived' = arrived + n /\ UNCHANGED saved
<1>0. n \in Nat /\ n <= kSocketReadSize
  BY Constants
<1>1. /\ region.block = buf.block /\ region.at = buf.write_index_ /\ phase = "reading"
      /\ writable_bytes(buf) >= kSocketReadSize
  BY DEF Inv, ReadHasRoom, socket_consume
<1>2. writable_bytes(buf) >= n
  BY <1>0, <1>1, InvFacts, Lengths, Constants
<1>. DEFINE b == Stored(buf, buf.write_index_, n)
<1>3. b.write_index_ = buf.write_index_ /\ b.capacity_ = buf.capacity_
  BY InvFacts DEF Stored, IsBuffer
<1>4. ~(n > writable_bytes(b))
  BY <1>0, <1>2, <1>3, InvFacts, Lengths DEF writable_bytes
<1>5. /\ phase' = "parsing" /\ buf' = [b EXCEPT !.write_index_ = b.write_index_ + n]
      /\ arrived' = arrived + n /\ UNCHANGED <<snapshot, region, saved>>
  BY <1>1, <1>4 DEF socket_consume
<1>6. buf' = Appended(buf, n)
  BY <1>3, <1>5 DEF Appended
<1>7. /\ IsBuffer(buf') /\ HoldsTail(buf', arrived + n) /\ buf'.capacity_ = buf.capacity_
      /\ buf'.read_index_ = buf.read_index_ /\ buf'.write_index_ = buf.write_index_ + n
  BY <1>0, <1>2, <1>6, InvFacts, AppendLemma
<1>8. TypeOK'
  <2>1. arrived' \in 0..MaxBytes
    BY <1>0, <1>5, InvFacts, Constants
  <2>. QED BY <1>5, <1>7, <2>1 DEF Inv, BufferInv, TypeOK, Phases
<1>9. MessageKept' /\ ReadHasRoom'
  BY <1>5 DEF MessageKept, ReadHasRoom
<1>10. LimitEnforced'
  BY <1>1, <1>5, <1>7 DEF Inv, LimitEnforced
<1>11. unread_length(buf') = unread_length(buf) + n
  BY <1>0, <1>7, InvFacts, Lengths DEF unread_length
<1>. QED BY <1>5, <1>7, <1>8, <1>9, <1>10, <1>11 DEF Inv, BufferInv

\* safe_consume drops len unread bytes, or all of them.
LEMMA SafeConsumeStep ==
    ASSUME Inv, NEW len \in Nat, safe_consume(len)
    PROVE  /\ Inv' /\ UNCHANGED <<arrived, saved>>
           /\ unread_length(buf') = IF len <= unread_length(buf) THEN unread_length(buf) - len ELSE 0
<1>1. phase = "parsing" /\ phase' = "ready" /\ UNCHANGED <<snapshot, region, arrived, saved>>
  BY DEF safe_consume
<1>2. /\ IsBuffer(buf') /\ HoldsTail(buf', arrived) /\ buf'.capacity_ = buf.capacity_
      /\ unread_length(buf') = IF len <= unread_length(buf) THEN unread_length(buf) - len ELSE 0
  <2>1. CASE len <= unread_length(buf)
    <3>1. buf' = [buf EXCEPT !.read_index_ = buf.read_index_ + len]
      BY <2>1 DEF safe_consume
    <3>. QED BY <2>1, <3>1, AdvanceLemma, InvFacts
  <2>2. CASE ~(len <= unread_length(buf))
    <3>1. buf' = Edited(buf, buf.data_, 0, 0)
      BY <2>2, InvFacts DEF safe_consume, Edited, IsBuffer
    <3>2. /\ IsBuffer(buf') /\ buf'.read_index_ = 0 /\ buf'.write_index_ = 0
          /\ buf'.capacity_ = buf.capacity_
      BY <3>1, EditLemma, InvFacts, Lengths
    <3>. QED BY <2>2, <3>2 DEF HoldsTail, unread_length
  <2>. QED BY <2>1, <2>2
<1>3. TypeOK'
  BY <1>1, <1>2 DEF Inv, BufferInv, TypeOK, Phases
<1>4. MessageKept' /\ ReadHasRoom' /\ LimitEnforced'
  BY <1>1, <1>2 DEF MessageKept, ReadHasRoom, Inv, LimitEnforced
<1>. QED BY <1>1, <1>2, <1>3, <1>4 DEF Inv, BufferInv
-----------------------------------------------------------------------------
(* The steps of a message                                                  *)

\* write makes room and appends; the message still begins at index 0.
LEMMA WriteStep ==
    ASSUME Inv, NEW n \in 1..(MaxBytes - arrived), write(n)
    PROVE  /\ Inv' /\ unread_length(buf') = unread_length(buf) + n
           /\ arrived' = arrived + n /\ UNCHANGED saved
<1>0. n \in Nat /\ arrived + n <= MaxBytes
  BY InvFacts, Constants
<1>. DEFINE b == ensure_writable_bytes(buf, n)
<1>1. /\ phase = "filling" /\ phase' = "filling" /\ UNCHANGED <<snapshot, region, saved>>
      /\ arrived' = arrived + n
      /\ buf' = [Stored(b, b.write_index_, n) EXCEPT !.write_index_ = Stored(b, b.write_index_, n).write_index_ + n]
  BY DEF write
<1>2. /\ buf.read_index_ = 0 /\ buf.write_index_ = arrived
      /\ \A i \in 0..(arrived - 1) : buf.data_[i] = i + 1
  BY <1>1 DEF Inv, BufferInv, MessageKept
<1>3. /\ IsBuffer(b) /\ HoldsTail(b, arrived) /\ writable_bytes(b) >= n
      /\ b.read_index_ = 0 /\ b.write_index_ = arrived
      /\ \A i \in 0..(arrived - 1) : b.data_[i] = i + 1
  <2>1. CASE writable_bytes(buf) < n
    <3>1. Compacted(buf, b) /\ writable_bytes(b) >= n
      BY <1>0, <2>1, InvFacts, GrowLemma DEF ensure_writable_bytes
    <3>2. unread_length(buf) = arrived
      BY <1>2, InvFacts DEF unread_length
    <3>3. IsBuffer(b) /\ b.read_index_ = 0 /\ b.write_index_ = arrived
      BY <3>1, <3>2 DEF Compacted
    <3>4. HoldsTail(b, arrived)
      BY <3>1, InvFacts, CompactedTail
    <3>5. ASSUME NEW i \in 0..(arrived - 1) PROVE b.data_[i] = i + 1
      BY <1>2, <3>1, <3>2, InvFacts DEF Compacted
    <3>. QED BY <3>1, <3>3, <3>4, <3>5
  <2>2. CASE ~(writable_bytes(buf) < n)
    <3>1. b = buf
      BY <2>2 DEF ensure_writable_bytes
    <3>2. writable_bytes(buf) >= n
      BY <1>0, <2>2, InvFacts, Lengths
    <3>. QED BY <1>2, <3>1, <3>2, InvFacts
  <2>. QED BY <2>1, <2>2
<1>. HIDE DEF b
<1>4. buf' = Appended(b, n)
  <2>1. Stored(b, b.write_index_, n).write_index_ = b.write_index_
    BY <1>3 DEF Stored, IsBuffer
  <2>. QED BY <1>1, <2>1 DEF Appended
<1>5. /\ IsBuffer(buf') /\ HoldsTail(buf', arrived + n)
      /\ buf'.read_index_ = 0 /\ buf'.write_index_ = arrived + n
      /\ \A i \in 0..(arrived - 1) : buf'.data_[i] = b.data_[i]
      /\ \A i \in arrived..(arrived + n - 1) : buf'.data_[i] = arrived + i - arrived + 1
  BY <1>0, <1>3, <1>4, InvFacts, AppendLemma
<1>6. ASSUME NEW i \in 0..(arrived + n - 1) PROVE buf'.data_[i] = i + 1
  <2>1. CASE i < arrived
    <3>1. i \in 0..(arrived - 1)
      BY <2>1, InvFacts
    <3>. QED BY <1>3, <1>5, <3>1
  <2>2. CASE ~(i < arrived)
    <3>1. i \in arrived..(arrived + n - 1)
      BY <1>0, <2>2, InvFacts
    <3>. QED BY <1>5, <3>1, InvFacts
  <2>. QED BY <2>1, <2>2
<1>7. MessageKept' /\ ReadHasRoom' /\ LimitEnforced'
  <2>0. arrived' = arrived + n
    BY <1>1
  <2>1. \A i \in 0..(arrived' - 1) : buf'.data_[i] = i + 1
    BY <1>0, <1>6, <2>0, InvFacts
  <2>2. buf'.write_index_ = arrived' /\ buf'.read_index_ = 0
    BY <1>1, <1>5
  <2>. QED BY <1>1, <2>1, <2>2 DEF MessageKept, ReadHasRoom, LimitEnforced
<1>8. TypeOK'
  <2>1. arrived' \in 0..MaxBytes
    BY <1>0, <1>1, InvFacts, Constants
  <2>. QED BY <1>1, <1>5, <2>1 DEF Inv, BufferInv, TypeOK, Phases
<1>9. unread_length(buf') = unread_length(buf) + n
  BY <1>0, <1>2, <1>5, InvFacts DEF unread_length
<1>. QED BY <1>1, <1>5, <1>7, <1>8, <1>9 DEF Inv, BufferInv

\* A command goes to its decoder as it is.
LEMMA CommandStep ==
    ASSUME Inv, on_process_cmd
    PROVE  Inv' /\ UNCHANGED <<buf, arrived, saved>>
BY DEF on_process_cmd, Inv, BufferInv, TypeOK, Phases, HoldsTail, MessageKept, ReadHasRoom,
       LimitEnforced

\* The unread bytes as a sequence: the last u of the first a bytes.
TailBytes(a, u) == [i \in 1..u |-> a - u + i]

\* In every state of the invariant, they are determined by their number.
LEMMA UnreadIsTail ==
    ASSUME NEW b, IsBuffer(b), NEW a \in Nat, HoldsTail(b, a)
    PROVE  Unread(b) = TailBytes(a, unread_length(b))
<1>. DEFINE u == unread_length(b)
<1>1. /\ u \in Nat /\ b.read_index_ \in Nat /\ b.write_index_ \in Nat
      /\ u = b.write_index_ - b.read_index_
  BY Lengths
<1>2. ASSUME NEW i \in 1..u PROVE b.data_[b.read_index_ + i - 1] = a - u + i
  <2>1. b.read_index_ + i - 1 \in b.read_index_..(b.write_index_ - 1)
    BY <1>1
  <2>2. b.data_[b.read_index_ + i - 1] = a - b.write_index_ + (b.read_index_ + i - 1) + 1
    BY <2>1 DEF HoldsTail
  <2>. QED BY <1>1, <2>2
<1>. QED BY <1>2 DEF Unread, TailBytes

\* The snapshot is that of a whole message.
LEMMA CaptureStep ==
    ASSUME Inv, capture_snapshot
    PROVE  Inv' /\ saved' = Unread(buf) /\ UNCHANGED <<buf, arrived>>
<1>1. /\ phase = "filling" /\ phase' = "decoding" /\ UNCHANGED <<buf, region, arrived>>
      /\ saved' = Unread(buf)
      /\ snapshot' = [capacity_temp_ |-> buf.capacity_, read_index_temp_ |-> buf.read_index_,
                      write_index_temp_ |-> buf.write_index_]
  BY DEF capture_snapshot
<1>2. /\ buf.read_index_ = 0 /\ buf.write_index_ = arrived
      /\ \A i \in 0..(arrived - 1) : buf.data_[i] = i + 1
  BY <1>1 DEF Inv, BufferInv, MessageKept
<1>3. saved' = [i \in 1..arrived |-> i]
  <2>1. Unread(buf) = TailBytes(arrived, arrived)
    BY <1>2, InvFacts, UnreadIsTail DEF unread_length
  <2>. QED BY <1>1, <2>1, InvFacts DEF TailBytes
<1>4. TypeOK'
  <2>1. snapshot' \in [capacity_temp_ : Nat, read_index_temp_ : Nat, write_index_temp_ : Nat]
    BY <1>1, InvFacts, Lengths
  <2>. QED BY <1>1, <2>1 DEF Inv, BufferInv, TypeOK, Phases
<1>5. MessageKept' /\ ReadHasRoom' /\ LimitEnforced'
  BY <1>1, <1>2, <1>3 DEF MessageKept, ReadHasRoom, LimitEnforced
<1>. QED BY <1>1, <1>4, <1>5 DEF Inv, BufferInv, HoldsTail

\* A decoder's read, or its exception.
LEMMA ConsumeStep ==
    ASSUME Inv, NEW len \in Nat, consume_or_fail(len)
    PROVE  /\ Inv' /\ UNCHANGED <<arrived, saved>>
           /\ \/ unread_length(buf') = unread_length(buf)
              \/ len <= unread_length(buf) /\ unread_length(buf') = unread_length(buf) - len
<1>1. /\ phase \in {"decoding", "command"} /\ UNCHANGED <<snapshot, region, arrived, saved>>
  BY DEF consume_or_fail
<1>2. CASE len > unread_length(buf)
  <2>1. phase' = "failed" /\ buf' = buf
    BY <1>2 DEF consume_or_fail, NotEnough
  <2>. QED
    BY <1>1, <2>1 DEF Inv, BufferInv, TypeOK, Phases, HoldsTail, MessageKept, ReadHasRoom,
                      LimitEnforced
<1>3. CASE ~(len > unread_length(buf))
  <2>1. phase' = phase /\ buf' = [buf EXCEPT !.read_index_ = buf.read_index_ + len]
    BY <1>3 DEF consume_or_fail, NotEnough
  <2>2. len <= unread_length(buf)
    BY <1>3, InvFacts, Lengths
  <2>3. /\ IsBuffer(buf') /\ HoldsTail(buf', arrived) /\ buf'.write_index_ = buf.write_index_
        /\ buf'.capacity_ = buf.capacity_ /\ buf'.data_ = buf.data_
        /\ unread_length(buf') = unread_length(buf) - len
    BY <2>1, <2>2, InvFacts, AdvanceLemma
  <2>4. TypeOK'
    BY <1>1, <2>1, <2>3 DEF Inv, BufferInv, TypeOK
  <2>5. MessageKept' /\ ReadHasRoom' /\ LimitEnforced'
    BY <1>1, <2>1, <2>3 DEF Inv, BufferInv, MessageKept, ReadHasRoom, LimitEnforced
  <2>. QED BY <1>1, <2>2, <2>3, <2>4, <2>5 DEF Inv, BufferInv
<1>. QED BY <1>2, <1>3

\* peek_uint64 steps over the first word and back.
LEMMA PeekStep ==
    ASSUME Inv, peek_uint64
    PROVE  Inv' /\ UNCHANGED <<buf, arrived, saved>>
<1>1. phase = "command" /\ phase' \in {"command", "failed"}
      /\ UNCHANGED <<snapshot, region, arrived, saved>>
  BY DEF peek_uint64
<1>2. buf' = buf
  <2>1. CASE NotEnough(2 * Word)
    BY <2>1 DEF peek_uint64
  <2>2. CASE ~NotEnough(2 * Word)
    <3>. DEFINE b == [buf EXCEPT !.read_index_ = buf.read_index_ + Word]
    <3>1. buf' = unread_bytes(b, Word)
      BY <2>2 DEF peek_uint64
    <3>2. b.read_index_ = buf.read_index_ + Word
      BY InvFacts DEF IsBuffer
    <3>3. (IF Word > b.read_index_ THEN 0 ELSE b.read_index_ - Word) = buf.read_index_
      BY <3>2, InvFacts, Lengths, Constants
    <3>4. unread_bytes(b, Word) = [b EXCEPT !.read_index_ = buf.read_index_]
      BY <3>3 DEF unread_bytes
    <3>5. [b EXCEPT !.read_index_ = buf.read_index_] = buf
      BY InvFacts DEF IsBuffer
    <3>. QED BY <3>1, <3>4, <3>5
  <2>. QED BY <2>1, <2>2
<1>. QED
  BY <1>1, <1>2 DEF Inv, BufferInv, TypeOK, Phases, HoldsTail, MessageKept, ReadHasRoom,
                    LimitEnforced

\* restore_snapshot makes the whole message unread again.
LEMMA RestoreStep ==
    ASSUME Inv, restore_snapshot
    PROVE  Inv' /\ unread_length(buf') = arrived /\ saved = TailBytes(arrived, arrived)
           /\ UNCHANGED <<arrived, saved>>
<1>1. /\ phase = "decoding" /\ phase' = "done" /\ UNCHANGED <<snapshot, region, arrived, saved>>
  BY DEF restore_snapshot
<1>2. /\ snapshot = [capacity_temp_ |-> buf.capacity_, read_index_temp_ |-> 0,
                     write_index_temp_ |-> arrived]
      /\ saved = [i \in 1..arrived |-> i]
      /\ buf.write_index_ = arrived /\ \A i \in 0..(arrived - 1) : buf.data_[i] = i + 1
  BY <1>1 DEF Inv, BufferInv, MessageKept
<1>3. buf' = Edited(buf, buf.data_, 0, arrived)
  BY <1>2, InvFacts DEF restore_snapshot, Edited, IsBuffer
<1>4. /\ IsBuffer(buf') /\ buf'.read_index_ = 0 /\ buf'.write_index_ = arrived
      /\ buf'.data_ = buf.data_ /\ buf'.capacity_ = buf.capacity_
  BY <1>2, <1>3, EditLemma, InvFacts, Lengths
<1>5. HoldsTail(buf', arrived) /\ unread_length(buf') = arrived
  BY <1>2, <1>4, InvFacts DEF HoldsTail, unread_length
<1>6. TypeOK'
  BY <1>1, <1>4 DEF Inv, BufferInv, TypeOK, Phases
<1>7. MessageKept' /\ ReadHasRoom' /\ LimitEnforced'
  BY <1>1, <1>2, <1>4 DEF MessageKept, ReadHasRoom, LimitEnforced
<1>8. saved = TailBytes(arrived, arrived)
  BY <1>2, InvFacts DEF TailBytes
<1>. QED BY <1>1, <1>5, <1>6, <1>7, <1>8 DEF Inv, BufferInv
-----------------------------------------------------------------------------
(* The theorems                                                            *)

\* Every step of the session or of the message keeps the invariant.
LEMMA InvStep ==
    ASSUME Inv, [Next]_vars
    PROVE  Inv'
<1>1. CASE UNCHANGED vars
  BY <1>1 DEF vars, Inv, BufferInv, TypeOK, HoldsTail, MessageKept, ReadHasRoom, LimitEnforced
<1>2. ASSUME NEW len \in 0..(unread_length(buf) + 1), safe_consume(len) \/ consume_or_fail(len)
      PROVE  Inv'
  <2>1. len \in Nat
    BY InvFacts, Lengths
  <2>. QED BY <1>2, <2>1, SafeConsumeStep, ConsumeStep
<1>. QED
  BY <1>1, <1>2, DoReadStep, SocketConsumeStep, WriteStep, CommandStep, CaptureStep, PeekStep,
     RestoreStep DEF Next, Session, Message

\* A decoded message goes out whole.
LEMMA InvDecoded == Inv => DecodedIntact
<1>. SUFFICES ASSUME Inv, phase = "done" PROVE Unread(buf) = [i \in 1..arrived |-> i]
  BY DEF DecodedIntact
<1>1. unread_length(buf) = arrived
  BY InvFacts DEF Inv, BufferInv, MessageKept, unread_length
<1>2. Unread(buf) = TailBytes(arrived, arrived)
  BY <1>1, InvFacts, UnreadIsTail
<1>. QED BY <1>2, InvFacts DEF TailBytes

\* Whatever arrives and is parsed, the indices stay in the storage and in
\* order, and the bytes between them are the newest ones, in order.
THEOREM BufferSafe == Spec => []BufferInv
<1>1. Inv /\ [Next]_vars => Inv'
  BY InvStep
<1>2. Inv => BufferInv
  BY DEF Inv
<1>. QED BY InitStep, <1>1, <1>2, PTL DEF Spec

\* A read in flight always has the room it was promised, in the block that
\* the buffer still uses, so socket_consume never throws.
THEOREM ReadsHaveRoom == Spec => []ReadHasRoom
<1>1. Inv /\ [Next]_vars => Inv'
  BY InvStep
<1>2. Inv => ReadHasRoom
  BY DEF Inv
<1>. QED BY InitStep, <1>1, <1>2, PTL DEF Spec

\* A session's buffer outgrows kMaxCacheSize by one doubling and one read at
\* most, and the limit's exception means a limit of unparsed bytes.
THEOREM LimitIsEnforced == Spec => []LimitEnforced
<1>1. Inv /\ [Next]_vars => Inv'
  BY InvStep
<1>2. Inv => LimitEnforced
  BY DEF Inv
<1>. QED BY InitStep, <1>1, <1>2, PTL DEF Spec

\* However a decoder moved in a message, after restore_snapshot the message is
\* whole.
THEOREM MessageIntact == Spec => []DecodedIntact
<1>1. Inv /\ [Next]_vars => Inv'
  BY InvStep
<1>. QED BY InitStep, InvDecoded, <1>1, PTL DEF Spec

-----------------------------------------------------------------------------
(* The buffer is a queue of bytes                                          *)

\* The length of a tail, and tails extended and shortened.
LEMMA TailLemma ==
    ASSUME NEW a \in Nat, NEW u \in Nat
    PROVE  /\ TailBytes(a, u) \in Seq(Int) /\ Len(TailBytes(a, u)) = u
           /\ \A n \in Nat : TailBytes(a, u) \o [i \in 1..n |-> a + i] = TailBytes(a + n, u + n)
           /\ \A n \in 0..u : SubSeq(TailBytes(a, u), n + 1, u) = TailBytes(a, u - n)
<1>1. TailBytes(a, u) \in Seq(Int) /\ Len(TailBytes(a, u)) = u
  BY DEF TailBytes
<1>2. ASSUME NEW n \in Nat PROVE TailBytes(a, u) \o [i \in 1..n |-> a + i] = TailBytes(a + n, u + n)
  BY <1>1 DEF TailBytes
<1>3. ASSUME NEW n \in 0..u PROVE SubSeq(TailBytes(a, u), n + 1, u) = TailBytes(a, u - n)
  BY <1>1 DEF TailBytes
<1>. QED BY <1>1, <1>2, <1>3

\* The queue of a state of the invariant, and its length.
LEMMA QueueLemma ==
    ASSUME Inv
    PROVE  /\ Unread(buf) = TailBytes(arrived, unread_length(buf))
           /\ Len(Unread(buf)) = unread_length(buf) /\ unread_length(buf) \in Nat
<1>1. unread_length(buf) \in Nat
  BY InvFacts, Lengths
<1>2. Unread(buf) = TailBytes(arrived, unread_length(buf))
  BY InvFacts, UnreadIsTail
<1>. QED BY <1>1, <1>2, InvFacts, TailLemma

\* The same, of the state after a step.
LEMMA NextQueueLemma ==
    ASSUME Inv'
    PROVE  Unread(buf') = TailBytes(arrived', unread_length(buf'))
<1>1. IsBuffer(buf') /\ HoldsTail(buf', arrived') /\ arrived' \in Nat
  BY Constants DEF Inv, BufferInv, TypeOK
<1>. QED BY <1>1, UnreadIsTail

\* A step that leaves the number of unread and of arrived bytes alone leaves
\* the queue alone.
LEMMA SameQueue ==
    ASSUME Inv, Inv', unread_length(buf') = unread_length(buf), UNCHANGED <<arrived, saved>>
    PROVE  UNCHANGED Queue!vars
<1>1. Unread(buf') = Unread(buf)
  BY NextQueueLemma, QueueLemma
<1>. QED BY <1>1 DEF Queue!vars

\* Bytes stored are bytes received.
LEMMA ReceiveStep ==
    ASSUME Inv, Inv', NEW n \in 1..(MaxBytes - arrived), arrived' = arrived + n, UNCHANGED saved,
           unread_length(buf') = unread_length(buf) + n
    PROVE  Queue!Next
<1>1. n \in Nat /\ arrived \in Nat
  BY InvFacts, Constants
<1>2. Unread(buf') = TailBytes(arrived + n, unread_length(buf) + n)
  BY NextQueueLemma
<1>3. ASSUME NEW u \in Nat, Unread(buf) = TailBytes(arrived, u), u = unread_length(buf)
      PROVE  Unread(buf') = Unread(buf) \o [i \in 1..n |-> arrived + i]
  <2>1. TailBytes(arrived, u) \o [i \in 1..n |-> arrived + i] = TailBytes(arrived + n, u + n)
    BY <1>1, TailLemma
  <2>. QED BY <1>2, <1>3, <2>1
<1>4. Unread(buf') = Unread(buf) \o [i \in 1..n |-> arrived + i]
  BY <1>3, QueueLemma
<1>. QED BY <1>4 DEF Queue!Next, Queue!Receive

\* A moved read_index_ consumes.
LEMMA QueueConsumeStep ==
    ASSUME Inv, Inv', NEW n \in Nat, n <= unread_length(buf), UNCHANGED <<arrived, saved>>,
           unread_length(buf') = unread_length(buf) - n
    PROVE  [Queue!Next]_Queue!vars
<1>1. CASE n = 0
  <2>1. unread_length(buf') = unread_length(buf)
    BY <1>1, QueueLemma
  <2>. QED BY <2>1, SameQueue
<1>2. CASE n # 0
  <2>1. n \in 1..Len(Unread(buf)) /\ n \in 0..unread_length(buf)
    BY <1>2, QueueLemma
  <2>2. Unread(buf') = TailBytes(arrived, unread_length(buf) - n)
    BY NextQueueLemma
  <2>3. SubSeq(TailBytes(arrived, unread_length(buf)), n + 1, unread_length(buf))
          = TailBytes(arrived, unread_length(buf) - n)
    BY <2>1, InvFacts, QueueLemma, TailLemma
  <2>4. Unread(buf') = SubSeq(Unread(buf), n + 1, Len(Unread(buf)))
    BY <2>2, <2>3, QueueLemma
  <2>. QED BY <2>1, <2>4 DEF Queue!Next, Queue!Consume
<1>. QED BY <1>1, <1>2

\* Every step of the buffer is a step of the queue, or leaves it alone.
LEMMA QueueStep ==
    ASSUME Inv, [Next]_vars
    PROVE  [Queue!Next]_Queue!vars
<1>0. Inv'
  BY InvStep
<1>1. CASE do_read
  BY <1>0, <1>1, DoReadStep, SameQueue
<1>2. ASSUME NEW n \in 1..kSocketReadSize, arrived + n <= MaxBytes, socket_consume(n)
      PROVE  [Queue!Next]_Queue!vars
  <2>1. n \in 1..(MaxBytes - arrived)
    BY <1>2, InvFacts, Constants
  <2>. QED BY <1>0, <1>2, <2>1, SocketConsumeStep, ReceiveStep
<1>3. ASSUME NEW len \in 0..(unread_length(buf) + 1), safe_consume(len)
      PROVE  [Queue!Next]_Queue!vars
  <2>1. len \in Nat
    BY QueueLemma
  <2>2. /\ UNCHANGED <<arrived, saved>>
        /\ unread_length(buf') = IF len <= unread_length(buf) THEN unread_length(buf) - len ELSE 0
    BY <1>3, <2>1, SafeConsumeStep
  <2>3. CASE len <= unread_length(buf)
    BY <1>0, <2>1, <2>2, <2>3, QueueConsumeStep
  <2>4. CASE ~(len <= unread_length(buf))
    <3>1. unread_length(buf') = unread_length(buf) - unread_length(buf)
      BY <2>2, <2>4, QueueLemma
    <3>2. unread_length(buf) \in Nat /\ unread_length(buf) <= unread_length(buf)
      BY QueueLemma
    <3>. QED BY <1>0, <2>2, <3>1, <3>2, QueueConsumeStep
  <2>. QED BY <2>3, <2>4
<1>4. ASSUME NEW n \in 1..(MaxBytes - arrived), write(n) PROVE [Queue!Next]_Queue!vars
  BY <1>0, <1>4, WriteStep, ReceiveStep
<1>5. CASE on_process_cmd \/ peek_uint64
  <2>1. UNCHANGED <<buf, arrived, saved>>
    BY <1>5, CommandStep, PeekStep
  <2>. QED BY <2>1 DEF Queue!vars, Unread, unread_length
<1>6. CASE capture_snapshot
  <2>1. saved' = Unread(buf) /\ UNCHANGED <<buf, arrived>>
    BY <1>6, CaptureStep
  <2>2. Unread(buf') = Unread(buf)
    BY <2>1 DEF Unread, unread_length
  <2>. QED BY <2>1, <2>2 DEF Queue!Next, Queue!Save
<1>7. ASSUME NEW len \in 0..(unread_length(buf) + 1), consume_or_fail(len)
      PROVE  [Queue!Next]_Queue!vars
  <2>1. len \in Nat
    BY QueueLemma
  <2>. QED BY <1>0, <1>7, <2>1, ConsumeStep, SameQueue, QueueConsumeStep
<1>8. CASE restore_snapshot
  <2>1. /\ unread_length(buf') = arrived /\ saved = TailBytes(arrived, arrived)
        /\ UNCHANGED <<arrived, saved>>
    BY <1>8, RestoreStep
  <2>2. Unread(buf') = saved
    BY <1>0, <2>1, NextQueueLemma
  <2>. QED BY <2>1, <2>2 DEF Queue!Next, Queue!Rewind
<1>9. CASE UNCHANGED vars
  BY <1>9 DEF vars, Queue!vars, Unread, unread_length
<1>. QED
  BY <1>1, <1>2, <1>3, <1>4, <1>5, <1>6, <1>7, <1>8, <1>9 DEF Next, Session, Message

\* flat_buffer implements ByteQueue: moving, growing, consuming, peeking and
\* returning to a snapshot lose, double and reorder no byte.
THEOREM BufferIsQueue == Spec => RefinesQueue
<1>1. Init => Queue!Init
  <2>. SUFFICES ASSUME Init PROVE Queue!Init
    OBVIOUS
  <2>1. unread_length(buf) = 0
    BY DEF Init, unread_length
  <2>2. Unread(buf) = <<>>
    BY <2>1 DEF Unread
  <2>. QED BY <2>2 DEF Init, Queue!Init
<1>2. Inv /\ [Next]_vars => Inv'
  BY InvStep
<1>3. Inv /\ [Next]_vars => [Queue!Next]_Queue!vars
  BY QueueStep
<1>. QED BY InitStep, <1>1, <1>2, <1>3, PTL DEF Spec, RefinesQueue, Queue!Spec
=============================================================================
