--------------------------- MODULE RtmpChunkProofs ---------------------------
(***************************************************************************)
(* Proofs about RtmpChunk, for every number of chunk streams, all lengths  *)
(* of messages, headers and chunks, and time stamps of any width: the      *)
(* parser keeps its place in the stream, never waits for bytes that will   *)
(* not come, and hands on the messages that were sent.                     *)
(*                                                                         *)
(* The parser runs behind the sender.  What is on the wire between the two *)
(* is a trace: the sender's context before and after each of its chunks.   *)
(* The parser's own context agrees with the start of the trace.            *)
(***************************************************************************)
EXTENDS RtmpChunk, Induction, SequenceTheorems, TLAPS

-----------------------------------------------------------------------------
(* Sums of lengths                                                         *)

\* at[i] is the sum of the first i numbers of lens.
Adds(at, lens, n) ==
    /\ at \in [0..n -> Nat] /\ at[0] = 0
    /\ \A i \in 1..n : lens[i] \in Nat
    /\ \A i \in 1..n : at[i] = at[i - 1] + lens[i]
    /\ \A i \in 0..n, j \in 0..n : i <= j => at[i] <= at[j]

\* There are such sums.
LEMMA SumsExist ==
    ASSUME NEW n \in Nat, NEW lens \in [1..n -> Nat]
    PROVE  \E at : Adds(at, lens, n)
<1>. DEFINE S == {k \in Nat : k <= n => \E at : Adds(at, lens, k)}
<1>1. 0 \in S
  <2>1. Adds([i \in 0..0 |-> 0], lens, 0)
    BY DEF Adds
  <2>. QED BY <2>1
<1>2. ASSUME NEW k \in S PROVE k + 1 \in S
  <2>. SUFFICES ASSUME k + 1 <= n PROVE \E at : Adds(at, lens, k + 1)
    OBVIOUS
  <2>1. k \in Nat /\ k <= n
    OBVIOUS
  <2>2. PICK f : Adds(f, lens, k)
    BY <2>1
  <2>3. lens[k + 1] \in Nat
    BY <2>1
  <2>. DEFINE g == [i \in 0..(k + 1) |-> IF i = k + 1 THEN f[k] + lens[k + 1] ELSE f[i]]
  <2>4. \A i \in 0..k : g[i] = f[i] /\ f[i] \in Nat
    BY <2>1, <2>2 DEF Adds
  <2>5. g[k + 1] = f[k] + lens[k + 1] /\ g \in [0..(k + 1) -> Nat]
    <3>1. f \in [0..k -> Nat] /\ k \in 0..k /\ k + 1 \in 0..(k + 1)
      BY <2>1, <2>2 DEF Adds
    <3>2. f[k] + lens[k + 1] \in Nat
      BY <2>3, <3>1
    <3>3. \A i \in 0..(k + 1) : i # k + 1 => f[i] \in Nat
      BY <2>1, <3>1
    <3>. QED BY <3>1, <3>2, <3>3
  <2>. HIDE DEF g, S
  <2>6. \A i \in 1..(k + 1) : g[i] = g[i - 1] + lens[i]
    <3>1. \A i \in 1..k : f[i] = f[i - 1] + lens[i]
      BY <2>2 DEF Adds
    <3>2. \A i \in 1..k : i - 1 \in 0..k /\ i \in 0..k
      BY <2>1
    <3>3. \A i \in 1..k : g[i] = g[i - 1] + lens[i]
      BY <2>4, <3>1, <3>2
    <3>4. g[k] = f[k] /\ (k + 1) - 1 = k
      BY <2>1, <2>4
    <3>5. \A i \in 1..(k + 1) : i \in 1..k \/ i = k + 1
      BY <2>1
    <3>. QED BY <2>5, <3>3, <3>4, <3>5
  <2>7. \A i \in 0..(k + 1), j \in 0..(k + 1) : i <= j => g[i] <= g[j]
    <3>1. \A i \in 0..k, j \in 0..k : i <= j => g[i] <= g[j]
      BY <2>2, <2>4 DEF Adds
    <3>2. k \in 0..k /\ (\A i \in 0..k : i <= k)
      BY <2>1
    <3>3. f[k] \in Nat /\ \A i \in 0..k : f[i] \in Nat /\ f[i] <= f[k]
      BY <2>2, <2>4, <3>2 DEF Adds
    <3>4. \A i \in 0..k : g[i] <= g[k + 1]
      BY <2>3, <2>4, <2>5, <3>3
    <3>5. g[k + 1] <= g[k + 1]
      BY <2>3, <2>5, <3>3
    <3>6. \A i \in 0..(k + 1) : i \in 0..k \/ i = k + 1
      BY <2>1
    <3>7. \A j \in 0..k : ~(k + 1 <= j)
      BY <2>1
    <3>. QED BY <3>1, <3>4, <3>5, <3>6, <3>7
  <2>8. g[0] = 0
    BY <2>1, <2>2, <2>4 DEF Adds
  <2>9. \A i \in 1..(k + 1) : lens[i] \in Nat
    BY <2>1
  <2>. QED BY <2>5, <2>6, <2>7, <2>8, <2>9 DEF Adds
<1>3. S = Nat
  <2>. HIDE DEF S
  <2>1. S \subseteq Nat
    BY DEF S
  <2>. QED BY <1>1, <1>2, <2>1, SetInduction
<1>4. n \in S
  BY <1>3
<1>. QED BY <1>4

\* The bytes of some chunks are the last of the sums of their lengths.
LEMMA BytesLemma ==
    ASSUME NEW w, NEW lens, Len(w) \in Nat, \A i \in 1..Len(w) : lens[i] = WireLength(w[i]),
           NEW at, Adds(at, lens, Len(w))
    PROVE  Bytes(w) = at[Len(w)]
<1>. DEFINE n == Len(w)
            sum == CHOOSE f : f = [i \in 0..n |-> IF i = 0 THEN 0 ELSE f[i - 1] + WireLength(w[i])]
<1>1. at = [i \in 0..n |-> IF i = 0 THEN 0 ELSE at[i - 1] + WireLength(w[i])]
  BY DEF Adds
<1>2. sum = [i \in 0..n |-> IF i = 0 THEN 0 ELSE sum[i - 1] + WireLength(w[i])]
  BY <1>1
<1>3. Bytes(w) = sum[n]
  BY DEF Bytes
<1>. DEFINE S == {k \in Nat : k <= n => sum[k] = at[k]}
<1>4. 0 \in S
  BY <1>2 DEF Adds
<1>5. ASSUME NEW k \in S PROVE k + 1 \in S
  <2>. SUFFICES ASSUME k + 1 <= n PROVE sum[k + 1] = at[k + 1]
    OBVIOUS
  <2>1. k \in Nat /\ k <= n /\ sum[k] = at[k]
    OBVIOUS
  <2>. HIDE DEF sum, S
  <2>2. k + 1 \in 1..n /\ k + 1 \in 0..n /\ (k + 1) - 1 = k /\ k + 1 # 0
    BY <2>1
  <2>3. sum[k + 1] = sum[k] + WireLength(w[k + 1])
    BY <1>2, <2>2
  <2>4. at[k + 1] = at[k] + lens[k + 1]
    BY <2>2 DEF Adds
  <2>. QED BY <2>1, <2>2, <2>3, <2>4
<1>6. S = Nat
  <2>. HIDE DEF S
  <2>1. S \subseteq Nat
    BY DEF S
  <2>. QED BY <1>4, <1>5, <2>1, SetInduction
<1>7. n \in S
  BY <1>6
<1>. QED BY <1>3, <1>7

-----------------------------------------------------------------------------
(* The sender                                                              *)

Sizes == ChunkSizes \cup {kDefaultChunkLength}

Chunks ==
    [fmt : 0..3, csid : Csids, n : Nat, ext : BOOLEAN, stamp : Nat, len : Nat,
     kind : Kinds \cup {"none"}, value : Nat]

Messages ==
    [csid : Csids, len : Lens \cup {ControlLen}, kind : Kinds, ts : Stamps,
     value : ChunkSizes \cup {0}]

\* A message as its sender has it while it is cut into chunks.
Sendings ==
    {m \in [csid : Csids, len : Lens \cup {ControlLen}, kind : Kinds, field : Stamps,
            left : Nat, value : ChunkSizes \cup {0}, ts : Stamps] :
       m.left <= m.len /\ (m.kind = "set_chunk" => m.value \in ChunkSizes /\ m.len > 0)}

Contexts ==
    {x \in [Csids -> Sendings \cup {NoPacket}] :
       \A c \in Csids : x[c] # NoPacket => x[c].csid = c}

\* What the next chunk of m carries with chunks of size z, and m after it.
Part(m, z) == Smaller(z, m.left)
Less(m, z) == [m EXCEPT !.left = @ - Part(m, z)]

\* The chunk ends m, and m is handed on.
Ends(m, z) == m.left <= z
Whole(m, z) == Ends(m, z) /\ m.len > 0

\* m goes on, or follows the last message q on its chunk stream.
Begins(q, fmt, m) ==
    \/ q # NoPacket /\ q.left > 0 /\ m = q /\ fmt = 3
    \/ /\ m.left = m.len
       /\ IF q = NoPacket THEN fmt = 0 ELSE q.left = 0
       /\ fmt >= 2 => m.len = q.len /\ m.kind = q.kind
       /\ fmt = 3 => m.field = q.field
       /\ m.ts = IF fmt = 0 THEN m.field ELSE (q.ts + m.field) % TsMod

\* h carries the next n bytes of m.
IsChunk(h, m, n) ==
    /\ h \in Chunks /\ h.csid = m.csid /\ h.n = n /\ h.value = m.value
    /\ (h.ext <=> m.field >= Mark)
    /\ h.fmt < 3 \/ m.field >= Mark => h.stamp = m.field
    /\ h.fmt < 2 => h.len = m.len /\ h.kind = m.kind

\* The sender's step from the contexts x and chunk size z to y and u.
Link(h, m, x, z, y, u) ==
    /\ IsChunk(h, m, Part(m, z))
    /\ Begins(x[m.csid], h.fmt, m)
    /\ y = [x EXCEPT ![m.csid] = Less(m, z)]
    /\ u = IF Ends(m, z) /\ m.kind = "set_chunk" THEN m.value ELSE z

\* A trace of the chunks w, which carry the ends of the messages o: before
\* and after each chunk the sender's contexts and chunk size and the number
\* of messages handed on, and the message it is a chunk of.
Handed(w, csz, msg) == [i \in 1..Len(w) |-> IF Whole(msg[i], csz[i - 1]) THEN 1 ELSE 0]

Trace(w, o, ctx, csz, done, msg) ==
    /\ w \in Seq(Chunks) /\ o \in Seq(Messages)
    /\ ctx \in [0..Len(w) -> Contexts] /\ csz \in [0..Len(w) -> Sizes]
    /\ msg \in [1..Len(w) -> Sendings]
    /\ \A i \in 1..Len(w) : Link(w[i], msg[i], ctx[i - 1], csz[i - 1], ctx[i], csz[i])
    /\ Adds(done, Handed(w, csz, msg), Len(w)) /\ done[Len(w)] = Len(o)
    /\ \A i \in 1..Len(w) : Whole(msg[i], csz[i - 1]) => o[done[i]] = Message(msg[i])

\* A trace leads from the contexts x and chunk size z to y and u; f is the
\* message of its first chunk.
Traced(w, o, x, z, y, u, f) ==
    \E ctx, csz, done, msg :
        /\ Trace(w, o, ctx, csz, done, msg)
        /\ ctx[0] = x /\ csz[0] = z /\ ctx[Len(w)] = y /\ csz[Len(w)] = u
        /\ (w # <<>> => msg[1] = f)

\* Types of the sender's messages.
LEMMA SendingTypes ==
    ASSUME NEW m \in Sendings
    PROVE  /\ m.csid \in Csids /\ m.len \in Lens \cup {ControlLen} /\ m.len \in Nat
           /\ m.kind \in Kinds /\ m.field \in Stamps /\ m.field \in Nat
           /\ m.left \in Nat /\ m.left <= m.len
           /\ m.value \in ChunkSizes \cup {0} /\ m.value \in Nat
           /\ m.ts \in Stamps /\ m.ts \in Nat
           /\ (m.kind = "set_chunk" => m.value \in ChunkSizes /\ m.len > 0)
           /\ Message(m) \in Messages
<1>1. /\ m.csid \in Csids /\ m.len \in Lens \cup {ControlLen}
      /\ m.kind \in Kinds /\ m.field \in Stamps /\ m.left \in Nat /\ m.left <= m.len
      /\ m.value \in ChunkSizes \cup {0} /\ m.ts \in Stamps
      /\ (m.kind = "set_chunk" => m.value \in ChunkSizes /\ m.len > 0)
  BY DEF Sendings
<1>2. Lens \cup {ControlLen} \subseteq Nat /\ ChunkSizes \cup {0} \subseteq Nat /\ Stamps \subseteq Nat
  BY ConstantsAssumption DEF Stamps
<1>3. Message(m) \in Messages
  BY <1>1 DEF Message, Messages
<1>. QED BY <1>1, <1>2, <1>3

\* Chunk sizes are positive.
LEMMA SizeTypes == \A z \in Sizes : z \in Nat /\ z > 0
BY ConstantsAssumption DEF Sizes

\* What is left of a message after its next chunk.
LEMMA LessLemma ==
    ASSUME NEW m \in Sendings, NEW z \in Sizes
    PROVE  /\ Part(m, z) \in Nat /\ Part(m, z) <= m.left
           /\ Less(m, z) \in Sendings /\ Less(m, z).left = m.left - Part(m, z)
           /\ (Ends(m, z) <=> Less(m, z).left = 0)
           /\ (Ends(m, z) <=> Part(m, z) = m.left)
           /\ Less(m, z).csid = m.csid /\ Less(m, z).len = m.len /\ Less(m, z).kind = m.kind
           /\ Less(m, z).field = m.field /\ Less(m, z).value = m.value /\ Less(m, z).ts = m.ts
<1>1. m.left \in Nat /\ m.left <= m.len /\ m.len \in Nat /\ z \in Nat
  BY SendingTypes, SizeTypes
<1>2. Part(m, z) \in Nat /\ Part(m, z) <= m.left /\ (Ends(m, z) <=> Part(m, z) = m.left)
  BY <1>1 DEF Part, Smaller, Ends
<1>. DEFINE l == m.left - Part(m, z)
<1>3. l \in Nat /\ l <= m.len /\ (Ends(m, z) <=> l = 0)
  BY <1>1, <1>2
<1>4. Less(m, z) = [m EXCEPT !.left = l]
  BY DEF Less, Sendings
<1>. HIDE DEF l
<1>5. ASSUME NEW r, r = [m EXCEPT !.left = l]
      PROVE  /\ r \in Sendings /\ r.left = l /\ r.csid = m.csid /\ r.len = m.len
             /\ r.kind = m.kind /\ r.field = m.field /\ r.value = m.value /\ r.ts = m.ts
  BY <1>3, <1>5 DEF Sendings
<1>. QED BY <1>2, <1>3, <1>4, <1>5 DEF l

\* The length of a chunk on the wire.
LEMMA WireLemma ==
    ASSUME NEW h \in Chunks
    PROVE  /\ WireLength(h) \in Nat /\ WireLength(h) > 0 /\ HeaderEnd(h) \in Nat
           /\ HeaderEnd(h) > 0 /\ HeaderEnd(h) <= WireLength(h)
           /\ WireLength(h) = HeaderEnd(h) + (IF h.ext THEN kExtendedLength ELSE 0) + h.n
<1>1. h.fmt \in 0..3 /\ h.n \in Nat /\ h.ext \in BOOLEAN
  BY DEF Chunks
<1>2. kHeaderLength[h.fmt] \in Nat \ {0} /\ kExtendedLength \in Nat
  BY <1>1, ConstantsAssumption
<1>3. Offset(h.csid) \in Nat
  BY DEF Offset
<1>. DEFINE e == IF h.ext THEN kExtendedLength ELSE 0
<1>4. e \in Nat
  BY <1>2
<1>5. /\ WireLength(h) = kHeaderLength[h.fmt] + Offset(h.csid) + e + h.n
      /\ HeaderEnd(h) = kHeaderLength[h.fmt] + Offset(h.csid)
  BY DEF WireLength, HeaderEnd
<1>. HIDE DEF e
<1>6. /\ WireLength(h) \in Nat /\ WireLength(h) > 0 /\ HeaderEnd(h) \in Nat
      /\ HeaderEnd(h) > 0 /\ HeaderEnd(h) <= WireLength(h)
      /\ WireLength(h) = HeaderEnd(h) + e + h.n
  BY <1>1, <1>2, <1>3, <1>4, <1>5
<1>. QED BY <1>6 DEF e

\* A chunk of a message is one.
LEMMA ChunkLemma ==
    ASSUME NEW m, NEW fmt \in 0..3, NEW n \in Nat,
           m.csid \in Csids, m.field \in Nat, m.len \in Nat, m.kind \in Kinds, m.value \in Nat
    PROVE  IsChunk(Chunk(m, fmt, n), m, n) /\ Chunk(m, fmt, n).fmt = fmt
<1>1. ASSUME NEW h, h = Chunk(m, fmt, n)
      PROVE  /\ h.csid = m.csid /\ h.n = n /\ h.value = m.value /\ h.fmt = fmt
             /\ h.ext = (m.field >= Mark)
             /\ h.stamp = (IF fmt < 3 \/ m.field >= Mark THEN m.field ELSE 0)
             /\ h.len = (IF fmt < 2 THEN m.len ELSE 0)
             /\ h.kind = (IF fmt < 2 THEN m.kind ELSE "none")
  BY <1>1 DEF Chunk
<1>2. Chunk(m, fmt, n) \in Chunks
  BY DEF Chunk, Chunks
<1>. QED BY <1>1, <1>2 DEF IsChunk

-----------------------------------------------------------------------------
(* Sums and traces, joined and shortened                                   *)

\* Sums over two pieces, one after the other.
Joined(a1, a2, n1, n2) == [i \in 0..(n1 + n2) |-> IF i <= n1 THEN a1[i] ELSE a1[n1] + a2[i - n1]]

LEMMA JoinedValues ==
    ASSUME NEW n1 \in Nat, NEW n2 \in Nat, NEW l1, NEW l2, NEW a1, NEW a2,
           Adds(a1, l1, n1), Adds(a2, l2, n2)
    PROVE  /\ \A i \in 0..n1 : Joined(a1, a2, n1, n2)[i] = a1[i]
           /\ \A i \in 0..n2 : Joined(a1, a2, n1, n2)[n1 + i] = a1[n1] + a2[i]
           /\ Joined(a1, a2, n1, n2)[n1 + n2] = a1[n1] + a2[n2]
<1>1. PICK a : a = Joined(a1, a2, n1, n2)
  OBVIOUS
<1>2. a = [i \in 0..(n1 + n2) |-> IF i <= n1 THEN a1[i] ELSE a1[n1] + a2[i - n1]]
  BY <1>1 DEF Joined
<1>3. \A i \in 0..n1 : a[i] = a1[i] /\ a1[i] \in Nat
  BY <1>2 DEF Adds
<1>4. n1 \in 0..n1 /\ n2 \in 0..n2 /\ n1 + 0 = n1
  OBVIOUS
<1>5. a1[n1] \in Nat /\ a2[0] = 0
  BY <1>3, <1>4 DEF Adds
<1>6. a[n1] = a1[n1] + a2[0]
  BY <1>3, <1>4, <1>5
<1>. HIDE DEF Adds
<1>7. \A i \in 1..n2 : n1 + i \in 0..(n1 + n2) /\ ~(n1 + i <= n1) /\ (n1 + i) - n1 = i
  OBVIOUS
<1>8. \A i \in 1..n2 : a[n1 + i] = a1[n1] + a2[i]
  BY <1>2, <1>7
<1>9. \A i \in 0..n2 : i = 0 \/ i \in 1..n2
  OBVIOUS
<1>10. \A i \in 0..n2 : a[n1 + i] = a1[n1] + a2[i]
  BY <1>4, <1>6, <1>8, <1>9
<1>. QED BY <1>1, <1>3, <1>4, <1>10

LEMMA AddsConcat ==
    ASSUME NEW n1 \in Nat, NEW n2 \in Nat, NEW l1, NEW l2, NEW l, NEW a1, NEW a2,
           Adds(a1, l1, n1), Adds(a2, l2, n2),
           \A i \in 1..n1 : l[i] = l1[i], \A i \in 1..n2 : l[n1 + i] = l2[i]
    PROVE  Adds(Joined(a1, a2, n1, n2), l, n1 + n2)
<1>0. PICK a : a = Joined(a1, a2, n1, n2)
  OBVIOUS
<1>1. \A i \in 0..n1 : a[i] = a1[i] /\ a1[i] \in Nat
  <2>1. \A i \in 0..n1 : a1[i] \in Nat
    BY DEF Adds
  <2>. QED BY <1>0, <2>1, JoinedValues
<1>2. \A i \in 0..n2 : a2[i] \in Nat
  BY DEF Adds
<1>3. n1 \in 0..n1 /\ n2 \in 0..n2 /\ a1[n1] \in Nat
  <2>1. n1 \in 0..n1 /\ n2 \in 0..n2
    OBVIOUS
  <2>. QED BY <1>1, <2>1
<1>4. \A i \in 0..n2 : a[n1 + i] = a1[n1] + a2[i]
  BY <1>0, JoinedValues
<1>5. \A i \in 0..(n1 + n2) : i \in 0..n1 \/ \E j \in 0..n2 : i = n1 + j
  <2>. SUFFICES ASSUME NEW i \in 0..(n1 + n2), ~(i \in 0..n1) PROVE \E j \in 0..n2 : i = n1 + j
    OBVIOUS
  <2>1. i - n1 \in 0..n2 /\ i = n1 + (i - n1)
    OBVIOUS
  <2>. QED BY <2>1
<1>6. \A i \in 0..(n1 + n2) : a[i] \in Nat
  <2>1. \A i \in 0..n2 : a[n1 + i] \in Nat
    <3>1. \A x, y \in Nat : x + y \in Nat
      OBVIOUS
    <3>. QED BY <1>2, <1>3, <1>4, <3>1
  <2>. QED BY <1>1, <1>5, <2>1
<1>7. a \in [0..(n1 + n2) -> Nat] /\ a[0] = 0
  <2>1. a1[0] = 0 /\ 0 \in 0..n1
    BY DEF Adds
  <2>2. a = [i \in 0..(n1 + n2) |-> a[i]]
    BY <1>0 DEF Joined
  <2>. QED BY <1>1, <1>6, <2>1, <2>2
<1>8. ASSUME NEW i \in 1..(n1 + n2) PROVE a[i] = a[i - 1] + l[i]
  <2>1. CASE i <= n1
    <3>1. i \in 1..n1 /\ i \in 0..n1 /\ i - 1 \in 0..n1
      BY <2>1
    <3>2. a1[i] = a1[i - 1] + l1[i]
      BY <3>1 DEF Adds
    <3>. QED BY <1>1, <3>1, <3>2
  <2>2. CASE i > n1
    <3>1. PICK j \in 1..n2 : i = n1 + j
      <4>1. i - n1 \in 1..n2 /\ i = n1 + (i - n1)
        BY <2>2
      <4>. QED BY <4>1
    <3>2. j \in 0..n2 /\ j - 1 \in 0..n2 /\ i - 1 = n1 + (j - 1)
      BY <3>1
    <3>3. a2[j] = a2[j - 1] + l2[j]
      BY DEF Adds
    <3>4. l[i] = l2[j] /\ a[i] = a1[n1] + a2[j] /\ a[i - 1] = a1[n1] + a2[j - 1]
      BY <1>4, <3>1, <3>2
    <3>5. a2[j] \in Nat /\ a2[j - 1] \in Nat
      BY <1>2, <3>2
    <3>6. l2[j] \in Nat
      BY DEF Adds
    <3>. QED BY <1>3, <3>3, <3>4, <3>5, <3>6
  <2>. QED BY <2>1, <2>2
<1>9. ASSUME NEW i \in 0..(n1 + n2), NEW j \in 0..(n1 + n2), i <= j PROVE a[i] <= a[j]
  <2>1. \A x \in 0..n1, y \in 0..n1 : x <= y => a1[x] <= a1[y]
    BY DEF Adds
  <2>2. \A x \in 0..n2, y \in 0..n2 : x <= y => a2[x] <= a2[y]
    BY DEF Adds
  <2>3. CASE j \in 0..n1
    <3>1. i \in 0..n1
      BY <1>9, <2>3
    <3>. QED BY <1>1, <1>9, <2>1, <2>3, <3>1
  <2>4. ASSUME NEW y \in 0..n2, j = n1 + y, i \in 0..n1 PROVE a[i] <= a[j]
    <3>1. a1[i] <= a1[n1]
      BY <1>3, <2>1, <2>4
    <3>2. a[i] \in Nat /\ a[i] = a1[i] /\ a[j] = a1[n1] + a2[y] /\ a2[y] \in Nat
      BY <1>1, <1>2, <1>4, <2>4
    <3>. QED BY <1>3, <3>1, <3>2
  <2>5. ASSUME NEW x \in 0..n2, NEW y \in 0..n2, i = n1 + x, j = n1 + y PROVE a[i] <= a[j]
    <3>1. x <= y
      BY <1>9, <2>5
    <3>2. a[i] = a1[n1] + a2[x] /\ a[j] = a1[n1] + a2[y] /\ a2[x] <= a2[y]
      BY <1>4, <2>2, <2>5, <3>1
    <3>. QED BY <1>2, <1>3, <3>2
  <2>. QED BY <1>5, <2>3, <2>4, <2>5
<1>11. ASSUME NEW i \in 1..(n1 + n2) PROVE l[i] \in Nat
  <2>1. CASE i <= n1
    <3>1. i \in 1..n1
      BY <2>1
    <3>. QED BY <3>1 DEF Adds
  <2>2. CASE i > n1
    <3>1. i - n1 \in 1..n2 /\ i = n1 + (i - n1)
      BY <2>2
    <3>2. l[n1 + (i - n1)] = l2[i - n1] /\ l2[i - n1] \in Nat
      BY <3>1 DEF Adds
    <3>. QED BY <3>1, <3>2
  <2>. QED BY <2>1, <2>2
<1>12. Adds(a, l, n1 + n2)
  BY <1>7, <1>8, <1>9, <1>11 DEF Adds
<1>. QED BY <1>0, <1>12

\* Sums without the first number.
Shifted(a1, n) == [i \in 0..(n - 1) |-> a1[i + 1] - a1[1]]

LEMMA AddsTail ==
    ASSUME NEW n \in Nat, n > 0, NEW l1, NEW l, NEW a1, Adds(a1, l1, n),
           \A i \in 1..(n - 1) : l[i] = l1[i + 1]
    PROVE  /\ Adds(Shifted(a1, n), l, n - 1) /\ Shifted(a1, n)[n - 1] = a1[n] - a1[1]
           /\ \A i \in 0..(n - 1) : Shifted(a1, n)[i] = a1[i + 1] - a1[1]
           /\ a1[1] = l1[1] /\ a1[1] \in Nat /\ a1[n] \in Nat /\ a1[1] <= a1[n]
<1>0. PICK a : a = Shifted(a1, n)
  OBVIOUS
<1>01. a = [i \in 0..(n - 1) |-> a1[i + 1] - a1[1]]
  BY <1>0 DEF Shifted
<1>. USE <1>01
<1>1. \A i \in 0..n : a1[i] \in Nat
  BY DEF Adds
<1>2. \A i \in 0..n, j \in 0..n : i <= j => a1[i] <= a1[j]
  BY DEF Adds
<1>3. 1 \in 0..n /\ n \in 0..n /\ 1 \in 1..n
  OBVIOUS
<1>4. a1[1] \in Nat /\ a1[n] \in Nat /\ a1[1] <= a1[n]
  BY <1>1, <1>2, <1>3
<1>5. a1[0] = 0 /\ a1[1] = a1[1 - 1] + l1[1]
  BY <1>3 DEF Adds
<1>6. \A i \in 0..(n - 1) : i + 1 \in 0..n /\ 1 <= i + 1
  OBVIOUS
<1>7. \A i \in 0..(n - 1) : a[i] = a1[i + 1] - a1[1] /\ a1[i + 1] \in Nat /\ a[i] \in Nat
  BY <1>1, <1>2, <1>3, <1>4, <1>6
<1>8. a \in [0..(n - 1) -> Nat] /\ a[0] = 0
  <2>1. 0 \in 0..(n - 1) /\ 0 + 1 = 1
    OBVIOUS
  <2>2. a[0] = 0
    BY <1>4, <1>7, <2>1
  <2>. QED BY <1>7, <2>2
<1>9. ASSUME NEW i \in 1..(n - 1) PROVE a[i] = a[i - 1] + l[i]
  <2>1. i \in 0..(n - 1) /\ i - 1 \in 0..(n - 1) /\ i + 1 \in 1..n /\ (i - 1) + 1 = i
        /\ (i + 1) - 1 = i
    OBVIOUS
  <2>2. a1[i + 1] = a1[i] + l1[i + 1]
    BY <2>1 DEF Adds
  <2>3. a[i] = a1[i + 1] - a1[1] /\ a[i - 1] = a1[i] - a1[1] /\ a1[i] \in Nat
    BY <1>7, <2>1
  <2>4. l[i] = l1[i + 1] /\ l1[i + 1] \in Nat
    BY <2>1 DEF Adds
  <2>. QED BY <1>4, <1>7, <2>1, <2>2, <2>3, <2>4
<1>10. ASSUME NEW i \in 0..(n - 1), NEW j \in 0..(n - 1), i <= j PROVE a[i] <= a[j]
  <2>1. i + 1 \in 0..n /\ j + 1 \in 0..n /\ i + 1 <= j + 1
    BY <1>10
  <2>2. a1[i + 1] <= a1[j + 1]
    BY <1>2, <2>1
  <2>. QED BY <1>4, <1>7, <2>2
<1>11. a[n - 1] = a1[n] - a1[1]
  <2>1. n - 1 \in 0..(n - 1) /\ (n - 1) + 1 = n
    OBVIOUS
  <2>. QED BY <1>7, <2>1
<1>12. Adds(a, l, n - 1)
  <2>1. \A i \in 1..(n - 1) : l[i] \in Nat
    <3>1. \A i \in 1..(n - 1) : i + 1 \in 1..n
      OBVIOUS
    <3>. QED BY <3>1 DEF Adds
  <2>. QED BY <1>8, <1>9, <1>10, <2>1 DEF Adds
<1>13. a1[1] = l1[1]
  <2>1. 1 - 1 = 0 /\ a1[1] \in Nat /\ l1[1] \in Nat
    BY <1>3, <1>4 DEF Adds
  <2>. QED BY <1>5, <2>1
<1>. QED BY <1>0, <1>4, <1>7, <1>11, <1>12, <1>13

\* The number of bytes on the wire.
LEMMA BytesSums ==
    ASSUME NEW w \in Seq(Chunks)
    PROVE  \E at : /\ Adds(at, [i \in 1..Len(w) |-> WireLength(w[i])], Len(w))
                   /\ Bytes(w) = at[Len(w)] /\ Bytes(w) \in Nat
<1>. DEFINE lens == [i \in 1..Len(w) |-> WireLength(w[i])]
<1>1. Len(w) \in Nat
  BY LenProperties
<1>2. \A i \in 1..Len(w) : lens[i] = WireLength(w[i]) /\ WireLength(w[i]) \in Nat
  BY ElementOfSeq, WireLemma
<1>3. lens \in [1..Len(w) -> Nat]
  BY <1>2
<1>4. Len(w) \in 0..Len(w)
  BY <1>1
<1>. HIDE DEF lens
<1>5. PICK at : Adds(at, lens, Len(w))
  BY <1>1, <1>3, SumsExist
<1>6. Bytes(w) = at[Len(w)]
  BY <1>1, <1>2, <1>5, BytesLemma
<1>7. at[Len(w)] \in Nat
  BY <1>4, <1>5 DEF Adds
<1>. QED BY <1>5, <1>6, <1>7 DEF lens

LEMMA BytesEmpty == Bytes(<<>>) = 0
<1>1. <<>> \in Seq(Chunks) /\ Len(<<>>) = 0
  BY EmptySeq
<1>2. PICK at : Adds(at, [i \in 1..Len(<<>>) |-> WireLength(<<>>[i])], Len(<<>>))
                /\ Bytes(<<>>) = at[Len(<<>>)]
  BY <1>1, BytesSums
<1>. QED BY <1>1, <1>2 DEF Adds

LEMMA BytesConcat ==
    ASSUME NEW w \in Seq(Chunks), NEW p \in Seq(Chunks)
    PROVE  Bytes(w \o p) = Bytes(w) + Bytes(p)
<1>. DEFINE l1 == [i \in 1..Len(w) |-> WireLength(w[i])]
            l2 == [i \in 1..Len(p) |-> WireLength(p[i])]
<1>1. PICK a1 : Adds(a1, l1, Len(w)) /\ Bytes(w) = a1[Len(w)]
  BY BytesSums
<1>2. PICK a2 : Adds(a2, l2, Len(p)) /\ Bytes(p) = a2[Len(p)]
  BY BytesSums
<1>3. PICK v : v = w \o p
  OBVIOUS
<1>. DEFINE l == [i \in 1..Len(v) |-> WireLength(v[i])]
            n1 == Len(w)
            n2 == Len(p)
<1>4. n1 \in Nat /\ n2 \in Nat
  BY LenProperties
<1>5. /\ v \in Seq(Chunks) /\ Len(v) = n1 + n2
      /\ \A i \in 1..(n1 + n2) : v[i] = IF i <= n1 THEN w[i] ELSE p[i - n1]
  BY <1>3, ConcatProperties
<1>. HIDE DEF n1, n2
<1>6. \A i \in 1..n1 : i \in 1..(n1 + n2) /\ i <= n1
  BY <1>4
<1>7. \A i \in 1..n2 : n1 + i \in 1..(n1 + n2) /\ ~(n1 + i <= n1) /\ (n1 + i) - n1 = i
  BY <1>4
<1>8. \A i \in 1..n1 : l[i] = l1[i]
  <2>1. \A i \in 1..n1 : v[i] = w[i]
    BY <1>5, <1>6
  <2>. QED BY <1>5, <1>6, <2>1 DEF n1
<1>9. \A i \in 1..n2 : l[n1 + i] = l2[i]
  <2>1. \A i \in 1..n2 : v[n1 + i] = p[i]
    BY <1>5, <1>7
  <2>. QED BY <1>5, <1>7, <2>1 DEF n2
<1>10. \A i \in 1..Len(v) : l[i] = WireLength(v[i])
  OBVIOUS
<1>. HIDE DEF l, l1, l2
<1>11. PICK a : a = Joined(a1, a2, n1, n2)
  OBVIOUS
<1>12. Adds(a, l, n1 + n2) /\ a[n1 + n2] = a1[n1] + a2[n2]
  <2>1. Adds(a1, l1, n1) /\ Adds(a2, l2, n2)
    BY <1>1, <1>2 DEF n1, n2
  <2>2. Adds(Joined(a1, a2, n1, n2), l, n1 + n2)
    BY <1>4, <1>8, <1>9, <2>1, AddsConcat
  <2>3. Joined(a1, a2, n1, n2)[n1 + n2] = a1[n1] + a2[n2]
    BY <1>4, <2>1, JoinedValues
  <2>. QED BY <1>11, <2>2, <2>3
<1>13. Bytes(v) = a[Len(v)]
  <2>1. Len(v) \in Nat /\ Adds(a, l, Len(v))
    BY <1>4, <1>5, <1>12
  <2>. QED BY <1>10, <2>1, BytesLemma
<1>. QED BY <1>1, <1>2, <1>3, <1>5, <1>12, <1>13 DEF n1, n2

\* The first chunk is as long as it is, and the rest are the rest.
LEMMA BytesTail ==
    ASSUME NEW w \in Seq(Chunks), w # <<>>
    PROVE  /\ Bytes(Tail(w)) = Bytes(w) - WireLength(Head(w))
           /\ WireLength(Head(w)) <= Bytes(w)
<1>. DEFINE l1 == [i \in 1..Len(w) |-> WireLength(w[i])]
<1>1. PICK a1 : Adds(a1, l1, Len(w)) /\ Bytes(w) = a1[Len(w)]
  BY BytesSums
<1>2. PICK v : v = Tail(w)
  OBVIOUS
<1>. DEFINE l == [i \in 1..Len(v) |-> WireLength(v[i])]
            n == Len(w)
<1>3. n \in Nat /\ n > 0 /\ v \in Seq(Chunks) /\ Len(v) = n - 1
      /\ \A i \in 1..(n - 1) : v[i] = w[i + 1]
  BY <1>2, EmptySeq, LenProperties, HeadTailProperties
<1>. HIDE DEF n
<1>4. \A i \in 1..(n - 1) : i + 1 \in 1..n
  BY <1>3
<1>5. \A i \in 1..(n - 1) : l[i] = l1[i + 1]
  BY <1>3, <1>4 DEF n
<1>6. 1 \in 1..n
  BY <1>3
<1>7. l1[1] = WireLength(Head(w))
  BY <1>6 DEF n
<1>8. \A i \in 1..Len(v) : l[i] = WireLength(v[i])
  OBVIOUS
<1>. HIDE DEF l, l1
<1>9. Adds(a1, l1, n)
  BY <1>1 DEF n
<1>12. PICK a : a = Shifted(a1, n)
  OBVIOUS
<1>10. Adds(a, l, n - 1) /\ a[n - 1] = a1[n] - a1[1] /\ a1[1] = l1[1] /\ a1[1] <= a1[n]
  <2>1. a1[1] = l1[1] /\ a1[1] <= a1[n]
    BY <1>3, <1>5, <1>9, AddsTail
  <2>2. Adds(Shifted(a1, n), l, n - 1)
    BY <1>3, <1>5, <1>9, AddsTail
  <2>3. Shifted(a1, n)[n - 1] = a1[n] - a1[1]
    BY <1>3, <1>5, <1>9, AddsTail
  <2>. QED BY <1>12, <2>1, <2>2, <2>3
<1>11. Bytes(v) = a[Len(v)]
  <2>1. Len(v) \in Nat
    BY <1>3
  <2>. QED BY <1>3, <1>8, <1>10, <2>1, BytesLemma
<1>. QED BY <1>1, <1>2, <1>3, <1>7, <1>10, <1>11 DEF n

\* The context of one chunk stream changes.
LEMMA SetContext ==
    ASSUME NEW x \in Contexts, NEW d \in Csids, NEW s \in Sendings, s.csid = d
    PROVE  /\ [x EXCEPT ![d] = s] \in Contexts
           /\ [x EXCEPT ![d] = s][d] = s
           /\ \A c \in Csids : c # d => [x EXCEPT ![d] = s][c] = x[c]
<1>1. PICK y : y = [x EXCEPT ![d] = s]
  OBVIOUS
<1>2. x \in [Csids -> Sendings \cup {NoPacket}] /\ \A c \in Csids : x[c] # NoPacket => x[c].csid = c
  BY DEF Contexts
<1>3. /\ y \in [Csids -> Sendings \cup {NoPacket}] /\ y[d] = s
      /\ \A c \in Csids : c # d => y[c] = x[c]
  BY <1>1, <1>2
<1>4. \A c \in Csids : y[c] # NoPacket => y[c].csid = c
  BY <1>2, <1>3
<1>. QED BY <1>1, <1>3, <1>4 DEF Contexts

\* Types of a link.
LEMMA LinkTypes ==
    ASSUME NEW h, NEW m \in Sendings, NEW x \in Contexts, NEW z \in Sizes, NEW y, NEW u,
           Link(h, m, x, z, y, u)
    PROVE  /\ h \in Chunks /\ h.csid = m.csid /\ y \in Contexts /\ u \in Sizes
           /\ y[m.csid] = Less(m, z)
           /\ \A c \in Csids : c # m.csid => y[c] = x[c]
<1>1. h \in Chunks /\ h.csid = m.csid
  BY DEF Link, IsChunk
<1>2. m.csid \in Csids /\ (m.kind = "set_chunk" => m.value \in ChunkSizes)
  BY SendingTypes
<1>3. Less(m, z) \in Sendings /\ Less(m, z).csid = m.csid
  BY LessLemma
<1>4. y = [x EXCEPT ![m.csid] = Less(m, z)]
  BY DEF Link
<1>5. /\ y \in Contexts /\ y[m.csid] = Less(m, z)
      /\ \A c \in Csids : c # m.csid => y[c] = x[c]
  <2>. PICK d \in Csids : d = m.csid
    BY <1>2
  <2>. PICK s \in Sendings : s = Less(m, z)
    BY <1>3
  <2>1. s.csid = d
    BY <1>3
  <2>2. [x EXCEPT ![d] = s] \in Contexts
    BY <2>1, SetContext
  <2>3. [x EXCEPT ![d] = s][d] = s
    BY DEF Contexts
  <2>4. \A c \in Csids : c # d => [x EXCEPT ![d] = s][c] = x[c]
    BY DEF Contexts
  <2>. QED BY <1>4, <2>2, <2>3, <2>4
<1>6. u \in Sizes
  BY <1>2 DEF Link, Sizes
<1>. QED BY <1>1, <1>5, <1>6

\* Types of a trace.
LEMMA TracedTypes ==
    ASSUME NEW w, NEW o, NEW x, NEW z, NEW y, NEW u, NEW f, Traced(w, o, x, z, y, u, f)
    PROVE  /\ w \in Seq(Chunks) /\ o \in Seq(Messages) /\ Len(w) \in Nat
           /\ x \in Contexts /\ y \in Contexts /\ z \in Sizes /\ u \in Sizes
           /\ (w # <<>> => f \in Sendings /\ Len(w) > 0)
<1>1. PICK ctx, csz, done, msg :
        /\ Trace(w, o, ctx, csz, done, msg)
        /\ ctx[0] = x /\ csz[0] = z /\ ctx[Len(w)] = y /\ csz[Len(w)] = u
        /\ (w # <<>> => msg[1] = f)
  BY DEF Traced
<1>2. /\ w \in Seq(Chunks) /\ o \in Seq(Messages)
      /\ ctx \in [0..Len(w) -> Contexts] /\ csz \in [0..Len(w) -> Sizes]
      /\ msg \in [1..Len(w) -> Sendings]
  BY <1>1 DEF Trace
<1>3. Len(w) \in Nat /\ (w # <<>> => Len(w) \in Nat \ {0})
  BY <1>2, LenProperties, EmptySeq
<1>. HIDE DEF Contexts
<1>4. 0 \in 0..Len(w) /\ Len(w) \in 0..Len(w) /\ (Len(w) # 0 => 1 \in 1..Len(w) /\ Len(w) > 0)
  BY <1>3
<1>. QED BY <1>1, <1>2, <1>3, <1>4

\* The empty trace.
LEMMA TracedEmpty ==
    ASSUME NEW x \in Contexts, NEW z \in Sizes, NEW f
    PROVE  Traced(<<>>, <<>>, x, z, x, z, f)
<1>. DEFINE ctx == [i \in 0..0 |-> x]
            csz == [i \in 0..0 |-> z]
            done == [i \in 0..0 |-> 0]
            msg == [i \in 1..0 |-> f]
<1>1. /\ <<>> \in Seq(Chunks) /\ <<>> \in Seq(Messages) /\ Len(<<>>) = 0
  BY EmptySeq
<1>2. /\ ctx \in [0..0 -> Contexts] /\ csz \in [0..0 -> Sizes]
      /\ msg \in [1..0 -> Sendings] /\ done \in [0..0 -> Nat]
      /\ ctx[0] = x /\ csz[0] = z /\ done[0] = 0
  OBVIOUS
<1>. HIDE DEF ctx, csz, done, msg
<1>3. Adds(done, Handed(<<>>, csz, msg), 0)
  BY <1>2 DEF Adds
<1>4. Trace(<<>>, <<>>, ctx, csz, done, msg)
  BY <1>1, <1>2, <1>3 DEF Trace
<1>. QED BY <1>1, <1>2, <1>4 DEF Traced

\* Nothing on the wire: the parser has caught up.
LEMMA TracedNothing ==
    ASSUME NEW w, NEW o, NEW x, NEW z, NEW y, NEW u, NEW f, Traced(w, o, x, z, y, u, f),
           w = <<>>
    PROVE  o = <<>> /\ y = x /\ u = z
<1>1. PICK ctx, csz, done, msg :
        /\ Trace(w, o, ctx, csz, done, msg)
        /\ ctx[0] = x /\ csz[0] = z /\ ctx[Len(w)] = y /\ csz[Len(w)] = u
  BY DEF Traced
<1>2. Len(w) = 0
  BY EmptySeq
<1>3. o \in Seq(Messages) /\ done[0] = 0 /\ Len(o) = 0
  BY <1>1, <1>2 DEF Trace, Adds
<1>4. o = <<>>
  BY <1>3, EmptySeq
<1>. QED BY <1>1, <1>2, <1>4

\* A trace of one chunk.
LEMMA TracedOne ==
    ASSUME NEW h, NEW m \in Sendings, NEW x \in Contexts, NEW z \in Sizes, NEW y, NEW u,
           Link(h, m, x, z, y, u)
    PROVE  Traced(<<h>>, IF Whole(m, z) THEN <<Message(m)>> ELSE <<>>, x, z, y, u, m)
<1>. DEFINE k == IF Whole(m, z) THEN 1 ELSE 0
            ctx == [i \in 0..1 |-> IF i = 0 THEN x ELSE y]
            csz == [i \in 0..1 |-> IF i = 0 THEN z ELSE u]
            done == [i \in 0..1 |-> IF i = 0 THEN 0 ELSE k]
            msg == [i \in 1..1 |-> m]
<1>. PICK w : w = <<h>>
  OBVIOUS
<1>. PICK o : o = IF Whole(m, z) THEN <<Message(m)>> ELSE <<>>
  OBVIOUS
<1>1. h \in Chunks /\ y \in Contexts /\ u \in Sizes /\ Message(m) \in Messages
  BY LinkTypes, SendingTypes
<1>2. w \in Seq(Chunks) /\ Len(w) = 1 /\ w[1] = h /\ w # <<>>
  BY <1>1
<1>3. o \in Seq(Messages) /\ Len(o) = k /\ (Whole(m, z) => o[1] = Message(m))
  BY <1>1
<1>4. /\ ctx \in [0..1 -> Contexts] /\ csz \in [0..1 -> Sizes]
      /\ msg \in [1..1 -> Sendings]
      /\ ctx[0] = x /\ csz[0] = z /\ ctx[1] = y /\ csz[1] = u /\ msg[1] = m
  BY <1>1
<1>5. k \in Nat /\ (Whole(m, z) => k = 1)
  OBVIOUS
<1>6. done \in [0..1 -> Nat] /\ done[0] = 0 /\ done[1] = k
  BY <1>5
<1>7. \A i \in 1..1 : i = 1 /\ i - 1 = 0
  OBVIOUS
<1>8. Handed(w, csz, msg) = [i \in 1..1 |-> k]
  BY <1>2, <1>4, <1>7 DEF Handed
<1>9. Adds(done, Handed(w, csz, msg), 1)
  <2>. HIDE DEF done, k
  <2>. QED BY <1>5, <1>6, <1>8 DEF Adds
<1>. HIDE DEF ctx, csz, done, msg, k
<1>10. \A i \in 1..1 : Link(w[i], msg[i], ctx[i - 1], csz[i - 1], ctx[i], csz[i])
  BY <1>2, <1>4, <1>7
<1>11. \A i \in 1..1 : Whole(msg[i], csz[i - 1]) => o[done[i]] = Message(msg[i])
  BY <1>3, <1>4, <1>5, <1>6, <1>7
<1>12. Trace(w, o, ctx, csz, done, msg)
  BY <1>2, <1>3, <1>4, <1>6, <1>9, <1>10, <1>11 DEF Trace
<1>13. Traced(w, o, x, z, y, u, m)
  BY <1>2, <1>4, <1>12 DEF Traced
<1>. QED BY <1>13

\* Functions of the places between the chunks, joined where they agree.
Paste(c1, c2, n1, n2) == [i \in 0..(n1 + n2) |-> IF i <= n1 THEN c1[i] ELSE c2[i - n1]]

LEMMA PasteLeft ==
    ASSUME NEW n1 \in Nat, NEW n2 \in Nat, NEW c1, NEW c2, NEW i \in 0..n1
    PROVE  Paste(c1, c2, n1, n2)[i] = c1[i]
<1>1. i \in 0..(n1 + n2) /\ i <= n1
  OBVIOUS
<1>. QED BY <1>1 DEF Paste

LEMMA PasteRight ==
    ASSUME NEW n1 \in Nat, NEW n2 \in Nat, NEW c1, NEW c2, c1[n1] = c2[0], NEW i \in 0..n2
    PROVE  Paste(c1, c2, n1, n2)[n1 + i] = c2[i]
<1>1. CASE i = 0
  <2>1. n1 \in 0..n1 /\ n1 + i = n1
    BY <1>1
  <2>. QED BY <1>1, <2>1, PasteLeft
<1>2. CASE i # 0
  <2>1. n1 + i \in 0..(n1 + n2) /\ ~(n1 + i <= n1) /\ (n1 + i) - n1 = i
    BY <1>2
  <2>. QED BY <2>1 DEF Paste
<1>. QED BY <1>1, <1>2

LEMMA PastedType ==
    ASSUME NEW S, NEW n1 \in Nat, NEW n2 \in Nat, NEW c1 \in [0..n1 -> S], NEW c2 \in [0..n2 -> S]
    PROVE  Paste(c1, c2, n1, n2) \in [0..(n1 + n2) -> S]
<1>1. \A i \in 0..(n1 + n2) : i > n1 => i - n1 \in 0..n2 /\ ~(i <= n1)
  OBVIOUS
<1>2. \A i \in 0..(n1 + n2) : ~(i > n1) => i \in 0..n1 /\ i <= n1
  OBVIOUS
<1>. QED BY <1>1, <1>2 DEF Paste

\* A chunk that ends a message is counted.
LEMMA HandedOne ==
    ASSUME NEW n \in Nat, NEW w, n = Len(w), NEW csz, NEW msg, NEW done, NEW k,
           Adds(done, Handed(w, csz, msg), n), done[n] = k,
           NEW i \in 1..n, Whole(msg[i], csz[i - 1])
    PROVE  done[i] \in 1..k
<1>1. Handed(w, csz, msg)[i] = 1
  BY DEF Handed
<1>2. i \in 0..n /\ i - 1 \in 0..n /\ n \in 0..n /\ i <= n
  OBVIOUS
<1>3. done[i] = done[i - 1] + 1
  BY <1>1 DEF Adds
<1>4. done[i] \in Nat /\ done[i - 1] \in Nat /\ done[n] \in Nat /\ done[i] <= done[n]
  BY <1>2 DEF Adds
<1>. QED BY <1>3, <1>4

\* Two traces, one after the other.
LEMMA TracedConcat ==
    ASSUME NEW w, NEW o, NEW x, NEW z, NEW y, NEW u, NEW f, Traced(w, o, x, z, y, u, f),
           NEW p, NEW r, NEW y2, NEW u2, NEW g, Traced(p, r, y, u, y2, u2, g)
    PROVE  Traced(w \o p, o \o r, x, z, y2, u2, IF w = <<>> THEN g ELSE f)
<1>1. PICK ctx1, csz1, done1, msg1 :
        /\ Trace(w, o, ctx1, csz1, done1, msg1)
        /\ ctx1[0] = x /\ csz1[0] = z /\ ctx1[Len(w)] = y /\ csz1[Len(w)] = u
        /\ (w # <<>> => msg1[1] = f)
  BY DEF Traced
<1>2. PICK ctx2, csz2, done2, msg2 :
        /\ Trace(p, r, ctx2, csz2, done2, msg2)
        /\ ctx2[0] = y /\ csz2[0] = u /\ ctx2[Len(p)] = y2 /\ csz2[Len(p)] = u2
        /\ (p # <<>> => msg2[1] = g)
  BY DEF Traced
<1>3. PICK v : v = w \o p
  OBVIOUS
<1>4. PICK q : q = o \o r
  OBVIOUS
<1>5. PICK n1 \in Nat : n1 = Len(w)
  BY <1>1, LenProperties DEF Trace
<1>6. PICK n2 \in Nat : n2 = Len(p)
  BY <1>2, LenProperties DEF Trace
<1>7. /\ v \in Seq(Chunks) /\ Len(v) = n1 + n2
      /\ \A i \in 1..(n1 + n2) : v[i] = IF i <= n1 THEN w[i] ELSE p[i - n1]
  BY <1>1, <1>2, <1>3, <1>5, <1>6, ConcatProperties DEF Trace
<1>8. PICK k1 \in Nat : k1 = Len(o)
  BY <1>1, LenProperties DEF Trace
<1>9. PICK k2 \in Nat : k2 = Len(r)
  BY <1>2, LenProperties DEF Trace
<1>10. /\ q \in Seq(Messages) /\ Len(q) = k1 + k2
       /\ \A i \in 1..(k1 + k2) : q[i] = IF i <= k1 THEN o[i] ELSE r[i - k1]
  BY <1>1, <1>2, <1>4, <1>8, <1>9, ConcatProperties DEF Trace
<1>11. /\ ctx1 \in [0..n1 -> Contexts] /\ csz1 \in [0..n1 -> Sizes] /\ msg1 \in [1..n1 -> Sendings]
       /\ \A i \in 1..n1 : Link(w[i], msg1[i], ctx1[i - 1], csz1[i - 1], ctx1[i], csz1[i])
       /\ Adds(done1, Handed(w, csz1, msg1), n1) /\ done1[n1] = k1
       /\ \A i \in 1..n1 : Whole(msg1[i], csz1[i - 1]) => o[done1[i]] = Message(msg1[i])
       /\ ctx1[0] = x /\ csz1[0] = z /\ ctx1[n1] = y /\ csz1[n1] = u
  BY <1>1, <1>5, <1>8 DEF Trace
<1>12. /\ ctx2 \in [0..n2 -> Contexts] /\ csz2 \in [0..n2 -> Sizes] /\ msg2 \in [1..n2 -> Sendings]
       /\ \A i \in 1..n2 : Link(p[i], msg2[i], ctx2[i - 1], csz2[i - 1], ctx2[i], csz2[i])
       /\ Adds(done2, Handed(p, csz2, msg2), n2) /\ done2[n2] = k2
       /\ \A i \in 1..n2 : Whole(msg2[i], csz2[i - 1]) => r[done2[i]] = Message(msg2[i])
       /\ ctx2[0] = y /\ csz2[0] = u /\ ctx2[n2] = y2 /\ csz2[n2] = u2
  BY <1>2, <1>6, <1>9 DEF Trace
<1>. HIDE DEF Contexts
<1>13. PICK ctx \in [0..(n1 + n2) -> Contexts] :
          (\A i \in 0..n1 : ctx[i] = ctx1[i]) /\ (\A i \in 0..n2 : ctx[n1 + i] = ctx2[i])
  <2>1. ctx1 \in [0..n1 -> Contexts] /\ ctx2 \in [0..n2 -> Contexts] /\ ctx1[n1] = ctx2[0]
    BY <1>11, <1>12
  <2>2. Paste(ctx1, ctx2, n1, n2) \in [0..(n1 + n2) -> Contexts]
    BY <2>1, PastedType
  <2>3. \A i \in 0..n1 : Paste(ctx1, ctx2, n1, n2)[i] = ctx1[i]
    BY PasteLeft
  <2>4. \A i \in 0..n2 : Paste(ctx1, ctx2, n1, n2)[n1 + i] = ctx2[i]
    BY <2>1, PasteRight
  <2>. QED BY <2>2, <2>3, <2>4
<1>14. PICK csz \in [0..(n1 + n2) -> Sizes] :
          (\A i \in 0..n1 : csz[i] = csz1[i]) /\ (\A i \in 0..n2 : csz[n1 + i] = csz2[i])
  <2>1. csz1 \in [0..n1 -> Sizes] /\ csz2 \in [0..n2 -> Sizes] /\ csz1[n1] = csz2[0]
    BY <1>11, <1>12
  <2>2. Paste(csz1, csz2, n1, n2) \in [0..(n1 + n2) -> Sizes]
    BY <2>1, PastedType
  <2>3. \A i \in 0..n1 : Paste(csz1, csz2, n1, n2)[i] = csz1[i]
    BY PasteLeft
  <2>4. \A i \in 0..n2 : Paste(csz1, csz2, n1, n2)[n1 + i] = csz2[i]
    BY <2>1, PasteRight
  <2>. QED BY <2>2, <2>3, <2>4
<1>15. PICK msg : msg = [i \in 1..(n1 + n2) |-> IF i <= n1 THEN msg1[i] ELSE msg2[i - n1]]
  OBVIOUS
<1>16. PICK done : done = Joined(done1, done2, n1, n2)
  OBVIOUS
<1>17. \A i \in 1..n1 : /\ i \in 1..(n1 + n2) /\ i <= n1 /\ i \in 0..n1 /\ i - 1 \in 0..n1
  OBVIOUS
<1>18. \A i \in 1..n2 : /\ n1 + i \in 1..(n1 + n2) /\ ~(n1 + i <= n1) /\ (n1 + i) - n1 = i
                        /\ i \in 0..n2 /\ i - 1 \in 0..n2 /\ (n1 + i) - 1 = n1 + (i - 1)
  OBVIOUS
<1>19. \A i \in 1..(n1 + n2) : i \in 1..n1 \/ \E j \in 1..n2 : i = n1 + j
  <2>. SUFFICES ASSUME NEW i \in 1..(n1 + n2), ~(i \in 1..n1) PROVE \E j \in 1..n2 : i = n1 + j
    OBVIOUS
  <2>1. i - n1 \in 1..n2 /\ i = n1 + (i - n1)
    OBVIOUS
  <2>. QED BY <2>1
<1>20. \A i \in 1..n1 : /\ v[i] = w[i] /\ msg[i] = msg1[i] /\ ctx[i] = ctx1[i] /\ csz[i] = csz1[i]
                        /\ ctx[i - 1] = ctx1[i - 1] /\ csz[i - 1] = csz1[i - 1]
  BY <1>7, <1>13, <1>14, <1>15, <1>17
<1>21. \A i \in 1..n2 : /\ v[n1 + i] = p[i] /\ msg[n1 + i] = msg2[i]
                        /\ ctx[n1 + i] = ctx2[i] /\ csz[n1 + i] = csz2[i]
                        /\ ctx[(n1 + i) - 1] = ctx2[i - 1] /\ csz[(n1 + i) - 1] = csz2[i - 1]
  BY <1>7, <1>13, <1>14, <1>15, <1>18
<1>22. msg \in [1..(n1 + n2) -> Sendings]
  <2>1. \A i \in 1..n1 : msg[i] \in Sendings
    BY <1>11, <1>20
  <2>2. \A i \in 1..n2 : msg[n1 + i] \in Sendings
    BY <1>12, <1>21
  <2>3. \A i \in 1..(n1 + n2) : msg[i] \in Sendings
    BY <1>19, <2>1, <2>2
  <2>. QED BY <1>15, <2>3
<1>23. ASSUME NEW i \in 1..(n1 + n2)
       PROVE  Link(v[i], msg[i], ctx[i - 1], csz[i - 1], ctx[i], csz[i])
  <2>1. CASE i \in 1..n1
    BY <1>11, <1>20, <2>1
  <2>2. ASSUME NEW j \in 1..n2, i = n1 + j
        PROVE  Link(v[i], msg[i], ctx[i - 1], csz[i - 1], ctx[i], csz[i])
    BY <1>12, <1>21, <2>2
  <2>. QED BY <1>19, <2>1, <2>2
<1>24. Adds(done, Handed(v, csz, msg), n1 + n2)
  <2>. PICK l : l = Handed(v, csz, msg)
    OBVIOUS
  <2>. PICK l1 : l1 = Handed(w, csz1, msg1)
    OBVIOUS
  <2>. PICK l2 : l2 = Handed(p, csz2, msg2)
    OBVIOUS
  <2>1. l = [i \in 1..(n1 + n2) |-> IF Whole(msg[i], csz[i - 1]) THEN 1 ELSE 0]
    BY <1>7 DEF Handed
  <2>2. l1 = [i \in 1..n1 |-> IF Whole(msg1[i], csz1[i - 1]) THEN 1 ELSE 0]
    BY <1>5 DEF Handed
  <2>3. l2 = [i \in 1..n2 |-> IF Whole(msg2[i], csz2[i - 1]) THEN 1 ELSE 0]
    BY <1>6 DEF Handed
  <2>4. \A i \in 1..n1 : l[i] = l1[i]
    BY <1>17, <1>20, <2>1, <2>2
  <2>5. \A i \in 1..n2 : l[n1 + i] = l2[i]
    BY <1>18, <1>21, <2>1, <2>3
  <2>6. Adds(done1, l1, n1) /\ Adds(done2, l2, n2)
    BY <1>11, <1>12
  <2>7. Adds(Joined(done1, done2, n1, n2), l, n1 + n2)
    BY <2>4, <2>5, <2>6, AddsConcat
  <2>. QED BY <1>16, <2>7
<1>25. /\ \A i \in 0..n1 : done[i] = done1[i]
       /\ \A i \in 0..n2 : done[n1 + i] = k1 + done2[i]
       /\ done[n1 + n2] = k1 + k2
  <2>. PICK l1 : l1 = Handed(w, csz1, msg1)
    OBVIOUS
  <2>. PICK l2 : l2 = Handed(p, csz2, msg2)
    OBVIOUS
  <2>1. Adds(done1, l1, n1) /\ Adds(done2, l2, n2)
    BY <1>11, <1>12
  <2>2. /\ \A i \in 0..n1 : Joined(done1, done2, n1, n2)[i] = done1[i]
        /\ \A i \in 0..n2 : Joined(done1, done2, n1, n2)[n1 + i] = done1[n1] + done2[i]
        /\ Joined(done1, done2, n1, n2)[n1 + n2] = done1[n1] + done2[n2]
    BY <2>1, JoinedValues
  <2>. QED BY <1>11, <1>12, <1>16, <2>2
<1>26. ASSUME NEW i \in 1..(n1 + n2), Whole(msg[i], csz[i - 1])
       PROVE  q[done[i]] = Message(msg[i])
  <2>1. CASE i \in 1..n1
    <3>1. o[done1[i]] = Message(msg1[i]) /\ Whole(msg1[i], csz1[i - 1])
      BY <1>11, <1>20, <1>26, <2>1
    <3>2. done1[i] \in 1..k1
      BY <1>5, <1>11, <2>1, <3>1, HandedOne
    <3>3. done1[i] \in 1..(k1 + k2) /\ done1[i] <= k1
      BY <3>2
    <3>4. q[done1[i]] = o[done1[i]]
      BY <1>10, <3>3
    <3>. QED BY <1>17, <1>20, <1>25, <2>1, <3>1, <3>4
  <2>2. ASSUME NEW j \in 1..n2, i = n1 + j PROVE q[done[i]] = Message(msg[i])
    <3>1. r[done2[j]] = Message(msg2[j]) /\ Whole(msg2[j], csz2[j - 1])
      BY <1>12, <1>21, <1>26, <2>2
    <3>2. done2[j] \in 1..k2
      BY <1>6, <1>12, <3>1, HandedOne
    <3>3. /\ k1 + done2[j] \in 1..(k1 + k2) /\ ~(k1 + done2[j] <= k1)
          /\ (k1 + done2[j]) - k1 = done2[j]
      BY <3>2
    <3>4. q[k1 + done2[j]] = r[done2[j]]
      BY <1>10, <3>3
    <3>. QED BY <1>18, <1>21, <1>25, <2>2, <3>1, <3>4
  <2>. QED BY <1>19, <2>1, <2>2
<1>27. Trace(v, q, ctx, csz, done, msg)
  BY <1>7, <1>10, <1>13, <1>14, <1>22, <1>23, <1>24, <1>25, <1>26 DEF Trace
<1>28. ctx[0] = x /\ csz[0] = z /\ ctx[n1 + n2] = y2 /\ csz[n1 + n2] = u2
  <2>1. 0 \in 0..n1 /\ n2 \in 0..n2
    OBVIOUS
  <2>. QED BY <1>11, <1>12, <1>13, <1>14, <2>1
<1>29. v # <<>> => msg[1] = IF w = <<>> THEN g ELSE f
  <2>1. CASE w # <<>>
    <3>1. n1 # 0
      BY <1>1, <1>5, <2>1, EmptySeq DEF Trace
    <3>2. 1 \in 1..n1
      BY <3>1
    <3>. QED BY <1>1, <1>20, <2>1, <3>2
  <2>2. CASE w = <<>>
    <3>1. n1 = 0
      BY <1>5, <2>2, EmptySeq
    <3>2. ASSUME v # <<>> PROVE n1 + n2 # 0
      BY <1>7, <3>2, EmptySeq
    <3>3. v # <<>> => 1 \in 1..n2 /\ n1 + 1 = 1 /\ p # <<>>
      <4>1. v # <<>> => n2 # 0
        BY <3>1, <3>2
      <4>2. n2 # 0 => 1 \in 1..n2 /\ n1 + 1 = 1
        BY <3>1
      <4>3. n2 # 0 => p # <<>>
        BY <1>6, EmptySeq
      <4>. QED BY <4>1, <4>2, <4>3
    <3>4. v # <<>> => msg[1] = msg2[1]
      BY <1>21, <3>3
    <3>. QED BY <1>2, <2>2, <3>3, <3>4
  <2>. QED BY <2>1, <2>2
<1>30. Traced(v, q, x, z, y2, u2, IF w = <<>> THEN g ELSE f)
  BY <1>7, <1>27, <1>28, <1>29 DEF Traced
<1>. QED BY <1>3, <1>4, <1>30

\* The first chunk of a trace, and the rest of the trace without it.
LEMMA TracedTail ==
    ASSUME NEW w, NEW o, NEW x, NEW z, NEW y, NEW u, NEW f, Traced(w, o, x, z, y, u, f),
           w # <<>>
    PROVE  \E x1, z1, g :
              /\ Link(Head(w), f, x, z, x1, z1)
              /\ Whole(f, z) => o # <<>> /\ Head(o) = Message(f)
              /\ Traced(Tail(w), IF Whole(f, z) THEN Tail(o) ELSE o, x1, z1, y, u, g)
<1>1. PICK ctx1, csz1, done1, msg1 :
        /\ Trace(w, o, ctx1, csz1, done1, msg1)
        /\ ctx1[0] = x /\ csz1[0] = z /\ ctx1[Len(w)] = y /\ csz1[Len(w)] = u
        /\ (w # <<>> => msg1[1] = f)
  BY DEF Traced
<1>2. PICK n \in Nat : n = Len(w)
  BY <1>1, LenProperties DEF Trace
<1>3. PICK k \in Nat : k = Len(o)
  BY <1>1, LenProperties DEF Trace
<1>4. PICK v : v = Tail(w)
  OBVIOUS
<1>5. PICK q : q = IF Whole(f, z) THEN Tail(o) ELSE o
  OBVIOUS
<1>6. /\ w \in Seq(Chunks) /\ o \in Seq(Messages)
      /\ ctx1 \in [0..n -> Contexts] /\ csz1 \in [0..n -> Sizes] /\ msg1 \in [1..n -> Sendings]
      /\ \A i \in 1..n : Link(w[i], msg1[i], ctx1[i - 1], csz1[i - 1], ctx1[i], csz1[i])
      /\ Adds(done1, Handed(w, csz1, msg1), n) /\ done1[n] = k
      /\ \A i \in 1..n : Whole(msg1[i], csz1[i - 1]) => o[done1[i]] = Message(msg1[i])
      /\ ctx1[0] = x /\ csz1[0] = z /\ ctx1[n] = y /\ csz1[n] = u /\ msg1[1] = f
  BY <1>1, <1>2, <1>3 DEF Trace
<1>7. n > 0 /\ v \in Seq(Chunks) /\ Len(v) = n - 1 /\ \A i \in 1..(n - 1) : v[i] = w[i + 1]
  <2>1. n # 0
    BY <1>2, <1>6, EmptySeq
  <2>. QED BY <1>2, <1>4, <1>6, <2>1, HeadTailProperties
<1>8. 1 \in 1..n /\ 0 \in 0..n /\ 1 \in 0..n /\ 1 - 1 = 0 /\ n \in 0..n
  BY <1>7
<1>9. Head(w) = w[1]
  BY <1>2, <1>6, <1>8
<1>10. Link(Head(w), f, x, z, ctx1[1], csz1[1])
  BY <1>6, <1>8, <1>9
<1>11. PICK j \in Nat : j = IF Whole(f, z) THEN 1 ELSE 0
  OBVIOUS
<1>12. Handed(w, csz1, msg1)[1] = j
  BY <1>2, <1>6, <1>8, <1>11 DEF Handed
<1>13. done1[1] = j
  <2>1. done1[0] = 0 /\ done1[1] = done1[1 - 1] + Handed(w, csz1, msg1)[1]
    BY <1>6, <1>8 DEF Adds
  <2>. QED BY <1>8, <1>11, <1>12, <2>1
<1>14. j <= k
  <2>1. done1[1] <= done1[n]
    BY <1>6, <1>7, <1>8 DEF Adds
  <2>. QED BY <1>6, <1>13, <2>1
<1>15. Whole(f, z) => o # <<>> /\ Head(o) = Message(f) /\ k > 0
  <2>. SUFFICES ASSUME Whole(f, z) PROVE o # <<>> /\ Head(o) = Message(f) /\ k > 0
    OBVIOUS
  <2>1. j = 1 /\ k > 0
    BY <1>11, <1>14
  <2>2. o # <<>>
    BY <1>3, <2>1, EmptySeq
  <2>3. o[1] = Message(f)
    BY <1>6, <1>8, <1>13, <2>1
  <2>4. Head(o) = o[1]
    BY <1>3, <1>6, <2>1
  <2>. QED BY <2>1, <2>2, <2>3, <2>4
<1>16. /\ q \in Seq(Messages) /\ Len(q) = k - j
       /\ \A i \in 1..(k - j) : q[i] = o[i + j]
  <2>1. CASE Whole(f, z)
    <3>1. q = Tail(o) /\ j = 1 /\ o # <<>>
      BY <1>5, <1>11, <1>15, <2>1
    <3>. QED BY <1>3, <1>6, <3>1, HeadTailProperties
  <2>2. CASE ~Whole(f, z)
    <3>1. q = o /\ j = 0
      BY <1>5, <1>11, <2>2
    <3>2. k - 0 = k /\ \A i \in 1..k : i + 0 = i
      OBVIOUS
    <3>. QED BY <1>3, <1>6, <3>1, <3>2
  <2>. QED BY <2>1, <2>2
<1>17. PICK ctx : ctx = [i \in 0..(n - 1) |-> ctx1[i + 1]]
  OBVIOUS
<1>18. PICK csz : csz = [i \in 0..(n - 1) |-> csz1[i + 1]]
  OBVIOUS
<1>19. PICK msg : msg = [i \in 1..(n - 1) |-> msg1[i + 1]]
  OBVIOUS
<1>20. PICK done : done = Shifted(done1, n)
  OBVIOUS
<1>21. \A i \in 0..(n - 1) : i + 1 \in 0..n
  BY <1>7
<1>22. \A i \in 1..(n - 1) : /\ i + 1 \in 1..n /\ i \in 0..(n - 1) /\ i - 1 \in 0..(n - 1)
                             /\ (i + 1) - 1 = i /\ (i - 1) + 1 = i
  BY <1>7
<1>. HIDE DEF Contexts
<1>23. /\ ctx \in [0..(n - 1) -> Contexts] /\ csz \in [0..(n - 1) -> Sizes]
       /\ msg \in [1..(n - 1) -> Sendings]
  BY <1>6, <1>17, <1>18, <1>19, <1>21, <1>22
<1>24. \A i \in 1..(n - 1) :
          /\ v[i] = w[i + 1] /\ msg[i] = msg1[i + 1]
          /\ ctx[i - 1] = ctx1[(i + 1) - 1] /\ csz[i - 1] = csz1[(i + 1) - 1]
          /\ ctx[i] = ctx1[i + 1] /\ csz[i] = csz1[i + 1]
  BY <1>7, <1>17, <1>18, <1>19, <1>22
<1>25. ASSUME NEW i \in 1..(n - 1)
       PROVE  Link(v[i], msg[i], ctx[i - 1], csz[i - 1], ctx[i], csz[i])
  BY <1>6, <1>22, <1>24
<1>26. Adds(done, Handed(v, csz, msg), n - 1)
  <2>. PICK l : l = Handed(v, csz, msg)
    OBVIOUS
  <2>. PICK l1 : l1 = Handed(w, csz1, msg1)
    OBVIOUS
  <2>1. l = [i \in 1..(n - 1) |-> IF Whole(msg[i], csz[i - 1]) THEN 1 ELSE 0]
    BY <1>7 DEF Handed
  <2>2. l1 = [i \in 1..n |-> IF Whole(msg1[i], csz1[i - 1]) THEN 1 ELSE 0]
    BY <1>2 DEF Handed
  <2>3. \A i \in 1..(n - 1) : l[i] = l1[i + 1]
    BY <1>22, <1>24, <2>1, <2>2
  <2>4. Adds(done1, l1, n)
    BY <1>6
  <2>5. Adds(Shifted(done1, n), l, n - 1)
    BY <1>7, <2>3, <2>4, AddsTail
  <2>. QED BY <1>20, <2>5
<1>27. \A i \in 0..(n - 1) : done[i] = done1[i + 1] - j
  BY <1>13, <1>20 DEF Shifted
<1>28. done[n - 1] = k - j
  <2>1. n - 1 \in 0..(n - 1) /\ (n - 1) + 1 = n
    BY <1>7
  <2>. QED BY <1>6, <1>27, <2>1
<1>29. ASSUME NEW i \in 1..(n - 1), Whole(msg[i], csz[i - 1])
       PROVE  q[done[i]] = Message(msg[i])
  <2>1. Whole(msg1[i + 1], csz1[(i + 1) - 1]) /\ o[done1[i + 1]] = Message(msg1[i + 1])
    BY <1>6, <1>22, <1>24, <1>29
  <2>2. done[i] \in 1..(k - j)
    <3>1. n - 1 \in Nat
      BY <1>7
    <3>. QED BY <1>7, <1>26, <1>28, <1>29, <3>1, HandedOne
  <2>3. done[i] = done1[i + 1] - j /\ done1[i + 1] \in Nat
    BY <1>6, <1>21, <1>22, <1>27 DEF Adds
  <2>4. done[i] + j = done1[i + 1]
    BY <2>3
  <2>5. q[done[i]] = o[done[i] + j]
    BY <1>16, <2>2
  <2>. QED BY <1>24, <2>1, <2>4, <2>5
<1>30. Trace(v, q, ctx, csz, done, msg)
  BY <1>7, <1>16, <1>23, <1>25, <1>26, <1>28, <1>29 DEF Trace
<1>31. ctx[0] = ctx1[1] /\ csz[0] = csz1[1] /\ ctx[n - 1] = y /\ csz[n - 1] = u
  <2>1. 0 \in 0..(n - 1) /\ 0 + 1 = 1 /\ n - 1 \in 0..(n - 1) /\ (n - 1) + 1 = n
    BY <1>7
  <2>. QED BY <1>6, <1>17, <1>18, <2>1
<1>32. Traced(v, q, ctx1[1], csz1[1], y, u, msg[1])
  BY <1>7, <1>30, <1>31 DEF Traced
<1>. QED BY <1>4, <1>5, <1>10, <1>15, <1>32

-----------------------------------------------------------------------------
(* What send_rtmp writes                                                   *)

\* A product grows with its factor.
LEMMA Products ==
    ASSUME NEW i \in Int, NEW j \in Int, NEW z \in Nat, i <= j
    PROVE  i * z <= j * z
<1>1. (j - i) * z >= 0
  OBVIOUS
<1>2. (j - i) * z = j * z - i * z
  OBVIOUS
<1>3. i * z \in Int /\ j * z \in Int
  OBVIOUS
<1>. QED BY <1>1, <1>2, <1>3

\* The number of pieces, and what is left before each of them.
LEMMA PieceCount ==
    ASSUME NEW len \in Nat, len > 0, NEW z \in Nat, z > 0
    PROVE  /\ (len + z - 1) \div z \in Nat /\ (len + z - 1) \div z > 0
           /\ ((len + z - 1) \div z - 1) * z < len
           /\ len <= ((len + z - 1) \div z) * z
<1>1. PICK K \in Int : K = (len + z - 1) \div z
  OBVIOUS
<1>2. z * K <= len + z - 1 /\ len + z - 1 < z * (K + 1)
  BY <1>1
<1>3. (K - 1) * z = z * K - z /\ K * z = z * K /\ z * (K + 1) = z * K + z /\ z * K \in Int
  OBVIOUS
<1>4. (K - 1) * z < len /\ len <= K * z
  BY <1>2, <1>3
<1>5. K > 0
  <2>1. ASSUME K <= 0 PROVE FALSE
    <3>1. K * z <= 0 * z
      BY <2>1, Products
    <3>2. 0 * z = 0 /\ K * z \in Int
      OBVIOUS
    <3>. QED BY <1>4, <3>1, <3>2
  <2>. QED BY <2>1
<1>. QED BY <1>1, <1>4, <1>5

Count(len, z) == (len + z - 1) \div z

IsLeft(L, K, len, z) ==
    /\ K \in Nat /\ K > 0
    /\ L \in [0..K -> Nat] /\ L[0] = len /\ L[K] = 0
    /\ \A i \in 1..K :
          /\ L[i - 1] > 0 /\ L[i - 1] = len - (i - 1) * z
          /\ L[i - 1] <= len /\ L[i] <= len
          /\ L[i] = L[i - 1] - Smaller(z, L[i - 1])
          /\ (i = K <=> L[i - 1] <= z)

LEMMA PieceLengths ==
    ASSUME NEW len \in Nat, len > 0, NEW z \in Nat, z > 0
    PROVE  \E L : IsLeft(L, Count(len, z), len, z)
<1>0. PICK K : K = Count(len, z)
  OBVIOUS
<1>1. K \in Nat /\ K > 0 /\ (K - 1) * z < len /\ len <= K * z
  BY <1>0, PieceCount DEF Count
<1>2. PICK L : L = [i \in 0..K |-> IF i = K THEN 0 ELSE len - i * z]
  OBVIOUS
<1>3. \A i \in 0..K : i * z \in Nat
  OBVIOUS
<1>4. ASSUME NEW i \in 0..K, i # K PROVE L[i] = len - i * z /\ L[i] > 0 /\ L[i] <= len /\ L[i] \in Nat
  <2>1. i <= K - 1 /\ K - 1 \in Int
    BY <1>1, <1>4
  <2>2. i * z <= (K - 1) * z
    BY <2>1, Products
  <2>3. i * z \in Nat /\ (K - 1) * z \in Int
    BY <1>1
  <2>4. L[i] = len - i * z
    BY <1>2, <1>4
  <2>. QED BY <1>1, <2>2, <2>3, <2>4
<1>5. L[K] = 0 /\ K \in 0..K
  BY <1>1, <1>2
<1>6. L \in [0..K -> Nat]
  BY <1>2, <1>4, <1>5
<1>7. L[0] = len
  <2>1. 0 \in 0..K /\ 0 # K /\ len - 0 * z = len
    BY <1>1
  <2>. QED BY <1>4, <2>1
<1>8. ASSUME NEW i \in 1..K
      PROVE  /\ L[i - 1] > 0 /\ L[i - 1] = len - (i - 1) * z
             /\ L[i - 1] <= len /\ L[i] <= len
             /\ L[i] = L[i - 1] - Smaller(z, L[i - 1])
             /\ (i = K <=> L[i - 1] <= z)
  <2>1. i - 1 \in 0..K /\ i - 1 # K /\ i \in 0..K
    BY <1>1
  <2>2. L[i - 1] = len - (i - 1) * z /\ L[i - 1] > 0 /\ L[i - 1] <= len /\ L[i - 1] \in Nat
    BY <1>4, <2>1
  <2>3. (i - 1) * z = i * z - z /\ i * z \in Int
    OBVIOUS
  <2>4. CASE i = K
    <3>1. L[i - 1] <= z /\ L[i] = 0
      BY <1>1, <1>5, <2>2, <2>3, <2>4
    <3>. QED BY <2>2, <2>4, <3>1 DEF Smaller
  <2>5. CASE i # K
    <3>1. L[i] = len - i * z /\ L[i] > 0 /\ L[i] <= len
      BY <1>4, <2>1, <2>5
    <3>2. L[i] = L[i - 1] - z /\ L[i - 1] > z
      BY <2>2, <2>3, <3>1
    <3>. QED BY <2>2, <2>5, <3>1, <3>2 DEF Smaller
  <2>. QED BY <2>4, <2>5
<1>. QED BY <1>0, <1>1, <1>5, <1>6, <1>7, <1>8 DEF IsLeft

\* Messages as send_rtmp is given them, and as they are while it cuts them up.
Writings ==
    {m \in [csid : Csids, len : Lens \cup {ControlLen}, kind : Kinds, field : Stamps,
            ts : Stamps, value : ChunkSizes \cup {0}] :
       m.len > 0 /\ m.ts = m.field /\ (m.kind = "set_chunk" => m.value \in ChunkSizes)}

Sending(m, l) ==
    [csid |-> m.csid, len |-> m.len, kind |-> m.kind, field |-> m.field, left |-> l,
     value |-> m.value, ts |-> m.ts]

LEMMA SendingLemma ==
    ASSUME NEW m \in Writings, NEW l \in Nat, l <= m.len, NEW z \in Sizes
    PROVE  /\ Sending(m, l) \in Sendings
           /\ Less(Sending(m, l), z) = Sending(m, l - Smaller(z, l))
           /\ Part(Sending(m, l), z) = Smaller(z, l)
           /\ (Ends(Sending(m, l), z) <=> l <= z) /\ (Whole(Sending(m, l), z) <=> l <= z)
           /\ Message(Sending(m, l)) = Message(m)
<1>1. Sending(m, l) \in Sendings
  BY DEF Sending, Sendings, Writings
<1>2. Less(Sending(m, l), z) = Sending(m, l - Smaller(z, l))
  BY DEF Less, Part, Sending
<1>3. /\ Part(Sending(m, l), z) = Smaller(z, l)
      /\ (Ends(Sending(m, l), z) <=> l <= z)
  BY DEF Part, Ends, Sending
<1>4. m.len > 0 /\ Sending(m, l).len = m.len
  BY DEF Writings, Sending
<1>5. Message(Sending(m, l)) = Message(m)
  BY DEF Message, Sending
<1>. QED BY <1>1, <1>2, <1>3, <1>4, <1>5 DEF Whole

\* One piece is a chunk.
LEMMA PieceLemma ==
    ASSUME NEW m \in Writings, NEW l \in Nat, l <= m.len, NEW z \in Sizes, NEW fmt \in 0..3,
           NEW n, n = Smaller(z, l)
    PROVE  /\ IsChunk(Chunk(m, fmt, n), Sending(m, l), n) /\ Chunk(m, fmt, n).fmt = fmt
<1>1. /\ m.csid \in Csids /\ m.field \in Nat /\ m.len \in Nat /\ m.kind \in Kinds
      /\ m.value \in Nat
  <2>1. /\ m.csid \in Csids /\ m.field \in Stamps /\ m.len \in Lens \cup {ControlLen}
        /\ m.kind \in Kinds /\ m.value \in ChunkSizes \cup {0}
    BY DEF Writings
  <2>2. Lens \cup {ControlLen} \subseteq Nat /\ ChunkSizes \cup {0} \subseteq Nat /\ Stamps \subseteq Nat
    BY ConstantsAssumption DEF Stamps
  <2>. QED BY <2>1, <2>2
<1>2. n \in Nat
  BY SizeTypes DEF Smaller
<1>3. IsChunk(Chunk(m, fmt, n), m, n) /\ Chunk(m, fmt, n).fmt = fmt
  BY <1>1, <1>2, ChunkLemma
<1>4. /\ Sending(m, l).csid = m.csid /\ Sending(m, l).field = m.field
      /\ Sending(m, l).len = m.len /\ Sending(m, l).kind = m.kind
      /\ Sending(m, l).value = m.value
  BY DEF Sending
<1>. QED BY <1>3, <1>4 DEF IsChunk

\* NoPacket is no message.
LEMMA NoSending == NoPacket \notin Sendings
<1>1. \A m \in Sendings : "len" \in DOMAIN m
  BY DEF Sendings
<1>2. DOMAIN NoPacket = {"none"}
  BY DEF NoPacket
<1>. QED BY <1>1, <1>2

\* The pieces of a message are a trace of it, where its chunk stream is free.
LEMMA PiecesTraced ==
    ASSUME NEW m \in Writings, NEW x \in Contexts, NEW z \in Sizes, z = chunk_size_out,
           x[m.csid] = NoPacket \/ x[m.csid].left = 0
    PROVE  \E y, f :
              /\ Traced(Pieces(m), <<Message(m)>>, x, z, y,
                        IF m.kind = "set_chunk" THEN m.value ELSE z, f)
              /\ y[m.csid].left = 0
              /\ \A c \in Csids : c # m.csid => y[c] = x[c]
<1>1. m.csid \in Csids /\ m.len \in Nat /\ m.len > 0 /\ m.ts = m.field
      /\ (m.kind = "set_chunk" => m.value \in ChunkSizes) /\ z \in Nat /\ z > 0
  BY ConstantsAssumption, SizeTypes DEF Writings
<1>2. PICK K : K = Count(m.len, z)
  OBVIOUS
<1>3. PICK L : IsLeft(L, K, m.len, z)
  BY <1>1, <1>2, PieceLengths
<1>4. /\ K \in Nat /\ K > 0
      /\ L \in [0..K -> Nat] /\ L[0] = m.len /\ L[K] = 0
      /\ \A i \in 1..K :
            /\ L[i - 1] > 0 /\ L[i - 1] = m.len - (i - 1) * z
            /\ L[i - 1] <= m.len /\ L[i] <= m.len
            /\ L[i] = L[i - 1] - Smaller(z, L[i - 1])
            /\ (i = K <=> L[i - 1] <= z)
  BY <1>3 DEF IsLeft
<1>5. PICK w : w = [i \in 1..K |-> Chunk(m, IF i = 1 THEN 0 ELSE 3, Smaller(z, L[i - 1]))]
  OBVIOUS
<1>6. w = Pieces(m)
  <2>1. \A i \in 1..K : L[i - 1] = m.len - (i - 1) * z
    BY <1>4
  <2>. QED BY <1>2, <1>5, <2>1 DEF Pieces, Count
<1>7. \A i \in 1..K : /\ i \in 0..K /\ i - 1 \in 0..K /\ L[i] \in Nat /\ L[i - 1] \in Nat
                      /\ L[i] <= m.len /\ L[i - 1] <= m.len
  <2>1. \A i \in 1..K : i \in 0..K /\ i - 1 \in 0..K
    BY <1>4
  <2>. QED BY <1>4, <2>1
<1>8. PICK u : u = IF m.kind = "set_chunk" THEN m.value ELSE z
  OBVIOUS
<1>9. u \in Sizes
  BY <1>1, <1>8 DEF Sizes
<1>10. PICK msg : msg = [i \in 1..K |-> Sending(m, L[i - 1])]
  OBVIOUS
<1>11. PICK ctx : ctx = [i \in 0..K |-> IF i = 0 THEN x ELSE [x EXCEPT ![m.csid] = Sending(m, L[i])]]
  OBVIOUS
<1>12. PICK csz : csz = [i \in 0..K |-> IF i = K THEN u ELSE z]
  OBVIOUS
<1>13. PICK done : done = [i \in 0..K |-> IF i = K THEN 1 ELSE 0]
  OBVIOUS
<1>14. \A i \in 1..K : /\ msg[i] = Sending(m, L[i - 1]) /\ msg[i] \in Sendings
                       /\ Sending(m, L[i]) \in Sendings
  BY <1>7, <1>10, SendingLemma
<1>15. msg \in [1..K -> Sendings]
  BY <1>10, <1>14
<1>16. ctx \in [0..K -> Contexts]
  <2>1. \A i \in 0..K : i # 0 => i \in 1..K
    BY <1>4
  <2>2. \A i \in 0..K : i # 0 => [x EXCEPT ![m.csid] = Sending(m, L[i])] \in Contexts
    <3>. SUFFICES ASSUME NEW i \in 1..K
                  PROVE  [x EXCEPT ![m.csid] = Sending(m, L[i])] \in Contexts
      BY <2>1
    <3>1. Sending(m, L[i]).csid = m.csid
      BY DEF Sending
    <3>. QED BY <1>1, <1>14, <3>1, SetContext
  <2>. QED BY <1>11, <2>2
<1>17. csz \in [0..K -> Sizes] /\ csz[K] = u /\ \A i \in 1..K : csz[i - 1] = z
  <2>1. \A i \in 1..K : i - 1 # K /\ i - 1 \in 0..K
    BY <1>4
  <2>2. K \in 0..K
    BY <1>4
  <2>. QED BY <1>9, <1>12, <2>1, <2>2
<1>18. \A i \in 1..K : w[i] = Chunk(m, IF i = 1 THEN 0 ELSE 3, Smaller(z, L[i - 1]))
  BY <1>5
<1>19. \A i \in 1..K : IsChunk(w[i], msg[i], Part(msg[i], z)) /\ w[i].fmt = IF i = 1 THEN 0 ELSE 3
  <2>. TAKE i \in 1..K
  <2>1. PICK n : n = Smaller(z, L[i - 1])
    OBVIOUS
  <2>2. PICK fmt \in 0..3 : fmt = IF i = 1 THEN 0 ELSE 3
    OBVIOUS
  <2>3. Part(msg[i], z) = n
    <3>1. Part(Sending(m, L[i - 1]), z) = Smaller(z, L[i - 1])
      BY <1>7, SendingLemma
    <3>. QED BY <1>14, <2>1, <3>1
  <2>4. IsChunk(Chunk(m, fmt, n), Sending(m, L[i - 1]), n) /\ Chunk(m, fmt, n).fmt = fmt
    BY <1>7, <2>1, PieceLemma
  <2>5. w[i] = Chunk(m, fmt, n)
    BY <1>18, <2>1, <2>2
  <2>. QED BY <1>14, <2>2, <2>3, <2>4, <2>5
<1>20. w \in Seq(Chunks) /\ Len(w) = K
  <2>1. \A i \in 1..K : w[i] \in Chunks
    BY <1>19 DEF IsChunk
  <2>. QED BY <1>4, <1>5, <2>1
<1>21. ASSUME NEW i \in 1..K
       PROVE  Begins(ctx[i - 1][m.csid], w[i].fmt, msg[i])
  <2>1. /\ msg[i].left = L[i - 1] /\ msg[i].len = m.len /\ msg[i].kind = m.kind
        /\ msg[i].field = m.field /\ msg[i].ts = m.ts
    <3>1. msg[i] = Sending(m, L[i - 1])
      BY <1>14
    <3>. QED BY <3>1 DEF Sending
  <2>2. CASE i = 1
    <3>1. i - 1 = 0 /\ 0 \in 0..K
      BY <1>4, <2>2
    <3>2. ctx[i - 1] = x /\ msg[i].left = m.len /\ w[i].fmt = 0
      BY <1>4, <1>11, <1>19, <2>1, <2>2, <3>1
    <3>3. x[m.csid] = NoPacket \/ (x[m.csid] # NoPacket /\ x[m.csid].left = 0)
      OBVIOUS
    <3>. QED BY <1>1, <2>1, <3>2, <3>3 DEF Begins
  <2>3. CASE i # 1
    <3>1. i - 1 \in 1..K /\ i - 1 # 0 /\ i - 1 \in 0..K
      BY <1>4, <2>3
    <3>2. ctx[i - 1] = [x EXCEPT ![m.csid] = Sending(m, L[i - 1])]
      BY <1>11, <3>1
    <3>3. ctx[i - 1][m.csid] = msg[i]
      BY <1>1, <1>14, <3>2 DEF Contexts
    <3>4. msg[i].left > 0
      BY <1>4, <2>1
    <3>5. msg[i] # NoPacket
      BY <1>14, NoSending
    <3>6. w[i].fmt = 3
      BY <1>19, <2>3
    <3>. QED BY <3>3, <3>4, <3>5, <3>6 DEF Begins
  <2>. QED BY <2>2, <2>3
<1>22. ASSUME NEW i \in 1..K
       PROVE  ctx[i] = [ctx[i - 1] EXCEPT ![msg[i].csid] = Less(msg[i], z)]
  <2>1. Less(msg[i], z) = Sending(m, L[i]) /\ msg[i].csid = m.csid
    <3>1. Less(Sending(m, L[i - 1]), z) = Sending(m, L[i - 1] - Smaller(z, L[i - 1]))
      BY <1>7, SendingLemma
    <3>2. L[i] = L[i - 1] - Smaller(z, L[i - 1])
      BY <1>4
    <3>3. Sending(m, L[i - 1]).csid = m.csid
      BY DEF Sending
    <3>. QED BY <1>14, <3>1, <3>2, <3>3
  <2>2. ctx[i] = [x EXCEPT ![m.csid] = Sending(m, L[i])]
    <3>1. i \in 0..K /\ i # 0
      BY <1>7
    <3>. QED BY <1>11, <3>1
  <2>3. ctx[i - 1] = x \/ ctx[i - 1] = [x EXCEPT ![m.csid] = Sending(m, L[i - 1])]
    BY <1>7, <1>11
  <2>4. \A a, b : [[x EXCEPT ![m.csid] = a] EXCEPT ![m.csid] = b] = [x EXCEPT ![m.csid] = b]
    BY DEF Contexts
  <2>. QED BY <2>1, <2>2, <2>3, <2>4
<1>23. ASSUME NEW i \in 1..K
       PROVE  csz[i] = IF Ends(msg[i], z) /\ msg[i].kind = "set_chunk" THEN msg[i].value ELSE z
  <2>1. Ends(msg[i], z) <=> i = K
    <3>1. Ends(Sending(m, L[i - 1]), z) <=> L[i - 1] <= z
      BY <1>7, SendingLemma
    <3>. QED BY <1>4, <1>14, <3>1
  <2>2. msg[i].kind = m.kind /\ msg[i].value = m.value
    <3>1. msg[i] = Sending(m, L[i - 1])
      BY <1>14
    <3>. QED BY <3>1 DEF Sending
  <2>3. csz[i] = IF i = K THEN u ELSE z
    BY <1>7, <1>12
  <2>. QED BY <1>8, <2>1, <2>2, <2>3
<1>24. \A i \in 1..K : Link(w[i], msg[i], ctx[i - 1], csz[i - 1], ctx[i], csz[i])
  <2>. TAKE i \in 1..K
  <2>1. msg[i].csid = m.csid
    <3>1. msg[i] = Sending(m, L[i - 1])
      BY <1>14
    <3>. QED BY <3>1 DEF Sending
  <2>. QED BY <1>17, <1>19, <1>21, <1>22, <1>23, <2>1 DEF Link
<1>25. \A i \in 1..K : Whole(msg[i], csz[i - 1]) <=> i = K
  <2>. TAKE i \in 1..K
  <2>1. Whole(Sending(m, L[i - 1]), z) <=> L[i - 1] <= z
    BY <1>7, SendingLemma
  <2>. QED BY <1>4, <1>14, <1>17, <2>1
<1>26. Adds(done, Handed(w, csz, msg), K)
  <2>1. PICK l : l = Handed(w, csz, msg)
    OBVIOUS
  <2>2. \A i \in 1..K : l[i] = IF i = K THEN 1 ELSE 0
    BY <1>20, <1>25, <2>1 DEF Handed
  <2>3. K \in 0..K /\ 0 \in 0..K /\ 0 # K
    BY <1>4
  <2>4. done \in [0..K -> Nat] /\ done[0] = 0
    BY <1>13, <2>3
  <2>5. \A i \in 1..K : done[i] = done[i - 1] + l[i] /\ l[i] \in Nat
    <3>1. \A i \in 1..K : i - 1 # K /\ i - 1 \in 0..K /\ i \in 0..K
      BY <1>4
    <3>2. \A i \in 1..K : done[i - 1] = 0 /\ done[i] = l[i]
      BY <1>13, <2>2, <3>1
    <3>. QED BY <2>2, <3>2
  <2>6. \A i \in 0..K, j \in 0..K : i <= j => done[i] <= done[j]
    BY <1>4, <1>13
  <2>. QED BY <2>1, <2>4, <2>5, <2>6 DEF Adds
<1>27. PICK o : o = <<Message(m)>>
  OBVIOUS
<1>28. o \in Seq(Messages) /\ Len(o) = 1 /\ o[1] = Message(m)
  <2>1. Message(m) \in Messages
    BY DEF Message, Messages, Writings
  <2>. QED BY <1>27, <2>1
<1>29. K \in 0..K /\ K \in 1..K /\ 0 \in 0..K /\ K # 0
  BY <1>4
<1>30. done[K] = 1
  BY <1>13, <1>29
<1>31. \A i \in 1..K : Whole(msg[i], csz[i - 1]) => o[done[i]] = Message(msg[i])
  <2>1. \A i \in 1..K : Message(msg[i]) = Message(m)
    <3>1. \A i \in 1..K : Message(Sending(m, L[i - 1])) = Message(m)
      BY <1>7, SendingLemma
    <3>. QED BY <1>14, <3>1
  <2>. QED BY <1>25, <1>28, <1>30, <2>1
<1>32. Trace(w, o, ctx, csz, done, msg)
  BY <1>15, <1>16, <1>17, <1>20, <1>24, <1>26, <1>28, <1>30, <1>31 DEF Trace
<1>33. ctx[0] = x /\ csz[0] = z /\ ctx[K] = [x EXCEPT ![m.csid] = Sending(m, 0)] /\ csz[K] = u
  BY <1>4, <1>11, <1>12, <1>29
<1>34. Traced(w, o, x, z, ctx[K], u, msg[1])
  BY <1>20, <1>32, <1>33 DEF Traced
<1>35. ctx[K][m.csid].left = 0 /\ \A c \in Csids : c # m.csid => ctx[K][c] = x[c]
  BY <1>1, <1>33 DEF Contexts, Sending
<1>. QED BY <1>6, <1>8, <1>27, <1>34, <1>35

-----------------------------------------------------------------------------
(* The parser                                                              *)

Packets ==
    [is_abs_stamp : BOOLEAN, msg_length : Nat, msg_type_id : Kinds \cup {"none"},
     ts_delta : Nat, time_stamp : Nat, got : Nat]

\* The packet p has collected what m has sent, and knows its header.
Fits(p, m) ==
    /\ p \in Packets
    /\ p.msg_length = m.len /\ p.msg_type_id = m.kind /\ p.got = m.len - m.left
    /\ p.ts_delta = Smaller(m.field, Mark)
    /\ m.ts = IF p.is_abs_stamp THEN m.field ELSE (m.field + p.time_stamp) % TsMod

\* The packet p is the one of the complete message q.
Remembers(p, q) ==
    /\ p \in Packets
    /\ p.msg_length = q.len /\ p.msg_type_id = q.kind /\ p.time_stamp = q.ts
    /\ p.ts_delta = Smaller(q.field, Mark)

\* The parser's context (the packets p and l) agrees with the sender's.
Agrees(p, l, q) ==
    \/ q = NoPacket /\ p = NoPacket /\ l = NoPacket
    \/ q # NoPacket /\ q.left = 0 /\ p = NoPacket /\ Remembers(l, q)
    \/ q # NoPacket /\ q.left > 0 /\ Fits(p, q)

\* NoPacket is no packet.
LEMMA NoPackets == NoPacket \notin Packets
<1>1. \A p \in Packets : "got" \in DOMAIN p
  BY DEF Packets
<1>2. DOMAIN NoPacket = {"none"}
  BY DEF NoPacket
<1>. QED BY <1>1, <1>2

\* A packet with the fields of a header.
LEMMA HeaderFields ==
    ASSUME NEW c \in Chunks, restore_context(c.csid) \in Packets
    PROVE  /\ Header(c) \in Packets
           /\ Header(c).is_abs_stamp = (restore_context(c.csid).is_abs_stamp \/ c.fmt = 0)
           /\ Header(c).ts_delta = IF c.fmt < 3 THEN Smaller(c.stamp, Mark)
                                   ELSE restore_context(c.csid).ts_delta
           /\ Header(c).msg_length = IF c.fmt < 2 THEN c.len
                                     ELSE restore_context(c.csid).msg_length
           /\ Header(c).msg_type_id = IF c.fmt < 2 THEN c.kind
                                      ELSE restore_context(c.csid).msg_type_id
           /\ Header(c).time_stamp = restore_context(c.csid).time_stamp
           /\ Header(c).got = restore_context(c.csid).got
<1>1. PICK p \in Packets : p = restore_context(c.csid)
  OBVIOUS
<1>2. PICK d \in Nat : d = IF c.fmt < 3 THEN Smaller(c.stamp, Mark) ELSE p.ts_delta
  <2>1. c.stamp \in Nat /\ Mark \in Nat /\ p.ts_delta \in Nat
    BY ConstantsAssumption DEF Chunks, Packets
  <2>. QED BY <2>1 DEF Smaller
<1>3. PICK a \in BOOLEAN : a = (p.is_abs_stamp \/ c.fmt = 0)
  OBVIOUS
<1>4. PICK l \in Nat : l = IF c.fmt < 2 THEN c.len ELSE p.msg_length
  BY DEF Chunks, Packets
<1>5. PICK k \in Kinds \cup {"none"} : k = IF c.fmt < 2 THEN c.kind ELSE p.msg_type_id
  BY DEF Chunks, Packets
<1>6. Header(c) = [p EXCEPT !.is_abs_stamp = a, !.ts_delta = d, !.msg_length = l, !.msg_type_id = k]
  BY <1>1, <1>2, <1>3, <1>4, <1>5 DEF Header, Packets
<1>7. ASSUME NEW r,
             r = [p EXCEPT !.is_abs_stamp = a, !.ts_delta = d, !.msg_length = l, !.msg_type_id = k]
      PROVE  /\ r \in Packets /\ r.is_abs_stamp = a /\ r.ts_delta = d /\ r.msg_length = l
             /\ r.msg_type_id = k /\ r.time_stamp = p.time_stamp /\ r.got = p.got
  BY <1>7 DEF Packets
<1>. QED BY <1>1, <1>2, <1>3, <1>4, <1>5, <1>6, <1>7

\* A header applied to a packet that fits already changes nothing that
\* matters: this is why split_rtmp may parse it again.
LEMMA HeaderAgain ==
    ASSUME NEW m \in Sendings, NEW c, NEW n, IsChunk(c, m, n), NEW q, Begins(q, c.fmt, m),
           Fits(now[c.csid], m)
    PROVE  Fits(Header(c), m)
<1>1. c \in Chunks
  BY DEF IsChunk
<1>2. restore_context(c.csid) = now[c.csid] /\ now[c.csid] \in Packets
  BY NoPackets DEF Fits, restore_context
<1>3. PICK p \in Packets : p = now[c.csid]
  BY <1>2
<1>4. PICK h : h = Header(c)
  OBVIOUS
<1>5. /\ h \in Packets /\ h.is_abs_stamp = (p.is_abs_stamp \/ c.fmt = 0)
      /\ h.ts_delta = IF c.fmt < 3 THEN Smaller(c.stamp, Mark) ELSE p.ts_delta
      /\ h.msg_length = IF c.fmt < 2 THEN c.len ELSE p.msg_length
      /\ h.msg_type_id = IF c.fmt < 2 THEN c.kind ELSE p.msg_type_id
      /\ h.time_stamp = p.time_stamp /\ h.got = p.got
  BY <1>1, <1>2, <1>3, <1>4, HeaderFields
<1>6. /\ (c.fmt < 3 => c.stamp = m.field) /\ (c.fmt < 2 => c.len = m.len /\ c.kind = m.kind)
  BY DEF IsChunk
<1>7. c.fmt = 0 => m.ts = m.field
  BY DEF Begins
<1>8. /\ p.msg_length = m.len /\ p.msg_type_id = m.kind /\ p.got = m.len - m.left
      /\ p.ts_delta = Smaller(m.field, Mark)
      /\ m.ts = IF p.is_abs_stamp THEN m.field ELSE (m.field + p.time_stamp) % TsMod
  BY <1>3 DEF Fits
<1>9. h.msg_length = m.len /\ h.msg_type_id = m.kind /\ h.got = m.len - m.left
  BY <1>5, <1>6, <1>8
<1>10. h.ts_delta = Smaller(m.field, Mark)
  BY <1>5, <1>6, <1>8
<1>11. m.ts = IF h.is_abs_stamp THEN m.field ELSE (m.field + h.time_stamp) % TsMod
  BY <1>5, <1>7, <1>8
<1>. QED BY <1>4, <1>5, <1>9, <1>10, <1>11 DEF Fits

\* The packet of a chunk that continues or begins a message fits it.
LEMMA HeaderFits ==
    ASSUME NEW m \in Sendings, NEW c, NEW n, IsChunk(c, m, n),
           NEW q \in Sendings \cup {NoPacket}, Begins(q, c.fmt, m),
           Agrees(now[c.csid], last[c.csid], q)
    PROVE  Fits(Header(c), m)
<1>1. c \in Chunks /\ c.fmt \in 0..3
  BY DEF IsChunk, Chunks
<1>2. CASE q # NoPacket /\ q.left > 0 /\ Fits(now[c.csid], q)
  <2>1. m = q
    <3>1. q.left # 0
      BY <1>2, SendingTypes
    <3>. QED BY <1>2, <3>1 DEF Begins
  <2>. QED BY <1>2, <2>1, HeaderAgain
<1>3. CASE q = NoPacket /\ now[c.csid] = NoPacket /\ last[c.csid] = NoPacket
  <2>1. c.fmt = 0 /\ m.left = m.len /\ m.ts = m.field
    BY <1>3 DEF Begins
  <2>2. PICK p : p = restore_context(c.csid)
    OBVIOUS
  <2>3. p = [is_abs_stamp |-> FALSE, msg_length |-> 0, msg_type_id |-> "none", ts_delta |-> 0,
             time_stamp |-> 0, got |-> 0]
    BY <1>3, <2>2 DEF restore_context
  <2>4. p \in Packets /\ p.got = 0
    BY <2>3 DEF Packets
  <2>5. PICK h : h = Header(c)
    OBVIOUS
  <2>6. /\ h \in Packets /\ h.is_abs_stamp = (p.is_abs_stamp \/ c.fmt = 0)
        /\ h.ts_delta = IF c.fmt < 3 THEN Smaller(c.stamp, Mark) ELSE p.ts_delta
        /\ h.msg_length = IF c.fmt < 2 THEN c.len ELSE p.msg_length
        /\ h.msg_type_id = IF c.fmt < 2 THEN c.kind ELSE p.msg_type_id
        /\ h.got = p.got
    BY <1>1, <2>2, <2>4, <2>5, HeaderFields
  <2>7. c.stamp = m.field /\ c.len = m.len /\ c.kind = m.kind
    BY <2>1 DEF IsChunk
  <2>8. m.len \in Nat /\ m.len - m.len = 0
    BY SendingTypes
  <2>9. h.is_abs_stamp = TRUE
    BY <2>1, <2>6
  <2>10. h.ts_delta = Smaller(m.field, Mark) /\ h.msg_length = m.len /\ h.msg_type_id = m.kind
    BY <2>1, <2>6, <2>7
  <2>11. h.got = m.len - m.left
    BY <2>1, <2>4, <2>6, <2>8
  <2>12. m.ts = IF h.is_abs_stamp THEN m.field ELSE (m.field + h.time_stamp) % TsMod
    BY <2>1, <2>9
  <2>. QED BY <2>5, <2>6, <2>10, <2>11, <2>12 DEF Fits
<1>4. CASE q # NoPacket /\ q.left = 0 /\ now[c.csid] = NoPacket /\ Remembers(last[c.csid], q)
  <2>1. /\ m.left = m.len /\ (c.fmt >= 2 => m.len = q.len /\ m.kind = q.kind)
        /\ (c.fmt = 3 => m.field = q.field)
        /\ m.ts = IF c.fmt = 0 THEN m.field ELSE (q.ts + m.field) % TsMod
    BY <1>4, SendingTypes DEF Begins
  <2>2. PICK l \in Packets : l = last[c.csid]
    BY <1>4 DEF Remembers
  <2>3. PICK p : p = restore_context(c.csid)
    OBVIOUS
  <2>4. p = [l EXCEPT !.is_abs_stamp = FALSE, !.got = 0]
    BY <1>4, <2>2, <2>3, NoPackets DEF restore_context
  <2>5. /\ p \in Packets /\ p.is_abs_stamp = FALSE /\ p.got = 0
        /\ p.msg_length = l.msg_length /\ p.msg_type_id = l.msg_type_id
        /\ p.ts_delta = l.ts_delta /\ p.time_stamp = l.time_stamp
    BY <2>4 DEF Packets
  <2>6. /\ l.msg_length = q.len /\ l.msg_type_id = q.kind /\ l.time_stamp = q.ts
        /\ l.ts_delta = Smaller(q.field, Mark)
    BY <1>4, <2>2 DEF Remembers
  <2>7. PICK h : h = Header(c)
    OBVIOUS
  <2>8. /\ h \in Packets /\ h.is_abs_stamp = (p.is_abs_stamp \/ c.fmt = 0)
        /\ h.ts_delta = IF c.fmt < 3 THEN Smaller(c.stamp, Mark) ELSE p.ts_delta
        /\ h.msg_length = IF c.fmt < 2 THEN c.len ELSE p.msg_length
        /\ h.msg_type_id = IF c.fmt < 2 THEN c.kind ELSE p.msg_type_id
        /\ h.time_stamp = p.time_stamp /\ h.got = p.got
    BY <1>1, <2>3, <2>5, <2>7, HeaderFields
  <2>9. /\ (c.fmt < 3 => c.stamp = m.field) /\ (c.fmt < 2 => c.len = m.len /\ c.kind = m.kind)
    BY DEF IsChunk
  <2>10. (c.fmt < 2 \/ c.fmt >= 2) /\ (c.fmt < 3 \/ c.fmt = 3)
    BY <1>1
  <2>11. h.msg_length = m.len /\ h.msg_type_id = m.kind
    BY <2>1, <2>5, <2>6, <2>8, <2>9, <2>10
  <2>12. h.ts_delta = Smaller(m.field, Mark)
    BY <2>1, <2>5, <2>6, <2>8, <2>9, <2>10
  <2>13. h.got = m.len - m.left
    <3>1. m.len \in Nat /\ m.len - m.len = 0
      BY SendingTypes
    <3>. QED BY <2>1, <2>5, <2>8, <3>1
  <2>14. m.ts = IF h.is_abs_stamp THEN m.field ELSE (m.field + h.time_stamp) % TsMod
    <3>1. q.ts \in Nat /\ m.field \in Nat
      BY <1>4, SendingTypes
    <3>2. q.ts + m.field = m.field + q.ts
      BY <3>1
    <3>. QED BY <2>1, <2>5, <2>6, <2>8, <3>2
  <2>. QED BY <2>7, <2>8, <2>11, <2>12, <2>13, <2>14 DEF Fits
<1>. QED BY <1>2, <1>3, <1>4 DEF Agrees

\* The parser sees the chunk as its sender does: where it ends, whether it
\* ends its message, and with which time stamp.
LEMMA ParserSees ==
    ASSUME NEW m \in Sendings, NEW c, NEW z \in Sizes, z = chunk_size_in_,
           IsChunk(c, m, Part(m, z)), NEW p, Fits(p, m)
    PROVE  /\ more(p) = c.n /\ c.n = Part(m, z) /\ Required(c, p) = WireLength(c)
           /\ (p.got + more(p) = p.msg_length <=> Ends(m, z))
           /\ TimeStamp(c, p) = m.ts
<1>1. /\ p.msg_length = m.len /\ p.msg_type_id = m.kind /\ p.got = m.len - m.left
      /\ p.ts_delta = Smaller(m.field, Mark)
      /\ m.ts = IF p.is_abs_stamp THEN m.field ELSE (m.field + p.time_stamp) % TsMod
  BY DEF Fits
<1>2. /\ m.len \in Nat /\ m.left \in Nat /\ m.left <= m.len /\ m.field \in Nat
  BY SendingTypes
<1>3. c \in Chunks /\ c.n = Part(m, z) /\ (c.ext <=> m.field >= Mark)
      /\ (m.field >= Mark => c.stamp = m.field)
  BY DEF IsChunk
<1>4. p.msg_length - p.got = m.left
  BY <1>1, <1>2
<1>5. more(p) = c.n
  BY <1>3, <1>4 DEF more, Part
<1>6. p.ts_delta = Mark <=> c.ext
  <2>1. Mark \in Nat
    BY ConstantsAssumption
  <2>2. Smaller(m.field, Mark) = Mark <=> m.field >= Mark
    BY <1>2, <2>1 DEF Smaller
  <2>. QED BY <1>1, <1>3, <2>2
<1>7. Required(c, p) = WireLength(c)
  <2>1. ExtendedEnd(c, p) = HeaderEnd(c) + (IF c.ext THEN kExtendedLength ELSE 0)
    BY <1>6 DEF ExtendedEnd
  <2>2. WireLength(c) = HeaderEnd(c) + (IF c.ext THEN kExtendedLength ELSE 0) + c.n
    BY <1>3, WireLemma
  <2>. QED BY <1>5, <2>1, <2>2 DEF Required
<1>8. p.got + more(p) = p.msg_length <=> Ends(m, z)
  <2>1. Part(m, z) \in Nat /\ (Ends(m, z) <=> Part(m, z) = m.left)
    BY LessLemma
  <2>2. (m.len - m.left) + Part(m, z) = m.len <=> Part(m, z) = m.left
    BY <1>2, <2>1
  <2>. QED BY <1>1, <1>3, <1>5, <2>1, <2>2
<1>9. TimeStamp(c, p) = m.ts
  <2>1. (IF p.ts_delta = Mark THEN c.stamp ELSE p.ts_delta) = m.field
    <3>1. CASE m.field >= Mark
      BY <1>3, <1>6, <3>1
    <3>2. CASE ~(m.field >= Mark)
      <4>1. Smaller(m.field, Mark) = m.field
        BY <1>2, <3>2, ConstantsAssumption DEF Smaller
      <4>. QED BY <1>1, <1>3, <1>6, <3>2, <4>1
    <3>. QED BY <3>1, <3>2
  <2>. QED BY <1>1, <2>1 DEF TimeStamp
<1>. QED BY <1>3, <1>5, <1>7, <1>8, <1>9

\* After the chunk, the parser's context is the sender's again.
LEMMA ParserFollows ==
    ASSUME NEW m \in Sendings, NEW c, NEW z \in Sizes, z = chunk_size_in_,
           IsChunk(c, m, Part(m, z)), NEW p, Fits(p, m)
    PROVE  /\ (Ends(m, z) => Agrees(NoPacket, Completed(c, p), Less(m, z)))
           /\ \A l : ~Ends(m, z) => Agrees([p EXCEPT !.got = @ + more(p)], l, Less(m, z))
<1>1. /\ p \in Packets /\ p.msg_length = m.len /\ p.msg_type_id = m.kind
      /\ p.got = m.len - m.left /\ p.ts_delta = Smaller(m.field, Mark)
      /\ m.ts = IF p.is_abs_stamp THEN m.field ELSE (m.field + p.time_stamp) % TsMod
  BY DEF Fits
<1>2. /\ more(p) = Part(m, z) /\ TimeStamp(c, p) = m.ts
  BY ParserSees
<1>3. /\ m.len \in Nat /\ m.left \in Nat /\ m.left <= m.len /\ m.ts \in Nat
  BY SendingTypes
<1>4. PICK r \in Sendings : r = Less(m, z)
  BY LessLemma
<1>5. /\ Part(m, z) \in Nat /\ Part(m, z) <= m.left /\ r.left = m.left - Part(m, z)
      /\ (Ends(m, z) <=> r.left = 0)
      /\ r.len = m.len /\ r.kind = m.kind /\ r.field = m.field /\ r.ts = m.ts
  BY <1>4, LessLemma
<1>6. r # NoPacket
  BY NoSending
<1>7. ASSUME Ends(m, z) PROVE Agrees(NoPacket, Completed(c, p), r)
  <2>1. PICK d : d = [p EXCEPT !.got = m.len, !.time_stamp = m.ts]
    OBVIOUS
  <2>2. d = Completed(c, p)
    BY <1>1, <1>2, <2>1 DEF Completed
  <2>3. /\ d \in Packets /\ d.msg_length = m.len /\ d.msg_type_id = m.kind
        /\ d.time_stamp = m.ts /\ d.ts_delta = p.ts_delta
    BY <1>1, <1>3, <2>1 DEF Packets
  <2>4. Remembers(d, r)
    BY <1>1, <1>5, <2>3 DEF Remembers
  <2>. QED BY <1>5, <1>6, <1>7, <2>2, <2>4 DEF Agrees
<1>8. ASSUME NEW l, ~Ends(m, z) PROVE Agrees([p EXCEPT !.got = @ + more(p)], l, r)
  <2>1. PICK k \in Nat : k = m.len - r.left
    BY <1>3, <1>5
  <2>2. PICK d : d = [p EXCEPT !.got = k]
    OBVIOUS
  <2>3. p.got + more(p) = k
    BY <1>1, <1>2, <1>3, <1>5, <2>1
  <2>4. d = [p EXCEPT !.got = @ + more(p)]
    BY <1>1, <2>2, <2>3 DEF Packets
  <2>5. /\ d \in Packets /\ d.msg_length = p.msg_length /\ d.msg_type_id = p.msg_type_id
        /\ d.got = k /\ d.ts_delta = p.ts_delta /\ d.time_stamp = p.time_stamp
        /\ d.is_abs_stamp = p.is_abs_stamp
    BY <1>1, <2>2 DEF Packets
  <2>6. Fits(d, r)
    BY <1>1, <1>5, <2>1, <2>5 DEF Fits
  <2>7. r.left > 0
    <3>1. r.left # 0 /\ r.left \in Nat
      BY <1>5, <1>8, SendingTypes
    <3>. QED BY <3>1
  <2>. QED BY <1>6, <2>4, <2>6, <2>7 DEF Agrees
<1>. QED BY <1>4, <1>7, <1>8

-----------------------------------------------------------------------------
(* The inductive invariant                                                 *)

\* The parser's contexts agree with x; the header of the first chunk on the
\* wire, of message f, may have been applied already.
InContext(x, f) ==
    \A c \in Csids :
        \/ Agrees(now[c], last[c], x[c])
        \/ wire # <<>> /\ c = Head(wire).csid /\ Fits(now[c], f)

\* send_rtmp has no message half sent between two calls.
Idle(y) == \A c \in Csids : y[c] = NoPacket \/ y[c].left = 0

\* The wire is a trace from the parser, at x, to the sender, at y.
Behind(x, y, f) ==
    /\ Traced(wire, owed, x, chunk_size_in_, y, chunk_size_out, f)
    /\ InContext(x, f)
    /\ (sender = "client" => y = peer)
    /\ (sender = "send_rtmp" => Idle(y))

\* Between two calls of on_recv less has arrived than the parser waits for.
Waiting ==
    pc = "read" =>
        CASE step = "C0C1" -> size < 1 + kC1HandshakeSize
          [] step = "C2" -> size < kC1HandshakeSize
          [] step = "split" -> wire # <<>> => size < WireLength(Head(wire))

Place ==
    /\ in_flight \in Nat /\ size \in Nat
    /\ step \in {"C0C1", "C2", "split"} /\ pc \in {"read", "parse", "closed"}
    /\ c2_sent \in BOOLEAN /\ sender \in {"client", "send_rtmp"}
    /\ now \in [Csids -> Packets \cup {NoPacket}] /\ last \in [Csids -> Packets \cup {NoPacket}]
    /\ Len(wire) <= MaxWire
    /\ InSync
    /\ (step = "C0C1" => ~c2_sent) /\ (step = "split" => c2_sent)
    /\ (~c2_sent => wire = <<>>)
    /\ Waiting

IInv == Place /\ \E x, y, f : Behind(x, y, f)

LEMMA InitInv == Init => IInv
<1>. SUFFICES ASSUME Init PROVE IInv
  OBVIOUS
<1>1. PICK x : x = [c \in Csids |-> NoPacket]
  OBVIOUS
<1>2. x \in Contexts /\ \A c \in Csids : x[c] = NoPacket
  BY <1>1 DEF Contexts
<1>3. kDefaultChunkLength \in Sizes
  BY DEF Sizes
<1>4. Traced(<<>>, <<>>, x, kDefaultChunkLength, x, kDefaultChunkLength, x)
  BY <1>2, <1>3, TracedEmpty
<1>5. Traced(wire, owed, x, chunk_size_in_, x, chunk_size_out, x)
  BY <1>4 DEF Init
<1>6. InContext(x, x) /\ Idle(x)
  BY <1>2 DEF Init, InContext, Idle, Agrees
<1>7. Behind(x, x, x)
  BY <1>1, <1>5, <1>6 DEF Behind, Init
<1>8. Place
  <2>1. Len(<<>>) = 0 /\ Bytes(<<>>) = 0
    BY BytesEmpty, EmptySeq
  <2>2. kC1HandshakeSize \in Nat \ {0} /\ MaxWire \in Nat
    BY ConstantsAssumption
  <2>3. InSync
    BY <2>1, <2>2 DEF Init, InSync, HandshakeBytes
  <2>4. Waiting
    BY <2>2 DEF Init, Waiting
  <2>5. in_flight \in Nat /\ Len(wire) <= MaxWire
    BY <2>1, <2>2 DEF Init
  <2>6. /\ now \in [Csids -> Packets \cup {NoPacket}] /\ last \in [Csids -> Packets \cup {NoPacket}]
    BY DEF Init
  <2>. QED BY <2>3, <2>4, <2>5, <2>6 DEF Init, Place
<1>. QED BY <1>7, <1>8 DEF IInv

\* The first byte of what is on the wire, before and after more is sent.
LEMMA HeadConcat ==
    ASSUME NEW w \in Seq(Chunks), NEW p \in Seq(Chunks), p # <<>>
    PROVE  /\ w \o p # <<>> /\ Len(w \o p) = Len(w) + Len(p)
           /\ Head(w \o p) = IF w = <<>> THEN Head(p) ELSE Head(w)
<1>1. Len(w) \in Nat /\ Len(p) \in Nat \ {0} /\ (w # <<>> => Len(w) \in Nat \ {0})
  BY LenProperties, EmptySeq
<1>2. PICK v : v = w \o p
  OBVIOUS
<1>3. /\ v \in Seq(Chunks) /\ Len(v) = Len(w) + Len(p)
      /\ \A i \in 1..(Len(w) + Len(p)) : v[i] = IF i <= Len(w) THEN w[i] ELSE p[i - Len(w)]
  BY <1>2, ConcatProperties
<1>4. Len(v) > 0 /\ v # <<>>
  BY <1>1, <1>3, EmptySeq
<1>5. Head(v) = v[1] /\ Head(p) = p[1] /\ (w # <<>> => Head(w) = w[1])
  BY <1>1, <1>3, <1>4
<1>6. v[1] = IF w = <<>> THEN p[1] ELSE w[1]
  <2>1. CASE w = <<>>
    <3>1. Len(w) = 0
      BY <2>1, EmptySeq
    <3>. QED BY <1>1, <1>3, <2>1, <3>1
  <2>2. CASE w # <<>>
    BY <1>1, <1>3, <2>2
  <2>. QED BY <2>1, <2>2
<1>. QED BY <1>2, <1>3, <1>4, <1>5, <1>6

\* Sending the chunks p, a trace from where the sender is.
LEMMA SendStep ==
    ASSUME Place, NEW x, NEW y, NEW f, Behind(x, y, f), c2_sent,
           NEW p, NEW r, NEW y2, NEW g, Traced(p, r, y, chunk_size_out, y2, chunk_size_out', g),
           p # <<>>, wire' = wire \o p, owed' = owed \o r, in_flight' = in_flight + Bytes(p),
           Len(wire) + Len(p) <= MaxWire,
           sender = "client" => y2 = peer', sender = "send_rtmp" => Idle(y2),
           UNCHANGED <<c2_sent, version, sender, parser>>
    PROVE  IInv'
<1>1. /\ wire \in Seq(Chunks) /\ p \in Seq(Chunks)
  BY TracedTypes DEF Behind
<1>2. /\ wire' # <<>> /\ Len(wire') = Len(wire) + Len(p)
      /\ Head(wire') = IF wire = <<>> THEN Head(p) ELSE Head(wire)
  BY <1>1, HeadConcat
<1>3. PICK f2 : f2 = IF wire = <<>> THEN g ELSE f
  OBVIOUS
<1>4. Traced(wire', owed', x, chunk_size_in_', y2, chunk_size_out', f2)
  <2>1. Traced(wire, owed, x, chunk_size_in_, y, chunk_size_out, f)
    BY DEF Behind
  <2>2. Traced(wire \o p, owed \o r, x, chunk_size_in_, y2, chunk_size_out', f2)
    BY <1>3, <2>1, TracedConcat
  <2>. QED BY <2>2 DEF parser
<1>5. InContext(x, f2)'
  <2>. SUFFICES ASSUME NEW c \in Csids
                PROVE  \/ Agrees(now[c], last[c], x[c])
                       \/ wire' # <<>> /\ c = Head(wire').csid /\ Fits(now[c], f2)
    BY DEF InContext, parser
  <2>. QED BY <1>2, <1>3 DEF Behind, InContext
<1>6. Behind(x, y2, f2)'
  BY <1>4, <1>5 DEF Behind, Idle
<1>7. Bytes(wire') = Bytes(wire) + Bytes(p) /\ Bytes(wire) \in Nat /\ Bytes(p) \in Nat
  BY <1>1, BytesConcat, BytesSums
<1>8. HandshakeBytes' = HandshakeBytes /\ HandshakeBytes \in Nat
  <2>1. kC1HandshakeSize \in Nat
    BY ConstantsAssumption
  <2>. QED BY <2>1 DEF HandshakeBytes, parser
<1>9. InSync'
  <2>1. size' = size
    BY DEF parser
  <2>2. size + in_flight = HandshakeBytes + Bytes(wire) /\ size \in Nat /\ in_flight \in Nat
    BY DEF Place, InSync
  <2>3. in_flight' = in_flight + Bytes(p)
    OBVIOUS
  <2>4. size' + in_flight' = HandshakeBytes' + Bytes(wire')
    <3>. PICK b \in Nat : b = Bytes(wire)
      BY <1>7
    <3>. PICK q \in Nat : q = Bytes(p)
      BY <1>7
    <3>. PICK h \in Nat : h = HandshakeBytes
      BY <1>8
    <3>1. /\ size + in_flight = h + b /\ size \in Nat /\ in_flight \in Nat
          /\ b \in Nat /\ q \in Nat /\ h \in Nat
      BY <2>2
    <3>2. in_flight' = in_flight + q /\ Bytes(wire') = b + q /\ HandshakeBytes' = h
      BY <1>7, <1>8, <2>3
    <3>3. size + (in_flight + q) = h + (b + q)
      BY ONLY <3>1
    <3>. QED BY <2>1, <3>2, <3>3
  <2>. QED BY <2>4 DEF InSync
<1>10. Waiting'
  <2>1. CASE step = "split" /\ pc = "read"
    <3>1. CASE wire = <<>>
      <4>1. HandshakeBytes = 0
        BY <2>1 DEF HandshakeBytes
      <4>2. size = 0
        BY <3>1, <4>1, BytesEmpty DEF Place, InSync
      <4>3. Head(p) \in Chunks
        BY <1>1, HeadTailProperties
      <4>4. WireLength(Head(p)) > 0
        BY <4>3, WireLemma
      <4>. QED BY <1>2, <2>1, <3>1, <4>2, <4>4 DEF Waiting, parser
    <3>2. CASE wire # <<>>
      BY <1>2, <2>1, <3>2 DEF Place, Waiting, parser
    <3>. QED BY <3>1, <3>2
  <2>2. CASE ~(step = "split" /\ pc = "read")
    BY <2>2 DEF Place, Waiting, parser
  <2>. QED BY <2>1, <2>2
<1>11. Place'
  BY <1>2, <1>7, <1>9, <1>10 DEF Place, parser
<1>. QED BY <1>6, <1>11 DEF IInv

\* What a peer does is to send a chunk of a message it goes on with or begins.
LEMMA PeerChunk ==
    ASSUME Peer, peer \in Contexts
    PROVE  \E m \in Sendings, fmt \in 0..3 : Begins(peer[m.csid], fmt, m) /\ SendChunk(m, fmt)
<1>1. ASSUME NEW c \in Csids, ContinueMessage(c)
      PROVE  \E m \in Sendings, fmt \in 0..3 : Begins(peer[m.csid], fmt, m) /\ SendChunk(m, fmt)
  <2>1. PICK m : m = peer[c]
    OBVIOUS
  <2>2. m # NoPacket /\ m.left > 0 /\ SendChunk(m, 3)
    BY <1>1, <2>1 DEF ContinueMessage
  <2>3. m \in Sendings /\ m.csid = c
    BY <2>1, <2>2 DEF Contexts
  <2>4. Begins(peer[m.csid], 3, m)
    BY <2>1, <2>2, <2>3 DEF Begins
  <2>5. 3 \in 0..3
    OBVIOUS
  <2>. QED BY <2>2, <2>3, <2>4, <2>5
<1>2. ASSUME NEW c \in Csids, NEW fmt \in 0..3, NEW b \in Bodies, NEW stamp \in Stamps,
             StartMessage(c, fmt, b[1], b[2], stamp, b[3])
      PROVE  \E m \in Sendings, n \in 0..3 : Begins(peer[m.csid], n, m) /\ SendChunk(m, n)
  <2>1. PICK old : old = peer[c]
    OBVIOUS
  <2>2. PICK len : len = b[1]
    OBVIOUS
  <2>3. PICK kind : kind = b[2]
    OBVIOUS
  <2>4. PICK value : value = b[3]
    OBVIOUS
  <2>5. PICK field : field = IF fmt = 3 THEN old.field ELSE stamp
    OBVIOUS
  <2>6. PICK ts : ts = IF fmt = 0 THEN stamp ELSE (old.ts + field) % TsMod
    OBVIOUS
  <2>7. PICK m : m = [csid |-> c, len |-> len, kind |-> kind, field |-> field, left |-> len,
                      value |-> value, ts |-> ts]
    OBVIOUS
  <2>8. /\ IF old = NoPacket THEN fmt = 0 ELSE old.left = 0
        /\ (fmt >= 2 => len = old.len /\ kind = old.kind)
        /\ (fmt = 3 => stamp = old.field)
        /\ SendChunk(m, fmt)
    BY <1>2, <2>1, <2>2, <2>3, <2>4, <2>5, <2>6, <2>7 DEF StartMessage
  <2>9. /\ len \in Lens \cup {ControlLen} /\ kind \in Kinds /\ value \in ChunkSizes \cup {0}
        /\ (kind = "set_chunk" => value \in ChunkSizes /\ len > 0)
    <3>1. ControlLen > 0
      BY ConstantsAssumption
    <3>. QED BY <2>2, <2>3, <2>4, <3>1 DEF Bodies, Kinds
  <2>10. len \in Nat
    BY <2>9, ConstantsAssumption
  <2>11. field = stamp
    BY <2>5, <2>8
  <2>12. ts \in Stamps
    <3>1. CASE fmt = 0
      BY <2>6, <3>1
    <3>2. CASE fmt # 0
      <4>1. old \in Sendings
        BY <2>1, <2>8, <3>2 DEF Contexts
      <4>2. old.ts \in Nat /\ field \in Nat /\ TsMod \in Nat \ {0}
        BY <2>11, <4>1, SendingTypes, ConstantsAssumption DEF Stamps
      <4>3. \A a, t \in Nat : t # 0 => a % t \in 0..(t - 1)
        OBVIOUS
      <4>4. old.ts + field \in Nat
        BY <4>2
      <4>. QED BY <2>6, <3>2, <4>2, <4>3, <4>4 DEF Stamps
    <3>. QED BY <3>1, <3>2
  <2>13. m \in Sendings
    BY <2>7, <2>9, <2>10, <2>11, <2>12 DEF Sendings
  <2>14. m.csid = c /\ m.left = m.len /\ m.len = len /\ m.kind = kind /\ m.field = field /\ m.ts = ts
    BY <2>7
  <2>15. Begins(old, fmt, m)
    BY <2>6, <2>8, <2>11, <2>14 DEF Begins
  <2>. QED BY <2>1, <2>8, <2>13, <2>14, <2>15
<1>. QED BY <1>1, <1>2 DEF Peer

LEMMA PeerInv ==
    ASSUME IInv, c2_sent, sender = "client", Peer
    PROVE  IInv'
<1>1. PICK x, y, f : Behind(x, y, f)
  BY DEF IInv
<1>2. y = peer /\ y \in Contexts /\ chunk_size_out \in Sizes /\ owed \in Seq(Messages)
      /\ wire \in Seq(Chunks)
  BY <1>1, TracedTypes DEF Behind
<1>3. PICK m \in Sendings, fmt \in 0..3 : Begins(peer[m.csid], fmt, m) /\ SendChunk(m, fmt)
  BY <1>2, PeerChunk
<1>4. PICK z \in Sizes : z = chunk_size_out
  BY <1>2
<1>5. PICK h : h = Chunk(m, fmt, Part(m, z))
  OBVIOUS
<1>6. /\ wire' = Append(wire, h) /\ in_flight' = in_flight + WireLength(h)
      /\ peer' = [peer EXCEPT ![m.csid] = Less(m, z)]
      /\ Len(wire) < MaxWire
      /\ UNCHANGED <<c2_sent, version, sender, parser>>
  BY <1>3, <1>4, <1>5 DEF SendChunk, Less, Part
<1>7. /\ owed' = IF Whole(m, z) THEN Append(owed, Message(m)) ELSE owed
      /\ chunk_size_out' = IF Ends(m, z) /\ m.kind = "set_chunk" THEN m.value ELSE z
  <2>1. Ends(m, z) <=> Less(m, z).left = 0
    BY LessLemma
  <2>. QED BY <1>3, <1>4, <2>1 DEF SendChunk, Less, Part, Whole
<1>8. IsChunk(h, m, Part(m, z)) /\ h.fmt = fmt
  BY <1>5, SendingTypes, LessLemma, ChunkLemma
<1>9. Link(h, m, y, z, peer', chunk_size_out')
  BY <1>2, <1>3, <1>6, <1>7, <1>8 DEF Link
<1>10. PICK r : r = IF Whole(m, z) THEN <<Message(m)>> ELSE <<>>
  OBVIOUS
<1>11. Traced(<<h>>, r, y, z, peer', chunk_size_out', m)
  BY <1>2, <1>9, <1>10, TracedOne
<1>12. h \in Chunks
  BY <1>8 DEF IsChunk
<1>13. wire' = wire \o <<h>>
  BY <1>2, <1>6, <1>12, AppendIsConcat
<1>14. owed' = owed \o r
  <2>1. Message(m) \in Messages
    BY SendingTypes
  <2>2. CASE Whole(m, z)
    BY <1>2, <1>7, <1>10, <2>1, <2>2, AppendIsConcat
  <2>3. CASE ~Whole(m, z)
    BY <1>2, <1>7, <1>10, <2>3, ConcatEmptySeq
  <2>. QED BY <2>2, <2>3
<1>15. Bytes(<<h>>) = WireLength(h) /\ Len(<<h>>) = 1 /\ <<h>> # <<>>
  <2>1. PICK w : w = <<h>>
    OBVIOUS
  <2>2. w \in Seq(Chunks) /\ w # <<>> /\ Head(w) = h /\ Tail(w) = <<>> /\ Len(w) = 1
    BY <1>12, <2>1
  <2>3. Bytes(<<>>) = Bytes(w) - WireLength(h)
    BY <2>2, BytesTail
  <2>4. Bytes(w) \in Nat /\ WireLength(h) \in Nat
    BY <1>12, <2>2, BytesSums, WireLemma
  <2>. QED BY <2>1, <2>2, <2>3, <2>4, BytesEmpty
<1>16. Len(wire) + Len(<<h>>) <= MaxWire
  <2>1. Len(wire) \in Nat /\ MaxWire \in Nat
    BY <1>2, LenProperties, ConstantsAssumption
  <2>. QED BY <1>6, <1>15, <2>1
<1>. QED
  <2>1. PICK p : p = <<h>>
    OBVIOUS
  <2>2. /\ Traced(p, r, y, chunk_size_out, peer', chunk_size_out', m) /\ p # <<>>
        /\ wire' = wire \o p /\ in_flight' = in_flight + Bytes(p) /\ Len(wire) + Len(p) <= MaxWire
    BY <1>4, <1>6, <1>11, <1>13, <1>15, <1>16, <2>1
  <2>3. sender # "send_rtmp"
    OBVIOUS
  <2>4. Place
    BY DEF IInv
  <2>. QED BY <1>1, <1>6, <1>14, <2>2, <2>3, <2>4, SendStep

\* A call of send_rtmp, with the chunk size that holds afterwards.
LEMMA WriterCall ==
    ASSUME IInv, c2_sent, sender = "send_rtmp",
           NEW c \in Csids, NEW len \in Lens \cup {ControlLen}, NEW kind \in Kinds,
           NEW stamp \in Stamps, NEW value \in ChunkSizes \cup {0},
           kind = "set_chunk" => value \in ChunkSizes,
           send_rtmp(c, len, kind, stamp, value),
           chunk_size_out' = IF kind = "set_chunk" THEN value ELSE chunk_size_out
    PROVE  IInv'
<1>1. PICK x, y, f : Behind(x, y, f)
  BY DEF IInv
<1>2. y \in Contexts /\ chunk_size_out \in Sizes /\ owed \in Seq(Messages) /\ Idle(y)
  BY <1>1, TracedTypes DEF Behind
<1>3. PICK m : m = [csid |-> c, len |-> len, kind |-> kind, field |-> stamp, ts |-> stamp,
                    value |-> value]
  OBVIOUS
<1>4. /\ len > 0 /\ Len(wire) + Len(Pieces(m)) <= MaxWire
      /\ wire' = wire \o Pieces(m) /\ in_flight' = in_flight + Bytes(Pieces(m))
      /\ owed' = Append(owed, Message(m))
      /\ UNCHANGED <<c2_sent, version, sender, parser, peer>>
  BY <1>3 DEF send_rtmp
<1>5. m \in Writings /\ m.csid = c /\ m.kind = kind /\ m.value = value
  BY <1>3, <1>4 DEF Writings
<1>6. PICK z \in Sizes : z = chunk_size_out
  BY <1>2
<1>7. y[m.csid] = NoPacket \/ y[m.csid].left = 0
  BY <1>2, <1>5 DEF Idle
<1>8. PICK y2, g :
        /\ Traced(Pieces(m), <<Message(m)>>, y, z, y2, IF m.kind = "set_chunk" THEN m.value ELSE z, g)
        /\ y2[m.csid].left = 0
        /\ \A d \in Csids : d # m.csid => y2[d] = y[d]
  BY <1>2, <1>5, <1>6, <1>7, PiecesTraced
<1>9. Idle(y2)
  BY <1>2, <1>8 DEF Idle
<1>10. Message(m) \in Messages
  BY <1>5 DEF Message, Messages, Writings
<1>11. PICK p : p = Pieces(m)
  OBVIOUS
<1>12. PICK r : r = <<Message(m)>>
  OBVIOUS
<1>13. owed' = owed \o r
  BY <1>2, <1>4, <1>10, <1>12, AppendIsConcat
<1>14. Traced(p, r, y, chunk_size_out, y2, chunk_size_out', g)
  BY <1>5, <1>6, <1>8, <1>11, <1>12
<1>15. p # <<>>
  BY <1>12, <1>14, TracedNothing
<1>16. /\ wire' = wire \o p /\ in_flight' = in_flight + Bytes(p) /\ Len(wire) + Len(p) <= MaxWire
       /\ UNCHANGED <<c2_sent, version, sender, parser>>
  BY <1>4, <1>11
<1>17. sender # "client" /\ Place
  BY DEF IInv
<1>. QED BY <1>1, <1>9, <1>13, <1>14, <1>15, <1>16, <1>17, SendStep

LEMMA WriterInv ==
    ASSUME IInv, c2_sent, sender = "send_rtmp", Writer
    PROVE  IInv'
<1>1. "media" \in Kinds /\ "set_chunk" \in Kinds /\ "media" # "set_chunk"
  BY DEF Kinds
<1>2. ASSUME NEW c \in Csids, NEW len \in Lens, NEW stamp \in Stamps,
             send_rtmp(c, len, "media", stamp, 0) /\ UNCHANGED chunk_size_out
      PROVE  IInv'
  BY <1>1, <1>2, WriterCall
<1>3. ASSUME NEW c \in Csids, NEW v \in ChunkSizes, set_chunk_size(c, v)
      PROVE  IInv'
  <2>1. send_rtmp(c, ControlLen, "set_chunk", 0, v) /\ chunk_size_out' = v
    BY <1>3 DEF set_chunk_size
  <2>2. 0 \in Stamps
    BY ConstantsAssumption DEF Stamps
  <2>. QED BY <1>1, <2>1, <2>2, WriterCall
<1>. QED BY <1>2, <1>3 DEF Writer

-----------------------------------------------------------------------------
(* The parser's steps                                                      *)

\* Steps that leave the wire and the parser's contexts alone.
LEMMA StayBehind ==
    ASSUME NEW x, NEW y, NEW f, Behind(x, y, f),
           UNCHANGED <<wire, owed, now, last, chunk_size_in_, peer, chunk_size_out, sender>>
    PROVE  Behind(x, y, f)'
<1>1. Traced(wire, owed, x, chunk_size_in_, y, chunk_size_out, f)'
  BY DEF Behind
<1>2. InContext(x, f)'
  BY DEF Behind, InContext
<1>. QED BY <1>1, <1>2 DEF Behind, Idle

\* Where the parser is in the stream, while nothing is sent or consumed.
LEMMA InvTypes ==
    ASSUME IInv
    PROVE  /\ wire \in Seq(Chunks) /\ Bytes(wire) \in Nat /\ owed \in Seq(Messages)
           /\ kC1HandshakeSize \in Nat /\ kC1HandshakeSize > 0
           /\ (wire = <<>> => Bytes(wire) = 0 /\ owed = <<>>)
           /\ (wire # <<>> => WireLength(Head(wire)) <= Bytes(wire))
<1>1. PICK x, y, f : Behind(x, y, f)
  BY DEF IInv
<1>2. wire \in Seq(Chunks) /\ owed \in Seq(Messages)
  BY <1>1, TracedTypes DEF Behind
<1>3. wire = <<>> => owed = <<>>
  BY <1>1, TracedNothing DEF Behind
<1>4. kC1HandshakeSize \in Nat /\ kC1HandshakeSize > 0
  BY ConstantsAssumption
<1>. QED BY <1>2, <1>3, <1>4, BytesSums, BytesEmpty, BytesTail

LEMMA SendC2Inv == ASSUME IInv, SendC2 PROVE IInv'
<1>1. \E x, y, f : Behind(x, y, f)'
  BY StayBehind DEF IInv, SendC2, parser
<1>2. /\ step' = step /\ pc' = pc /\ size' = size /\ wire' = wire /\ c2_sent' = TRUE
      /\ step = "C2" /\ c2_sent = FALSE /\ in_flight' = in_flight + kC1HandshakeSize
      /\ sender' = sender /\ now' = now /\ last' = last
  BY DEF SendC2, parser, IInv, Place
<1>3. Bytes(wire) \in Nat /\ kC1HandshakeSize \in Nat
  BY InvTypes
<1>4. size + in_flight = Bytes(wire) /\ size \in Nat /\ in_flight \in Nat
  <2>1. HandshakeBytes = 0
    BY <1>2 DEF HandshakeBytes
  <2>. QED BY <1>3, <2>1 DEF IInv, Place, InSync
<1>5. HandshakeBytes' = kC1HandshakeSize
  BY <1>2, <1>3 DEF HandshakeBytes
<1>6. Bytes(wire)' = Bytes(wire)
  BY <1>2
<1>7. InSync'
  BY <1>2, <1>3, <1>4, <1>5, <1>6 DEF InSync
<1>8. Waiting'
  BY <1>2 DEF IInv, Place, Waiting
<1>9. Place'
  BY <1>2, <1>3, <1>4, <1>7, <1>8 DEF IInv, Place
<1>. QED BY <1>1, <1>9 DEF IInv

LEMMA ArriveInv == ASSUME IInv, NEW n \in 1..in_flight, Arrive(n) PROVE IInv'
<1>1. \E x, y, f : Behind(x, y, f)'
  BY StayBehind DEF IInv, Arrive
<1>2. /\ step' = step /\ pc' = "parse" /\ size' = size + n /\ wire' = wire /\ c2_sent' = c2_sent
      /\ in_flight' = in_flight - n /\ sender' = sender /\ now' = now /\ last' = last
  BY DEF Arrive
<1>3. size \in Nat /\ in_flight \in Nat
  BY DEF IInv, Place
<1>4. size' \in Nat /\ in_flight' \in Nat /\ size' + in_flight' = size + in_flight
  BY <1>2, <1>3
<1>5. HandshakeBytes' = HandshakeBytes /\ Bytes(wire)' = Bytes(wire)
  BY <1>2 DEF HandshakeBytes
<1>6. InSync'
  BY <1>4, <1>5 DEF IInv, Place, InSync
<1>7. Waiting'
  BY <1>2 DEF Waiting
<1>8. Place'
  BY <1>2, <1>4, <1>6, <1>7 DEF IInv, Place
<1>. QED BY <1>1, <1>8 DEF IInv

LEMMA C0C1Inv == ASSUME IInv, handle_C0C1 PROVE IInv'
<1>1. \E x, y, f : Behind(x, y, f)'
  BY StayBehind DEF IInv, handle_C0C1
<1>2. PICK k \in Nat : k = kC1HandshakeSize /\ k > 0
  BY InvTypes
<1>3. /\ step = "C0C1" /\ ~c2_sent /\ wire = <<>> /\ Bytes(wire) = 0 /\ size \in Nat /\ in_flight \in Nat
  BY InvTypes DEF IInv, Place, handle_C0C1
<1>4. size + in_flight = 1 + k
  <2>1. HandshakeBytes = 1 + k
    BY <1>2, <1>3 DEF HandshakeBytes
  <2>. QED BY <1>2, <1>3, <2>1 DEF IInv, Place, InSync
<1>5. wire' = wire /\ in_flight' = in_flight /\ c2_sent' = c2_sent /\ sender' = sender
      /\ Bytes(wire)' = 0 /\ now' = now /\ last' = last
  BY <1>3 DEF handle_C0C1
<1>6. CASE size >= 1 + k /\ version = 3
  <2>1. size' = size - (1 + k) /\ step' = "C2" /\ pc' = "read"
    BY <1>2, <1>6 DEF handle_C0C1
  <2>2. size' = 0 /\ in_flight = 0
    BY <1>2, <1>3, <1>4, <1>6, <2>1
  <2>3. HandshakeBytes' = 0
    BY <1>3, <1>5, <2>1 DEF HandshakeBytes
  <2>4. InSync' /\ Waiting'
    BY <1>2, <1>5, <2>1, <2>2, <2>3 DEF InSync, Waiting
  <2>5. Place'
    BY <1>3, <1>5, <2>1, <2>2, <2>4 DEF IInv, Place
  <2>. QED BY <1>1, <2>5 DEF IInv
<1>7. CASE ~(size >= 1 + k /\ version = 3)
  <2>1. size' = size /\ step' = "C0C1" /\ pc' \in {"read", "closed"}
        /\ (pc' = "read" => ~(size >= 1 + k))
    BY <1>2, <1>3, <1>7 DEF handle_C0C1
  <2>2. HandshakeBytes' = 1 + k
    BY <1>2, <1>3, <1>5, <2>1 DEF HandshakeBytes
  <2>3. InSync'
    BY <1>2, <1>4, <1>5, <2>1, <2>2 DEF InSync
  <2>4. Waiting'
    BY <1>2, <1>3, <2>1 DEF Waiting
  <2>5. Place'
    BY <1>3, <1>5, <2>1, <2>3, <2>4 DEF IInv, Place
  <2>. QED BY <1>1, <2>5 DEF IInv
<1>. QED BY <1>6, <1>7

LEMMA C2Inv == ASSUME IInv, handle_C2 PROVE IInv'
<1>1. \E x, y, f : Behind(x, y, f)'
  BY StayBehind DEF IInv, handle_C2
<1>2. PICK k \in Nat : k = kC1HandshakeSize /\ k > 0
  BY InvTypes
<1>3. /\ step = "C2" /\ size \in Nat /\ in_flight \in Nat /\ Bytes(wire) \in Nat
      /\ c2_sent \in BOOLEAN /\ (~c2_sent => wire = <<>> /\ Bytes(wire) = 0)
  BY InvTypes DEF IInv, Place, handle_C2
<1>4. size + in_flight = (IF c2_sent THEN k ELSE 0) + Bytes(wire)
  <2>1. HandshakeBytes = IF c2_sent THEN k ELSE 0
    BY <1>2, <1>3 DEF HandshakeBytes
  <2>. QED BY <2>1 DEF IInv, Place, InSync
<1>5. wire' = wire /\ in_flight' = in_flight /\ c2_sent' = c2_sent /\ sender' = sender
      /\ Bytes(wire)' = Bytes(wire) /\ now' = now /\ last' = last
  BY DEF handle_C2
<1>6. CASE size >= k
  <2>1. size' = size - k /\ step' = "split" /\ pc' = "parse"
    BY <1>2, <1>6 DEF handle_C2
  <2>2. c2_sent
    BY <1>2, <1>3, <1>4, <1>6
  <2>3. size' \in Nat /\ size' + in_flight = Bytes(wire)
    BY <1>2, <1>3, <1>4, <1>6, <2>1, <2>2
  <2>4. HandshakeBytes' = 0
    BY <2>1 DEF HandshakeBytes
  <2>5. InSync' /\ Waiting'
    BY <1>3, <1>5, <2>1, <2>3, <2>4 DEF InSync, Waiting
  <2>6. Place'
    BY <1>3, <1>5, <2>1, <2>2, <2>3, <2>5 DEF IInv, Place
  <2>. QED BY <1>1, <2>6 DEF IInv
<1>7. CASE ~(size >= k)
  <2>1. size' = size /\ step' = "C2" /\ pc' = "read"
    BY <1>2, <1>3, <1>7 DEF handle_C2
  <2>2. HandshakeBytes' = HandshakeBytes
    BY <1>3, <1>5, <2>1 DEF HandshakeBytes
  <2>3. InSync'
    BY <1>5, <2>1, <2>2 DEF IInv, Place, InSync
  <2>4. Waiting'
    BY <1>2, <1>3, <1>7, <2>1 DEF Waiting
  <2>5. Place'
    BY <1>3, <1>5, <2>1, <2>3, <2>4 DEF IInv, Place
  <2>. QED BY <1>1, <2>5 DEF IInv
<1>. QED BY <1>6, <1>7

\* The first chunk on the wire and the packet its header makes.
LEMMA AtHead ==
    ASSUME NEW x, NEW y, NEW f, Behind(x, y, f), wire # <<>>
    PROVE  /\ f \in Sendings /\ chunk_size_in_ \in Sizes /\ f.csid \in Csids
           /\ Head(wire) \in Chunks /\ Head(wire).csid = f.csid
           /\ IsChunk(Head(wire), f, Part(f, chunk_size_in_))
           /\ Begins(x[f.csid], Head(wire).fmt, f)
           /\ Fits(Header(Head(wire)), f)
<1>1. Traced(wire, owed, x, chunk_size_in_, y, chunk_size_out, f) /\ InContext(x, f)
  BY DEF Behind
<1>2. f \in Sendings /\ chunk_size_in_ \in Sizes /\ x \in Contexts
  BY <1>1, TracedTypes
<1>3. f.csid \in Csids
  BY <1>2, SendingTypes
<1>4. PICK c : c = Head(wire)
  OBVIOUS
<1>5. \E x1, z1 : Link(c, f, x, chunk_size_in_, x1, z1)
  BY <1>1, <1>4, TracedTail
<1>6. /\ IsChunk(c, f, Part(f, chunk_size_in_)) /\ Begins(x[f.csid], c.fmt, f)
  BY <1>5 DEF Link
<1>7. c \in Chunks /\ c.csid = f.csid
  BY <1>6 DEF IsChunk
<1>8. x[f.csid] \in Sendings \cup {NoPacket}
  BY <1>2, <1>3 DEF Contexts
<1>9. Fits(Header(c), f)
  <2>1. Agrees(now[c.csid], last[c.csid], x[c.csid]) \/ Fits(now[c.csid], f)
    BY <1>1, <1>3, <1>7 DEF InContext
  <2>2. CASE Agrees(now[c.csid], last[c.csid], x[c.csid])
    BY <1>2, <1>6, <1>7, <1>8, <2>2, HeaderFits
  <2>3. CASE Fits(now[c.csid], f)
    BY <1>2, <1>6, <2>3, HeaderAgain
  <2>. QED BY <2>1, <2>2, <2>3
<1>. QED BY <1>2, <1>3, <1>4, <1>6, <1>7, <1>9

LEMMA NeedHeaderInv == ASSUME IInv, NeedHeader PROVE IInv'
<1>1. PICK x, y, f : Behind(x, y, f)
  BY DEF IInv
<1>2. Behind(x, y, f)'
  BY <1>1, StayBehind DEF NeedHeader
<1>3. /\ step = "split" /\ step' = "split" /\ pc' = "read" /\ size' = size /\ wire' = wire
      /\ c2_sent' = c2_sent /\ in_flight' = in_flight /\ sender' = sender
      /\ now' = now /\ last' = last
  BY DEF NeedHeader
<1>4. HandshakeBytes' = HandshakeBytes /\ Bytes(wire)' = Bytes(wire)
  BY <1>3 DEF HandshakeBytes
<1>5. InSync'
  BY <1>3, <1>4 DEF IInv, Place, InSync
<1>6. Waiting'
  <2>1. wire # <<>> => size < WireLength(Head(wire))
    <3>. SUFFICES ASSUME wire # <<>> PROVE size < WireLength(Head(wire))
      OBVIOUS
    <3>1. ~(size >= HeaderEnd(Head(wire))) /\ size \in Nat
      BY DEF NeedHeader, HeaderHere, IInv, Place
    <3>2. /\ HeaderEnd(Head(wire)) \in Nat /\ WireLength(Head(wire)) \in Nat
          /\ HeaderEnd(Head(wire)) <= WireLength(Head(wire))
      BY <1>1, AtHead, WireLemma
    <3>. QED BY <3>1, <3>2
  <2>. QED BY <1>3, <2>1 DEF Waiting
<1>7. Place'
  BY <1>3, <1>5, <1>6 DEF IInv, Place
<1>. QED BY <1>2, <1>7 DEF IInv

LEMMA NeedBodyInv == ASSUME IInv, NeedBody PROVE IInv'
<1>1. PICK x, y, f : Behind(x, y, f)
  BY DEF IInv
<1>2. PICK c : c = Head(wire)
  OBVIOUS
<1>3. /\ step = "split" /\ step' = "split" /\ pc' = "read" /\ size' = size /\ wire' = wire
      /\ c2_sent' = c2_sent /\ in_flight' = in_flight /\ sender' = sender
      /\ UNCHANGED <<owed, last, chunk_size_in_, peer, chunk_size_out>>
      /\ now' = [now EXCEPT ![c.csid] = Header(c)]
      /\ wire # <<>> /\ ~(size >= Required(c, Header(c)))
  BY <1>2 DEF NeedBody, HeaderHere, ChunkHere
<1>4. /\ f \in Sendings /\ chunk_size_in_ \in Sizes /\ f.csid \in Csids
      /\ c \in Chunks /\ c.csid = f.csid /\ IsChunk(c, f, Part(f, chunk_size_in_))
      /\ Fits(Header(c), f)
  BY <1>1, <1>2, <1>3, AtHead
<1>5. now \in [Csids -> Packets \cup {NoPacket}]
  BY DEF IInv, Place
<1>6. InContext(x, f)'
  <2>1. now'[c.csid] = Header(c) /\ \A d \in Csids : d # c.csid => now'[d] = now[d]
    BY <1>3, <1>4, <1>5
  <2>. SUFFICES ASSUME NEW d \in Csids
                PROVE  \/ Agrees(now'[d], last[d], x[d])
                       \/ wire # <<>> /\ d = c.csid /\ Fits(now'[d], f)
    BY <1>2, <1>3 DEF InContext
  <2>2. CASE d = c.csid
    BY <1>3, <1>4, <2>1, <2>2
  <2>3. CASE d # c.csid
    BY <1>1, <1>2, <2>1, <2>3 DEF Behind, InContext
  <2>. QED BY <2>2, <2>3
<1>7. Behind(x, y, f)'
  BY <1>1, <1>3, <1>6 DEF Behind, Idle
<1>8. HandshakeBytes' = HandshakeBytes /\ Bytes(wire)' = Bytes(wire)
  BY <1>3 DEF HandshakeBytes
<1>9. InSync'
  BY <1>3, <1>8 DEF IInv, Place, InSync
<1>10. Waiting'
  <2>1. Required(c, Header(c)) = WireLength(c)
    BY <1>4, ParserSees
  <2>2. WireLength(c) \in Nat /\ size \in Nat
    BY <1>4, WireLemma DEF IInv, Place
  <2>3. size < WireLength(c)
    BY <1>3, <2>1, <2>2
  <2>. QED BY <1>2, <1>3, <2>3 DEF Waiting
<1>11. Place'
  <2>1. now' \in [Csids -> Packets \cup {NoPacket}]
    BY <1>3, <1>4, <1>5 DEF Fits
  <2>. QED BY <1>3, <1>9, <1>10, <2>1 DEF IInv, Place
<1>. QED BY <1>7, <1>11 DEF IInv

LEMMA ThrowsInv == ASSUME IInv, HandlerThrows PROVE IInv'
<1>1. \E x, y, f : Behind(x, y, f)'
  BY StayBehind DEF IInv, HandlerThrows
<1>2. /\ step' = step /\ pc' = "closed" /\ size' = size /\ wire' = wire
      /\ c2_sent' = c2_sent /\ in_flight' = in_flight /\ sender' = sender
      /\ now' = now /\ last' = last
  BY DEF HandlerThrows
<1>3. HandshakeBytes' = HandshakeBytes /\ Bytes(wire)' = Bytes(wire)
  BY <1>2 DEF HandshakeBytes
<1>4. InSync' /\ Waiting'
  BY <1>2, <1>3 DEF IInv, Place, InSync, Waiting
<1>5. Place'
  BY <1>2, <1>4 DEF IInv, Place, HandlerThrows
<1>. QED BY <1>1, <1>5 DEF IInv

\* A chunk is consumed, and the parser's contexts become the sender's after it.
LEMMA SplitInv ==
    ASSUME Place, NEW x, NEW y, NEW f \in Sendings, Behind(x, y, f), wire # <<>>, wire \in Seq(Chunks),
           step = "split", pc = "parse",
           NEW c \in Chunks, c = Head(wire), c.csid = f.csid, size >= WireLength(c),
           NEW x1, NEW z1, NEW g, NEW o,
           Traced(Tail(wire), o, x1, z1, y, chunk_size_out, g),
           \A d \in Csids : d # f.csid => x1[d] = x[d],
           size' = size - WireLength(c), wire' = Tail(wire), in_flight' = in_flight,
           c2_sent' = c2_sent, sender' = sender, step' = step, pc' = pc, peer' = peer,
           chunk_size_out' = chunk_size_out, chunk_size_in_' = z1, owed' = o,
           last' \in [Csids -> Packets \cup {NoPacket}], now' \in [Csids -> Packets \cup {NoPacket}],
           Agrees(now'[f.csid], last'[f.csid], x1[f.csid]),
           \A d \in Csids : d # f.csid => now'[d] = now[d] /\ last'[d] = last[d]
    PROVE  IInv'
<1>1. InContext(x1, g)'
  <2>. SUFFICES ASSUME NEW d \in Csids PROVE Agrees(now'[d], last'[d], x1[d])
    BY DEF InContext
  <2>1. CASE d = f.csid
    BY <2>1
  <2>2. CASE d # f.csid
    BY <2>2 DEF Behind, InContext
  <2>. QED BY <2>1, <2>2
<1>2. Behind(x1, y, g)'
  BY <1>1 DEF Behind, Idle
<1>3. /\ Bytes(wire') = Bytes(wire) - WireLength(c) /\ Bytes(wire) \in Nat /\ WireLength(c) \in Nat
  BY BytesTail, BytesSums, WireLemma
<1>4. size' \in Nat
  BY <1>3 DEF Place
<1>5. InSync'
  <2>1. HandshakeBytes' = 0 /\ HandshakeBytes = 0
    BY DEF HandshakeBytes
  <2>2. size + in_flight = Bytes(wire) /\ size \in Nat /\ in_flight \in Nat
    BY <1>3, <2>1 DEF Place, InSync
  <2>3. size' + in_flight' = Bytes(wire')
    BY <1>3, <2>2
  <2>4. size' + in_flight' = HandshakeBytes' + Bytes(wire')
    <3>1. Bytes(wire') \in Nat
      BY <1>4, <2>2, <2>3
    <3>. QED BY <2>1, <2>3, <3>1
  <2>. QED BY <2>4 DEF InSync
<1>6. Len(wire') <= MaxWire
  <2>1. Len(wire') = Len(wire) - 1 /\ Len(wire) \in Nat /\ MaxWire \in Nat
    BY HeadTailProperties, LenProperties, ConstantsAssumption
  <2>. QED BY <2>1 DEF Place
<1>7. Place'
  BY <1>4, <1>5, <1>6 DEF Place, Waiting
<1>. QED BY <1>2, <1>7 DEF IInv

\* A whole chunk is consumed; if it ends a message, that message is the next
\* one owed, and it is handed on as it was sent.
LEMMA SplitStep ==
    ASSUME IInv, split_rtmp
    PROVE  /\ IInv'
           /\ \/ owed # <<>> /\ out' = Head(owed) /\ owed' = Tail(owed)
              \/ out' = NoMessage /\ owed' = owed
<1>1. PICK x, y, f : Behind(x, y, f)
  BY DEF IInv
<1>2. PICK c : c = Head(wire)
  OBVIOUS
<1>3. PICK p : p = Header(c)
  OBVIOUS
<1>4. wire # <<>> /\ step = "split" /\ pc = "parse" /\ size >= Required(c, p)
  BY <1>2, <1>3 DEF split_rtmp, ChunkHere, HeaderHere
<1>5. PICK z \in Sizes : z = chunk_size_in_
  BY <1>1, <1>4, AtHead
<1>6. /\ f \in Sendings /\ f.csid \in Csids
      /\ c \in Chunks /\ c.csid = f.csid /\ IsChunk(c, f, Part(f, z)) /\ Fits(p, f)
  BY <1>1, <1>2, <1>3, <1>4, <1>5, AtHead
<1>7. PICK x1, z1, g :
        /\ Link(c, f, x, z, x1, z1)
        /\ (Whole(f, z) => owed # <<>> /\ Head(owed) = Message(f))
        /\ Traced(Tail(wire), IF Whole(f, z) THEN Tail(owed) ELSE owed, x1, z1, y, chunk_size_out, g)
  <2>1. Traced(wire, owed, x, z, y, chunk_size_out, f)
    BY <1>1, <1>5 DEF Behind
  <2>. QED BY <1>2, <1>4, <2>1, TracedTail
<1>8. x \in Contexts /\ wire \in Seq(Chunks)
  BY <1>1, TracedTypes DEF Behind
<1>9. x1[f.csid] = Less(f, z) /\ \A d \in Csids : d # f.csid => x1[d] = x[d]
  BY <1>6, <1>7, <1>8, LinkTypes
<1>10. z1 = IF Ends(f, z) /\ f.kind = "set_chunk" THEN f.value ELSE z
  BY <1>7 DEF Link
<1>11. /\ Required(c, p) = WireLength(c) /\ (p.got + more(p) = p.msg_length <=> Ends(f, z))
       /\ TimeStamp(c, p) = f.ts
  BY <1>5, <1>6, ParserSees
<1>12. /\ p \in Packets /\ p.msg_length = f.len /\ p.msg_type_id = f.kind /\ c.value = f.value
  BY <1>6 DEF Fits, IsChunk
<1>13. PICK q : q = [p EXCEPT !.got = @ + more(p)]
  OBVIOUS
<1>14. q.got = p.got + more(p)
  BY <1>12, <1>13 DEF Packets
<1>15. /\ (Ends(f, z) => Agrees(NoPacket, Completed(c, p), Less(f, z)))
       /\ (~Ends(f, z) => Agrees(q, last[f.csid], Less(f, z)))
  BY <1>5, <1>6, <1>13, ParserFollows
<1>16. /\ size' = size - WireLength(c) /\ wire' = Tail(wire)
       /\ in_flight' = in_flight /\ c2_sent' = c2_sent /\ sender' = sender /\ step' = step
       /\ pc' = pc /\ peer' = peer /\ chunk_size_out' = chunk_size_out
  BY <1>2, <1>3, <1>11 DEF split_rtmp
<1>17. now \in [Csids -> Packets \cup {NoPacket}] /\ last \in [Csids -> Packets \cup {NoPacket}]
  BY DEF IInv, Place
<1>18. f.len \in Nat /\ (f.kind = "set_chunk" => f.len > 0) /\ (f.len > 0 \/ f.len = 0)
  <2>1. f.len \in Nat /\ (f.kind = "set_chunk" => f.len > 0)
    BY <1>6, SendingTypes
  <2>. QED BY <2>1
<1>19. CASE Ends(f, z)
  <2>1. q.got = p.msg_length
    BY <1>11, <1>14, <1>19
  <2>2. /\ last' = [last EXCEPT ![f.csid] = Completed(c, p)]
        /\ now' = [now EXCEPT ![f.csid] = NoPacket]
        /\ IF p.msg_length > 0 THEN handle_chunk(c, p)
           ELSE out' = NoMessage /\ owed' = owed /\ chunk_size_in_' = chunk_size_in_
    BY <1>2, <1>3, <1>6, <1>13, <2>1 DEF split_rtmp
  <2>3. ASSUME f.len > 0
        PROVE  /\ chunk_size_in_' = z1 /\ owed' = IF Whole(f, z) THEN Tail(owed) ELSE owed
               /\ \/ owed # <<>> /\ out' = Head(owed) /\ owed' = Tail(owed)
                  \/ out' = NoMessage /\ owed' = owed
    <3>1. Whole(f, z) /\ handle_chunk(c, p)
      BY <1>12, <1>19, <2>2, <2>3 DEF Whole
    <3>2. out' = Message(f)
      BY <1>6, <1>11, <1>12, <3>1 DEF handle_chunk, Message
    <3>3. owed' = Tail(owed) /\ owed # <<>> /\ Head(owed) = Message(f)
      BY <1>7, <3>1 DEF handle_chunk
    <3>4. chunk_size_in_' = z1
      BY <1>5, <1>10, <1>12, <1>19, <3>1 DEF handle_chunk
    <3>. QED BY <3>1, <3>2, <3>3, <3>4
  <2>4. ASSUME f.len = 0
        PROVE  /\ chunk_size_in_' = z1 /\ owed' = IF Whole(f, z) THEN Tail(owed) ELSE owed
               /\ \/ owed # <<>> /\ out' = Head(owed) /\ owed' = Tail(owed)
                  \/ out' = NoMessage /\ owed' = owed
    <3>1. ~(f.len > 0) /\ ~Whole(f, z) /\ f.kind # "set_chunk"
      BY <1>18, <2>4 DEF Whole
    <3>2. out' = NoMessage /\ owed' = owed /\ chunk_size_in_' = z1
      <4>1. ~(p.msg_length > 0) /\ z1 = z
        BY <1>10, <1>12, <3>1
      <4>. QED BY <1>5, <2>2, <4>1
    <3>. QED BY <3>1, <3>2
  <2>5. /\ chunk_size_in_' = z1 /\ owed' = IF Whole(f, z) THEN Tail(owed) ELSE owed
        /\ \/ owed # <<>> /\ out' = Head(owed) /\ owed' = Tail(owed)
           \/ out' = NoMessage /\ owed' = owed
    BY <1>18, <2>3, <2>4
  <2>6. /\ last' \in [Csids -> Packets \cup {NoPacket}] /\ now' \in [Csids -> Packets \cup {NoPacket}]
        /\ now'[f.csid] = NoPacket /\ last'[f.csid] = Completed(c, p)
        /\ \A d \in Csids : d # f.csid => now'[d] = now[d] /\ last'[d] = last[d]
    <3>1. Completed(c, p) \in Packets
      <4>1. /\ Remembers(Completed(c, p), Less(f, z)) \/ Fits(NoPacket, Less(f, z))
               \/ NoPacket = Less(f, z)
        BY <1>15, <1>19 DEF Agrees
      <4>2. NoPacket # Less(f, z) /\ ~Fits(NoPacket, Less(f, z))
        BY <1>6, LessLemma, NoSending, NoPackets DEF Fits
      <4>. QED BY <4>1, <4>2 DEF Remembers
    <3>. QED BY <1>6, <1>17, <2>2, <3>1
  <2>7. Agrees(now'[f.csid], last'[f.csid], x1[f.csid])
    BY <1>9, <1>15, <1>19, <2>6
  <2>8. PICK o : o = IF Whole(f, z) THEN Tail(owed) ELSE owed
    OBVIOUS
  <2>9. Traced(Tail(wire), o, x1, z1, y, chunk_size_out, g)
    BY <1>7, <2>8
  <2>10. Place /\ size >= WireLength(c)
    BY <1>4, <1>11 DEF IInv
  <2>11. owed' = o /\ chunk_size_in_' = z1
    BY <2>5, <2>8
  <2>12. IInv'
    BY <1>1, <1>2, <1>4, <1>6, <1>8, <1>9, <1>16, <2>6, <2>7, <2>9, <2>10, <2>11, SplitInv
  <2>. QED BY <2>5, <2>12
<1>20. CASE ~Ends(f, z)
  <2>1. q.got # p.msg_length
    BY <1>11, <1>14, <1>20
  <2>2. /\ now' = [now EXCEPT ![f.csid] = q] /\ last' = last
        /\ out' = NoMessage /\ owed' = owed /\ chunk_size_in_' = chunk_size_in_
    BY <1>2, <1>3, <1>6, <1>13, <2>1 DEF split_rtmp
  <2>3. ~Whole(f, z) /\ z1 = z
    BY <1>10, <1>20 DEF Whole
  <2>4. q \in Packets
    <3>1. Less(f, z).left # 0
      BY <1>6, <1>20, LessLemma
    <3>2. Less(f, z) # NoPacket
      BY <1>6, LessLemma, NoSending
    <3>. QED BY <1>15, <1>20, <3>1, <3>2 DEF Agrees, Fits
  <2>5. /\ last' \in [Csids -> Packets \cup {NoPacket}] /\ now' \in [Csids -> Packets \cup {NoPacket}]
        /\ now'[f.csid] = q /\ last'[f.csid] = last[f.csid]
        /\ \A d \in Csids : d # f.csid => now'[d] = now[d] /\ last'[d] = last[d]
    BY <1>6, <1>17, <2>2, <2>4
  <2>6. Agrees(now'[f.csid], last'[f.csid], x1[f.csid])
    BY <1>9, <1>15, <1>20, <2>5
  <2>7. chunk_size_in_' = z1 /\ owed' = IF Whole(f, z) THEN Tail(owed) ELSE owed
    BY <1>5, <2>2, <2>3
  <2>8. PICK o : o = IF Whole(f, z) THEN Tail(owed) ELSE owed
    OBVIOUS
  <2>9. Traced(Tail(wire), o, x1, z1, y, chunk_size_out, g)
    BY <1>7, <2>8
  <2>10. Place /\ size >= WireLength(c)
    BY <1>4, <1>11 DEF IInv
  <2>11. owed' = o /\ chunk_size_in_' = z1
    BY <2>7, <2>8
  <2>12. IInv'
    BY <1>1, <1>2, <1>4, <1>6, <1>8, <1>9, <1>16, <2>5, <2>6, <2>7, <2>9, <2>10, <2>11, SplitInv
  <2>. QED BY <2>2, <2>12
<1>. QED BY <1>19, <1>20

-----------------------------------------------------------------------------
(* The theorems                                                            *)

LEMMA StepInv == IInv /\ [Next]_vars => IInv'
<1>. SUFFICES ASSUME IInv, [Next]_vars PROVE IInv'
  OBVIOUS
<1>1. CASE UNCHANGED vars
  <2>1. \E x, y, f : Behind(x, y, f)'
    BY <1>1, StayBehind DEF IInv, vars, parser
  <2>2. HandshakeBytes' = HandshakeBytes /\ Bytes(wire)' = Bytes(wire)
    BY <1>1 DEF HandshakeBytes, vars, parser
  <2>3. Place'
    BY <1>1, <2>2 DEF IInv, Place, InSync, Waiting, vars, parser
  <2>. QED BY <2>1, <2>3 DEF IInv
<1>2. CASE c2_sent /\ sender = "client" /\ Peer
  BY <1>2, PeerInv
<1>3. CASE c2_sent /\ sender = "send_rtmp" /\ Writer
  BY <1>3, WriterInv
<1>4. CASE Parser
  <2>1. ASSUME NEW n \in 1..in_flight, Arrive(n) PROVE IInv'
    BY <2>1, ArriveInv
  <2>. QED BY <1>4, <2>1, C0C1Inv, C2Inv, NeedHeaderInv, NeedBodyInv, SplitStep, ThrowsInv DEF Parser
<1>. QED BY <1>1, <1>2, <1>3, <1>4, SendC2Inv DEF Next

\* No more bytes are collected for a message than it has.
LEMMA GotBound ==
    ASSUME IInv, NEW c \in Csids, now[c] # NoPacket
    PROVE  now[c].got \in 0..now[c].msg_length
<1>1. PICK x, y, f : Behind(x, y, f)
  BY DEF IInv
<1>2. x \in Contexts /\ (wire # <<>> => f \in Sendings)
  BY <1>1, TracedTypes DEF Behind
<1>3. \E m \in Sendings : Fits(now[c], m)
  <2>1. CASE Agrees(now[c], last[c], x[c])
    <3>1. x[c] # NoPacket /\ Fits(now[c], x[c])
      BY <2>1 DEF Agrees
    <3>2. x[c] \in Sendings
      BY <1>2, <3>1 DEF Contexts
    <3>. QED BY <3>1, <3>2
  <2>2. CASE wire # <<>> /\ Fits(now[c], f)
    BY <1>2, <2>2
  <2>. QED BY <1>1, <2>1, <2>2 DEF Behind, InContext
<1>4. PICK m \in Sendings : Fits(now[c], m)
  BY <1>3
<1>5. now[c].got = m.len - m.left /\ now[c].msg_length = m.len
  BY <1>4 DEF Fits
<1>6. m.len \in Nat /\ m.left \in Nat /\ m.left <= m.len
  BY SendingTypes
<1>. QED BY <1>5, <1>6

\* The parser's place in the stream is right after every step: TypeOK and
\* InSync for any peer that follows the rules and for send_rtmp, any chunk
\* sizes and any cuts of the stream.
THEOREM PlaceKept == Spec => []ParserInv
<1>1. IInv => ParserInv
  <2>. SUFFICES ASSUME IInv PROVE ParserInv
    OBVIOUS
  <2>1. chunk_size_in_ \in ChunkSizes \cup {kDefaultChunkLength}
    BY TracedTypes DEF IInv, Behind, Sizes
  <2>2. \A c \in Csids : now[c] # NoPacket => now[c].got \in 0..now[c].msg_length
    BY GotBound
  <2>3. TypeOK
    BY <2>1, <2>2 DEF IInv, Place, TypeOK
  <2>. QED BY <2>3 DEF IInv, Place, ParserInv
<1>. QED BY <1>1, InitInv, StepInv, PTL DEF Spec

\* When everything sent has arrived and has been parsed, nothing is left: the
\* handshake and split_rtmp never wait for bytes the peer has no reason to send.
THEOREM NeverStuck == Spec => []NothingStuck
<1>1. IInv => NothingStuck
  <2>. SUFFICES ASSUME IInv, pc = "read", in_flight = 0
                PROVE  size = 0 /\ wire = <<>> /\ owed = <<>>
    BY DEF NothingStuck
  <2>1. PICK k \in Nat : k = kC1HandshakeSize /\ k > 0
    BY InvTypes
  <2>2. PICK b \in Nat : b = Bytes(wire)
    BY InvTypes
  <2>3. size \in Nat /\ size = HandshakeBytes + b
    <3>1. HandshakeBytes \in Nat
      BY <2>1 DEF HandshakeBytes
    <3>. QED BY <2>2, <3>1 DEF IInv, Place, InSync
  <2>4. CASE step = "C0C1"
    <3>1. size < 1 + k /\ ~c2_sent
      BY <2>1, <2>4 DEF IInv, Place, Waiting
    <3>2. HandshakeBytes = 1 + k
      BY <2>1, <2>4, <3>1 DEF HandshakeBytes
    <3>. QED BY <2>3, <3>1, <3>2
  <2>5. CASE step = "C2"
    <3>1. size < k
      BY <2>1, <2>5 DEF IInv, Place, Waiting
    <3>2. HandshakeBytes = IF c2_sent THEN k ELSE 0
      BY <2>1, <2>5 DEF HandshakeBytes
    <3>3. ~c2_sent
      BY <2>3, <3>1, <3>2
    <3>4. wire = <<>> /\ b = 0 /\ owed = <<>>
      BY <2>2, <3>3, InvTypes DEF IInv, Place
    <3>. QED BY <2>3, <3>2, <3>3, <3>4
  <2>6. CASE step = "split"
    <3>1. HandshakeBytes = 0
      BY <2>6 DEF HandshakeBytes
    <3>2. size = b
      BY <2>3, <3>1
    <3>3. wire = <<>>
      <4>. SUFFICES ASSUME wire # <<>> PROVE FALSE
        OBVIOUS
      <4>1. size < WireLength(Head(wire))
        BY <2>6 DEF IInv, Place, Waiting
      <4>2. WireLength(Head(wire)) <= b
        BY <2>2, InvTypes
      <4>3. WireLength(Head(wire)) \in Nat
        BY InvTypes, HeadTailProperties, WireLemma
      <4>. QED BY <3>2, <4>1, <4>2, <4>3
    <3>. QED BY <2>2, <3>2, <3>3, InvTypes
  <2>. QED BY <2>4, <2>5, <2>6 DEF IInv, Place
<1>. QED BY <1>1, InitInv, StepInv, PTL DEF Spec

\* Every step of the connection is a step of MessageStream, or none of its.
LEMMA StepStream == IInv /\ [Next]_vars => [Stream!Next]_(Stream!vars)
<1>. SUFFICES ASSUME IInv, [Next]_vars PROVE Stream!Next \/ UNCHANGED <<owed, out>>
  BY DEF Stream!vars
<1>1. ASSUME NEW m \in Messages, owed' = Append(owed, m), out' = out PROVE Stream!Next
  BY <1>1 DEF Messages, Stream!Next, Stream!Send
<1>2. ASSUME out' = NoMessage, owed' = owed PROVE Stream!Next
  BY <1>2 DEF Stream!Next, Stream!Taken
<1>3. ASSUME owed # <<>>, out' = Head(owed), owed' = Tail(owed) PROVE Stream!Next
  BY <1>3 DEF Stream!Next, Stream!Deliver
<1>4. PICK x, y, f : Behind(x, y, f)
  BY DEF IInv
<1>5. CASE c2_sent /\ sender = "client" /\ Peer
  <2>1. peer \in Contexts
    BY <1>4, <1>5, TracedTypes DEF Behind
  <2>2. PICK m \in Sendings, fmt \in 0..3 : SendChunk(m, fmt)
    BY <1>5, <2>1, PeerChunk
  <2>3. (owed' = Append(owed, Message(m)) \/ owed' = owed) /\ out' = out
    BY <2>2 DEF SendChunk, parser
  <2>4. Message(m) \in Messages
    BY SendingTypes
  <2>. QED BY <1>1, <2>3, <2>4
<1>6. CASE c2_sent /\ sender = "send_rtmp" /\ Writer
  <2>1. ASSUME NEW c \in Csids, NEW len \in Lens \cup {ControlLen}, NEW kind \in Kinds,
               NEW stamp \in Stamps, NEW value \in ChunkSizes \cup {0},
               send_rtmp(c, len, kind, stamp, value)
        PROVE  Stream!Next
    <3>1. PICK m : m = [csid |-> c, len |-> len, kind |-> kind, field |-> stamp, ts |-> stamp,
                        value |-> value]
      OBVIOUS
    <3>2. owed' = Append(owed, Message(m)) /\ out' = out
      BY <2>1, <3>1 DEF send_rtmp, parser
    <3>3. Message(m) \in Messages
      BY <3>1 DEF Message, Messages
    <3>. QED BY <1>1, <3>2, <3>3
  <2>2. ASSUME NEW c \in Csids, NEW len \in Lens, NEW stamp \in Stamps,
               send_rtmp(c, len, "media", stamp, 0)
        PROVE  Stream!Next
    BY <2>1, <2>2 DEF Kinds
  <2>3. ASSUME NEW c \in Csids, NEW v \in ChunkSizes, set_chunk_size(c, v)
        PROVE  Stream!Next
    <3>1. 0 \in Stamps
      BY ConstantsAssumption DEF Stamps
    <3>2. send_rtmp(c, ControlLen, "set_chunk", 0, v)
      BY <2>3 DEF set_chunk_size
    <3>. QED BY <2>1, <3>1, <3>2 DEF Kinds
  <2>. QED BY <1>6, <2>2, <2>3 DEF Writer
<1>7. CASE split_rtmp
  BY <1>2, <1>3, <1>7, SplitStep
<1>8. CASE NeedHeader \/ NeedBody \/ HandlerThrows
  BY <1>2, <1>8 DEF NeedHeader, NeedBody, HandlerThrows
<1>9. CASE SendC2 \/ (\E n \in 1..in_flight : Arrive(n)) \/ handle_C0C1 \/ handle_C2 \/ UNCHANGED vars
  <2>1. SendC2 => UNCHANGED <<owed, out>>
    BY DEF SendC2, parser
  <2>2. (\E n \in 1..in_flight : Arrive(n)) => UNCHANGED <<owed, out>>
    BY DEF Arrive
  <2>3. handle_C0C1 \/ handle_C2 \/ UNCHANGED vars => UNCHANGED <<owed, out>>
    BY DEF handle_C0C1, handle_C2, vars, parser
  <2>. QED BY <1>9, <2>1, <2>2, <2>3
<1>. QED BY <1>5, <1>6, <1>7, <1>8, <1>9 DEF Next, Parser

\* The connection implements MessageStream: messages come out whole, once,
\* unchanged and in the order in which they were completed, for any formats of
\* headers, interleaving of chunk streams, chunk sizes and sizes of reads.
THEOREM Reassembly == Spec => RefinesStream
<1>1. Init => Stream!Init
  BY DEF Init, Stream!Init
<1>. QED BY <1>1, InitInv, StepInv, StepStream, PTL DEF Spec, RefinesStream, Stream!Spec
=============================================================================
