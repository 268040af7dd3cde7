--------------------------- MODULE FlvOutputProofs ---------------------------
(***************************************************************************)
(* Proofs about FlvOutput, for every number of io threads, size of the     *)
(* send buffer and of the transfers, packet sizes, pool size, and number   *)
(* of requests and packets.                                                *)
(*                                                                         *)
(* ConnectionInv is inductive together with NoUseAfterFree and             *)
(* MuxerDiesOutsideLoop.  What an action does is divided as ConnectionInv  *)
(* is: to the writes in flight (QueuesStep), to the handlers in progress,  *)
(* and to the session, its muxers and their pools.                         *)
(***************************************************************************)
EXTENDS FlvOutput, FiniteSetTheorems, SequenceTheorems, TLAPS

Inv == ConnectionInv /\ NoUseAfterFree /\ MuxerDiesOutsideLoop

-----------------------------------------------------------------------------
(* Facts about the operators                                               *)

\* Head and Tail of the steps still to do.
LEMMA TailLemma ==
    ASSUME NEW S, NEW v \in Seq(S), v # <<>>
    PROVE  /\ Head(v) = v[1] /\ v[1] \in S /\ Len(v) \in Nat /\ Len(v) >= 1
           /\ Tail(v) \in Seq(S) /\ Len(Tail(v)) = Len(v) - 1
           /\ DOMAIN Tail(v) = 1..(Len(v) - 1)
           /\ \A i \in 1..(Len(v) - 1) : Tail(v)[i] = v[i + 1]
BY HeadTailProperties, LenProperties, ElementOfSeq

\* A handler's steps one after the other.
LEMMA ConcatLemma ==
    ASSUME NEW S, NEW s \in Seq(S), NEW t \in Seq(S)
    PROVE  /\ s \o t \in Seq(S) /\ Len(s) \in Nat /\ Len(t) \in Nat
           /\ Len(s \o t) = Len(s) + Len(t)
           /\ DOMAIN (s \o t) = 1..(Len(s) + Len(t))
           /\ \A i \in 1..Len(s) : (s \o t)[i] = s[i]
           /\ \A i \in 1..Len(t) : (s \o t)[Len(s) + i] = t[i]
<1>1. s \o t \in Seq(S) /\ Len(s \o t) = Len(s) + Len(t)
  BY ConcatProperties
<1>2. \A i \in 1..(Len(s) + Len(t)) :
        (s \o t)[i] = IF i <= Len(s) THEN s[i] ELSE t[i - Len(s)]
  BY ConcatProperties
<1>3. Len(s) \in Nat /\ Len(t) \in Nat
  BY LenProperties
<1>4. DOMAIN (s \o t) = 1..(Len(s) + Len(t))
  BY <1>1, LenProperties
<1>5. \A i \in 1..Len(s) : (s \o t)[i] = s[i]
  BY <1>2, <1>3
<1>6. \A i \in 1..Len(t) : (s \o t)[Len(s) + i] = t[i]
  BY <1>2, <1>3
<1>. QED BY <1>1, <1>3, <1>4, <1>5, <1>6

\* With one io thread a handler starts when none is in progress.
LEMMA OneThreadFree ==
    ASSUME TypeOK, ThreadFree, cpus = 1
    PROVE  todo["viewer"] = <<>> /\ todo["publisher"] = <<>>
<1>. DEFINE busy == {s \in Strands : todo[s] # <<>>}
<1>1. IsFiniteSet(Strands)
  <2>1. IsFiniteSet({"viewer"}) /\ IsFiniteSet({"viewer"} \cup {"publisher"})
    BY FS_Singleton, FS_AddElement
  <2>. QED BY <2>1 DEF Strands
<1>2. IsFiniteSet(busy) /\ Cardinality(busy) \in Nat
  BY <1>1, FS_Subset, FS_CardinalityType
<1>3. Cardinality(busy) = 0
  BY <1>2 DEF ThreadFree
<1>4. busy = {}
  BY <1>2, <1>3, FS_EmptySet
<1>. QED BY <1>4 DEF Strands

\* The kernel takes no more than there is room for, or is left of the write.
LEMMA TakesLemma ==
    ASSUME NEW w, w.left \in Nat, room \in Nat
    PROVE  Takes(w) \in Nat /\ Takes(w) <= w.left /\ Takes(w) <= room
<1>. DEFINE S == {room, w.left, MaxTransfer}
<1>1. MaxTransfer \in Nat
  BY ConstantsAssumption
<1>2. \E x \in S : \A y \in S : x <= y
  BY <1>1
<1>3. Takes(w) \in S /\ \A y \in S : Takes(w) <= y
  BY <1>2 DEF Takes, Least
<1>. QED BY <1>1, <1>3

\* The steps of the viewer's handler, by what they do.
LEMMA ViewerKinds ==
    ASSUME NEW e \in ViewerSteps
    PROVE  /\ e.op \in {"send", "return", "create", "do_read", "regist"}
           /\ e.op = "send" => e \in Writes
           /\ e.op = "return" => e.scope \in Scopes /\ e.block \in (0..MaxRequests) \X Nat
           /\ e.op = "regist" => e.arg \in Nat
BY DEF ViewerSteps, WriteSteps, Writes

\* The steps of distribute(), by what they do.
LEMMA PublisherKinds ==
    ASSUME NEW e \in PublisherSteps
    PROVE  /\ e.op \in {"send", "return", "old clients", "cache", "recache", "new clients",
                        "merge", "call", "release"}
           /\ e.op = "send" => e \in Writes
           /\ e.op \in {"old clients", "cache", "recache"} => e.arg \in Packets
           /\ e.op = "call" => e.arg.pkt \in Packets /\ e.arg.muxer \in 1..MaxRequests
           /\ e \in LoopSteps <=> e.op \notin {"send", "return", "release"}
BY DEF PublisherSteps, WriteSteps, LoopSteps, Writes

-----------------------------------------------------------------------------
(* The writes in flight                                                    *)

\* What a step does to the writes, the socket and the histories of them; new
\* is the block that the step took out of a pool.
QueuesStep(new) ==
    /\ waiting' \in Seq(Writes) /\ posted' \in Seq(Writes)
    /\ room' \in 0..SendBuffer /\ garbled' \in BOOLEAN /\ split' \in BOOLEAN
    /\ waiting' # <<>> => life' = "open"
    /\ ~split' => /\ ~split /\ waiting' = <<>>
                  /\ \A w \in Range(posted') : w.left = 0
    /\ \A w \in InFlight' :
         w.block \in {NoBlock, new} \/ \E v \in InFlight : v.block = w.block

\* What the invariant says of the writes before the step.
LEMMA QueueFacts ==
    ASSUME Inv
    PROVE  /\ waiting \in Seq(Writes) /\ posted \in Seq(Writes)
           /\ room \in 0..SendBuffer /\ room \in Nat /\ SendBuffer \in Nat
           /\ garbled \in BOOLEAN /\ split \in BOOLEAN
           /\ waiting # <<>> => life = "open"
           /\ ~split => waiting = <<>> /\ \A w \in Range(posted) : w.left = 0
<1>1. \A w \in Range(posted) : \E i \in DOMAIN posted : w = posted[i]
  BY DEF Range
<1>. QED
  BY <1>1, ConstantsAssumption DEF Inv, ConnectionInv, TypeOK, SessionInOrder, NothingLeft

\* What a queue of writes has in it after one is added or taken away.
LEMMA RangeLemma ==
    ASSUME NEW S, NEW q \in Seq(S)
    PROVE  /\ \A w \in S : Append(q, w) \in Seq(S) /\ Range(Append(q, w)) = Range(q) \cup {w}
           /\ q # <<>> => /\ Tail(q) \in Seq(S) /\ Head(q) \in Range(q) /\ Head(q) \in S
                          /\ Range(Tail(q)) \subseteq Range(q)
           /\ \A w \in Range(q) : w \in S
           /\ Range(<<>>) = {}
<1>1. ASSUME NEW w \in S
      PROVE  Append(q, w) \in Seq(S) /\ Range(Append(q, w)) = Range(q) \cup {w}
  <2>1. /\ Append(q, w) \in Seq(S) /\ Len(q) \in Nat
        /\ DOMAIN Append(q, w) = 1..(Len(q) + 1) /\ DOMAIN q = 1..Len(q)
        /\ \A i \in 1..Len(q) : Append(q, w)[i] = q[i]
        /\ Append(q, w)[Len(q) + 1] = w
    BY AppendProperties, LenProperties
  <2>. QED BY <2>1 DEF Range
<1>2. ASSUME q # <<>>
      PROVE  /\ Tail(q) \in Seq(S) /\ Head(q) \in Range(q) /\ Head(q) \in S
             /\ Range(Tail(q)) \subseteq Range(q)
  <2>1. DOMAIN q = 1..Len(q)
    BY LenProperties
  <2>. QED BY <1>2, <2>1, TailLemma DEF Range
<1>3. \A w \in Range(q) : w \in S
  BY ElementOfSeq, LenProperties DEF Range
<1>4. Range(<<>>) = {}
  BY DEF Range
<1>. QED BY <1>1, <1>2, <1>3, <1>4

\* A step that leaves the writes alone.
LEMMA SameQueues ==
    ASSUME Inv, UNCHANGED <<waiting, posted, garbled, split>>, room' \in 0..SendBuffer,
           life' = life \/ waiting = <<>>
    PROVE  QueuesStep(NoBlock)
BY QueueFacts DEF QueuesStep, InFlight

\* A completion that does nothing to the socket.
LEMMA PopQueues ==
    ASSUME Inv, posted # <<>>, posted' = Tail(posted),
           UNCHANGED <<waiting, room, garbled, split, life>>
    PROVE  QueuesStep(NoBlock)
BY QueueFacts, RangeLemma DEF QueuesStep, InFlight

\* Freed memory: the writes that read it stay as they are otherwise.
LEMMA FreedLemma ==
    ASSUME NEW q \in Seq(Writes), NEW dead, NEW r, r = Freed(q, dead)
    PROVE  /\ r \in Seq(Writes) /\ (q = <<>> => r = <<>>)
           /\ \A w \in Range(r) : \E v \in Range(q) : v.block = w.block /\ v.left = w.left
<1>1. DOMAIN q = 1..Len(q) /\ Len(q) \in Nat /\ \A i \in 1..Len(q) : q[i] \in Writes
  BY LenProperties, ElementOfSeq
<1>2. \A i \in 1..Len(q) : /\ r[i] \in Writes /\ r[i].block = q[i].block
                           /\ r[i].left = q[i].left
  <2>1. ASSUME NEW w \in Writes, NEW d, d = [w EXCEPT !.mem = "dead"]
        PROVE  d \in Writes /\ d.block = w.block /\ d.left = w.left
    BY <2>1 DEF Writes
  <2>2. \A i \in 1..Len(q) : r[i] \in {q[i], [q[i] EXCEPT !.mem = "dead"]}
    BY <1>1 DEF Freed
  <2>. QED BY <1>1, <2>1, <2>2
<1>3. r = [i \in 1..Len(q) |-> r[i]]
  BY <1>1 DEF Freed
<1>4. r \in Seq(Writes) /\ DOMAIN r = DOMAIN q
  BY <1>1, <1>2, <1>3
<1>5. q = <<>> => r = <<>>
  BY <1>4
<1>. QED BY <1>1, <1>2, <1>4, <1>5 DEF Range

\* A call returns, or packets die.
LEMMA FreeQueues ==
    ASSUME Inv, NEW dead, FreeMemory(dead), UNCHANGED <<room, garbled, split, life>>
    PROVE  QueuesStep(NoBlock)
<1>1. waiting' = Freed(waiting, dead) /\ posted' = Freed(posted, dead)
  BY DEF FreeMemory
<1>. QED BY <1>1, QueueFacts, FreedLemma DEF QueuesStep, InFlight

\* The write that close() leaves of the others.
LEMMA FailedLemma == Failed \in Writes /\ Failed.left = 0 /\ Failed.block = NoBlock
<1>1. 0 \in 0..MaxRequests
  BY ConstantsAssumption
<1>. QED BY <1>1 DEF Failed, Write, Writes, NoBlock, Scopes

\* The socket is closed with writes waiting for it.
LEMMA AbortQueues ==
    ASSUME Inv, waiting' = <<>>, posted' = Aborted(posted), UNCHANGED <<room, garbled, split>>
    PROVE  QueuesStep(NoBlock)
<1>. DEFINE lost == [i \in DOMAIN waiting |-> Failed]
<1>1. lost \in Seq(Writes) /\ \A w \in Range(lost) : w = Failed
  BY QueueFacts, FailedLemma, LenProperties, IsASeq DEF Range
<1>2. posted' \in Seq(Writes) /\ Range(posted') = Range(posted) \cup Range(lost)
  BY <1>1, QueueFacts, ConcatProperties, RangeConcatenation DEF Aborted
<1>. QED BY <1>1, <1>2, QueueFacts, FailedLemma, RangeLemma DEF QueuesStep, InFlight

\* A write of which the kernel has taken some.
Rest(w) == [w EXCEPT !.left = @ - Takes(w)]

\* What is left of a write is a write from the same memory.
LEMMA LessLeft ==
    ASSUME NEW w \in Writes, room \in Nat
    PROVE  /\ Rest(w) \in Writes /\ Rest(w).block = w.block /\ Rest(w).left = w.left - Takes(w)
           /\ Takes(w) \in Nat /\ Takes(w) <= w.left /\ Takes(w) <= room /\ w.left \in Nat
<1>1. w.left \in Nat
  BY DEF Writes
<1>2. Takes(w) \in Nat /\ Takes(w) <= w.left /\ Takes(w) <= room
  BY <1>1, TakesLemma
<1>3. ASSUME NEW n \in Nat, NEW r, r = [w EXCEPT !.left = n]
      PROVE  r \in Writes /\ r.block = w.block /\ r.left = n
  BY <1>3 DEF Writes
<1>4. w.left - Takes(w) \in Nat
  BY <1>1, <1>2
<1>5. Rest(w) = [w EXCEPT !.left = w.left - Takes(w)]
  BY DEF Rest, Writes
<1>. QED BY <1>1, <1>2, <1>3, <1>4, <1>5

\* The kernel's side of a write.
LEMMA TakenLemma ==
    ASSUME Inv, NEW w, NEW n \in Nat, n <= room, Taken(w, n)
    PROVE  room' \in 0..SendBuffer /\ garbled' \in BOOLEAN
<1>1. room' = room - n /\ (garbled' = garbled \/ garbled' = TRUE)
  BY DEF Taken
<1>2. room' \in 0..SendBuffer
  BY <1>1, QueueFacts
<1>3. garbled' \in BOOLEAN
  BY <1>1, QueueFacts, Zenon
<1>. QED BY <1>2, <1>3

\* A completion to be posted is that of the write.
LEMMA PostedLemma ==
    ASSUME NEW q \in Seq(Writes), NEW w \in Writes
    PROVE  /\ Posted(q, w) \in Seq(Writes)
           /\ Range(Posted(q, w)) \subseteq Range(q) \cup {w}
BY RangeLemma DEF Posted

\* async_write starts on a write of its own, or goes on with one of posted.
LEMMA StartQueues ==
    ASSUME Inv, NEW w \in Writes, NEW q \in Seq(Writes), Range(q) \subseteq Range(posted),
           Start(w, q), life' = "open"
    PROVE  QueuesStep(w.block)
<1>1. CASE waiting # <<>> \/ room = 0
  <2>1. /\ waiting' = Append(waiting, w) /\ posted' = q /\ split' = TRUE
        /\ room' = room /\ garbled' = garbled
    BY <1>1 DEF Start
  <2>. QED BY <2>1, QueueFacts, RangeLemma DEF QueuesStep, InFlight
<1>2. CASE ~(waiting # <<>> \/ room = 0)
  <2>. DEFINE r == Rest(w)
  <2>1. /\ Taken(w, Takes(w)) /\ posted' = Posted(q, r) /\ waiting' = waiting
        /\ split' = (split \/ Takes(w) < w.left)
    BY <1>2 DEF Start, Rest
  <2>2. /\ r \in Writes /\ r.block = w.block /\ r.left = w.left - Takes(w)
        /\ Takes(w) \in Nat /\ Takes(w) <= w.left /\ Takes(w) <= room /\ w.left \in Nat
    BY QueueFacts, LessLeft
  <2>3. room' \in 0..SendBuffer /\ garbled' \in BOOLEAN
    BY <2>1, <2>2, TakenLemma
  <2>4. posted' \in Seq(Writes) /\ Range(posted') \subseteq Range(q) \cup {r}
    BY <2>1, <2>2, PostedLemma
  <2>. HIDE DEF r
  <2>5. split' \in BOOLEAN /\ (~split' => ~split /\ ~(Takes(w) < w.left))
    BY <2>1, QueueFacts, Zenon
  <2>6. ~split' => r.left = 0
    BY <2>2, <2>5
  <2>. QED BY <1>2, <2>1, <2>2, <2>3, <2>4, <2>5, <2>6, QueueFacts DEF QueuesStep, InFlight
<1>. QED BY <1>1, <1>2

\* The first of the waiting writes goes on.
LEMMA WritableQueues ==
    ASSUME Inv, Writable
    PROVE  QueuesStep(NoBlock)
<1>. DEFINE w == Head(waiting)
            r == Rest(w)
<1>1. /\ waiting # <<>> /\ waiting' = Tail(waiting) /\ posted' = Posted(posted, r)
      /\ Taken(w, Takes(w)) /\ split' = split /\ life' = life
  BY DEF Writable, connection, Rest
<1>2. w \in Writes /\ w \in Range(waiting) /\ split
  BY <1>1, QueueFacts, RangeLemma
<1>3. r \in Writes /\ r.block = w.block /\ Takes(w) \in Nat /\ Takes(w) <= room
  BY <1>2, QueueFacts, LessLeft
<1>4. room' \in 0..SendBuffer /\ garbled' \in BOOLEAN
  BY <1>1, <1>3, TakenLemma
<1>5. posted' \in Seq(Writes) /\ Range(posted') \subseteq Range(posted) \cup {r}
  BY <1>1, <1>3, QueueFacts, PostedLemma
<1>. HIDE DEF w, r
<1>. QED BY <1>1, <1>2, <1>3, <1>4, <1>5, QueueFacts, RangeLemma DEF QueuesStep, InFlight

\* session_manager::stop: nothing waits for a closed socket.
LEMMA StopQueues ==
    ASSUME Inv, NEW q \in Seq(Writes), Range(q) \subseteq Range(posted), NEW what,
           StopSession(q, what)
    PROVE  QueuesStep(NoBlock)
<1>1. /\ waiting' = <<>> /\ posted' = q /\ room' = SendBuffer
      /\ garbled' = garbled /\ split' = split
  BY DEF StopSession
<1>. QED BY <1>1, QueueFacts, RangeLemma DEF QueuesStep, InFlight

-----------------------------------------------------------------------------
(* The handlers in progress                                                *)

\* What the invariant says of the two lists of steps.
LEMMA TodoFacts ==
    ASSUME Inv
    PROVE  /\ DOMAIN todo = Strands
           /\ todo["viewer"] \in Seq(ViewerSteps) /\ todo["publisher"] \in Seq(PublisherSteps)
           /\ DOMAIN todo["viewer"] = 1..Len(todo["viewer"]) /\ Len(todo["viewer"]) \in Nat
           /\ DOMAIN todo["publisher"] = 1..Len(todo["publisher"])
           /\ Len(todo["publisher"]) \in Nat
           /\ muxer \in 0..MaxRequests /\ holding \in 0..MaxRequests /\ MaxRequests \in Nat
BY LenProperties, ConstantsAssumption DEF Inv, ConnectionInv, TypeOK

\* The steps that a strand goes on with.
LEMMA GoesLemma ==
    ASSUME Inv, NEW s \in Strands, NEW steps, Goes(s, steps)
    PROVE  /\ DOMAIN todo' = Strands /\ todo'[s] = steps \o Tail(todo[s])
           /\ \A t \in Strands \ {s} : todo'[t] = todo[t]
BY TodoFacts DEF Goes

\* A step that adds none.
LEMMA PopLemma ==
    ASSUME NEW S, NEW v \in Seq(S), v # <<>>
    PROVE  <<>> \o Tail(v) = Tail(v)
BY TailLemma, ConcatEmptySeq

\* The viewer's handler is where it was, or there is none.
LEMMA ViewerSame ==
    ASSUME Inv, todo'["viewer"] = todo["viewer"], header_' = header_,
           muxer' = muxer \/ todo["viewer"] = <<>>
    PROVE  ViewerInOrder' /\ (CreatePending' <=> CreatePending)
BY TodoFacts DEF Inv, ConnectionInv, ViewerInOrder, CreatePending

\* The viewer's handler has done a step that created no muxer.
LEMMA ViewerPop ==
    ASSUME Inv, todo["viewer"] # <<>>, todo["viewer"][1].op # "create",
           NEW v \in Seq(ViewerSteps), todo'["viewer"] = v, Len(v) = Len(todo["viewer"]) - 1,
           \A i \in 1..Len(v) : /\ v[i].op = todo["viewer"][i + 1].op
                                /\ NeedsMuxer(v[i]) <=> NeedsMuxer(todo["viewer"][i + 1]),
           muxer' = muxer, header_' = header_
    PROVE  ViewerInOrder' /\ (CreatePending' <=> CreatePending)
<1>. DEFINE w == todo["viewer"]
<1>1. DOMAIN v = 1..Len(v) /\ Len(v) \in Nat /\ DOMAIN w = 1..Len(w) /\ Len(w) \in Nat
  BY LenProperties, TodoFacts
<1>2. /\ \A i \in DOMAIN v : i + 1 \in DOMAIN w
      /\ \A i \in DOMAIN w : i # 1 => i - 1 \in DOMAIN v /\ (i - 1) + 1 = i
  BY <1>1
<1>3. /\ \A i \in DOMAIN v : /\ v[i].op = w[i + 1].op
                             /\ NeedsMuxer(v[i]) <=> NeedsMuxer(w[i + 1])
      /\ \A i \in DOMAIN w : i # 1 => v[i - 1].op = w[i].op
      /\ w[1].op # "create"
  <2>1. ASSUME NEW i \in DOMAIN w, i # 1 PROVE v[i - 1].op = w[i].op
    <3>1. i - 1 \in 1..Len(v) /\ (i - 1) + 1 = i
      BY <1>1, <1>2, <2>1
    <3>. QED BY <3>1
  <2>. QED BY <1>1, <2>1
<1>4. /\ \A i, j \in DOMAIN w :
           w[i].op = "create" /\ (w[j].op = "create" \/ NeedsMuxer(w[j])) => i <= j
      /\ \A i \in DOMAIN w : w[i].op = "create" => header_
      /\ \A j \in DOMAIN w : NeedsMuxer(w[j]) /\ muxer = 0 => \E i \in DOMAIN w : w[i].op = "create"
  BY DEF Inv, ConnectionInv, ViewerInOrder
<1>. HIDE DEF w
<1>5. \A i, j \in DOMAIN v :
        v[i].op = "create" /\ (v[j].op = "create" \/ NeedsMuxer(v[j])) => i <= j
  <2>. SUFFICES ASSUME NEW i \in DOMAIN v, NEW j \in DOMAIN v,
                       v[i].op = "create", v[j].op = "create" \/ NeedsMuxer(v[j])
                PROVE  i <= j
    OBVIOUS
  <2>1. /\ i + 1 \in DOMAIN w /\ j + 1 \in DOMAIN w /\ w[i + 1].op = "create"
        /\ w[j + 1].op = "create" \/ NeedsMuxer(w[j + 1])
    BY <1>2, <1>3
  <2>2. i + 1 <= j + 1
    BY <1>4, <2>1
  <2>. QED BY <1>1, <2>2
<1>6. \A i \in DOMAIN v : v[i].op = "create" => header_
  <2>. SUFFICES ASSUME NEW i \in DOMAIN v, v[i].op = "create" PROVE header_
    OBVIOUS
  <2>1. i + 1 \in DOMAIN w /\ w[i + 1].op = "create"
    BY <1>2, <1>3
  <2>. QED BY <1>4, <2>1, Zenon
<1>7. \A j \in DOMAIN v : NeedsMuxer(v[j]) /\ muxer = 0 => \E i \in DOMAIN v : v[i].op = "create"
  <2>. SUFFICES ASSUME NEW j \in DOMAIN v, NeedsMuxer(v[j]), muxer = 0
                PROVE  \E i \in DOMAIN v : v[i].op = "create"
    OBVIOUS
  <2>1. j + 1 \in DOMAIN w /\ NeedsMuxer(w[j + 1])
    BY <1>2, <1>3
  <2>2. PICK k \in DOMAIN w : w[k].op = "create"
    BY <1>4, <2>1
  <2>3. k - 1 \in DOMAIN v /\ v[k - 1].op = "create"
    BY <1>2, <1>3, <2>2
  <2>. QED BY <2>3
<1>9. CreatePending' <=> CreatePending
  <2>1. CreatePending' <=> \E i \in DOMAIN v : v[i].op = "create"
    BY DEF CreatePending
  <2>2. CreatePending <=> \E i \in DOMAIN w : w[i].op = "create"
    BY DEF CreatePending, w
  <2>3. ASSUME NEW k \in DOMAIN w, w[k].op = "create" PROVE \E i \in DOMAIN v : v[i].op = "create"
    <3>1. k - 1 \in DOMAIN v /\ v[k - 1].op = "create"
      BY <1>2, <1>3, <2>3
    <3>. QED BY <3>1
  <2>. QED BY <1>2, <1>3, <2>1, <2>2, <2>3
<1>8. ViewerInOrder'
  BY <1>5, <1>6, <1>7 DEF ViewerInOrder, NeedsMuxer
<1>. QED BY <1>9, <1>8

\* distribute() is where it was, or not in progress.
LEMMA PublisherSame ==
    ASSUME Inv, todo'["publisher"] = todo["publisher"], holding' = holding, cpus' = cpus,
           cpus = 1 => todo'["viewer"] = <<>> \/ todo["publisher"] = <<>>,
           cpus = 1 => muxer' = muxer \/ todo["publisher"] = <<>>
    PROVE  PublisherInOrder'
<1>1. PICK n \in 0..Len(todo["publisher"]) :
        InReadCb(todo["publisher"], n) /\ (holding # 0 <=> n # 0)
  BY DEF Inv, ConnectionInv, PublisherInOrder
<1>2. todo["publisher"] = <<>> => holding = 0
  BY <1>1, TodoFacts
<1>. QED BY <1>1, <1>2 DEF Inv, ConnectionInv, PublisherInOrder, InReadCb

\* What a step of distribute() leaves of the invariant when the viewer's
\* session is not touched by it.
LEMMA PublisherRest ==
    ASSUME Inv, todo["publisher"] # <<>>, todo'["viewer"] = todo["viewer"],
           cpus' = cpus, muxer' = muxer, cpus = 1 => holding' \in {0, muxer},
           NEW n \in 0..Len(todo'["publisher"]), InReadCb(todo'["publisher"], n),
           holding' # 0 <=> n # 0
    PROVE  PublisherInOrder'
BY DEF Inv, ConnectionInv, PublisherInOrder, InReadCb

\* read_cb has done a step of its writes.
LEMMA PublisherPop ==
    ASSUME Inv, todo["publisher"] # <<>>, todo["publisher"][1].op \in {"send", "return"},
           NEW p \in Seq(PublisherSteps), todo'["publisher"] = p,
           Len(p) = Len(todo["publisher"]) - 1,
           \A i \in 1..Len(p) : p[i].op = todo["publisher"][i + 1].op,
           todo'["viewer"] = todo["viewer"], UNCHANGED <<cpus, muxer, holding>>
    PROVE  PublisherInOrder' /\ holding # 0
<1>1. PICK n \in 0..Len(todo["publisher"]) :
        InReadCb(todo["publisher"], n) /\ (holding # 0 <=> n # 0)
  BY DEF Inv, ConnectionInv, PublisherInOrder
<1>2. DOMAIN p = 1..Len(p) /\ Len(p) \in Nat
  BY LenProperties
<1>3. 1 < n
  BY <1>1, TodoFacts, TailLemma DEF InReadCb
<1>4. n - 1 \in 0..Len(p) /\ n - 1 # 0
  BY <1>1, <1>2, <1>3, TodoFacts
<1>5. InReadCb(p, n - 1)
  <2>. SUFFICES ASSUME NEW i \in 1..Len(p)
                PROVE  /\ p[i].op \in {"send", "return"} <=> i < n - 1
                       /\ p[i].op = "release" <=> i = n - 1
    BY <1>2 DEF InReadCb
  <2>1. i + 1 \in DOMAIN todo["publisher"]
    BY <1>2, TodoFacts
  <2>2. /\ todo["publisher"][i + 1].op \in {"send", "return"} <=> i + 1 < n
        /\ todo["publisher"][i + 1].op = "release" <=> i + 1 = n
    BY <1>1, <2>1 DEF InReadCb
  <2>. QED BY <2>2
<1>6. holding # 0
  BY <1>1, <1>3
<1>7. cpus = 1 => holding \in {0, muxer}
  BY DEF Inv, ConnectionInv, PublisherInOrder
<1>. QED BY <1>4, <1>5, <1>6, <1>7, PublisherRest

\* Inside the loops of distribute() and outside read_cb, no muxer is held.
LEMMA LoopOnly ==
    ASSUME Inv, todo["publisher"] # <<>>,
           todo["publisher"][1].op \notin {"send", "return", "release"}
    PROVE  todo["publisher"] \in Seq(LoopSteps) /\ holding = 0
<1>. DEFINE p == todo["publisher"]
<1>1. PICK n \in 0..Len(p) : InReadCb(p, n) /\ (holding # 0 <=> n # 0)
  BY DEF Inv, ConnectionInv, PublisherInOrder
<1>2. 1 \in DOMAIN p /\ DOMAIN p = 1..Len(p) /\ Len(p) \in Nat
  BY TodoFacts, TailLemma
<1>3. n = 0
  BY <1>1, <1>2 DEF InReadCb
<1>4. \A i \in 1..Len(p) : p[i] \in LoopSteps
  <2>. SUFFICES ASSUME NEW i \in 1..Len(p) PROVE p[i] \in LoopSteps
    OBVIOUS
  <2>1. p[i] \in PublisherSteps
    BY TodoFacts, ElementOfSeq
  <2>2. p[i].op \notin {"send", "return", "release"}
    BY <1>1, <1>2, <1>3 DEF InReadCb
  <2>. QED BY <2>1, <2>2, PublisherKinds
<1>5. p \in Seq(LoopSteps)
  <2>1. p = [i \in 1..Len(p) |-> p[i]]
    BY TodoFacts, LenProperties
  <2>. QED BY <1>2, <1>4, <2>1
<1>. QED BY <1>1, <1>3, <1>5

\* Steps of the loops are no part of a read_cb.
LEMMA LoopZero ==
    ASSUME NEW p \in Seq(LoopSteps)
    PROVE  InReadCb(p, 0) /\ p \in Seq(PublisherSteps) /\ 0 \in 0..Len(p)
<1>1. DOMAIN p = 1..Len(p) /\ Len(p) \in Nat /\ \A i \in 1..Len(p) : p[i] \in LoopSteps
  BY LenProperties, ElementOfSeq
<1>2. LoopSteps \subseteq PublisherSteps
  BY DEF PublisherSteps
<1>3. p \in Seq(PublisherSteps)
  BY <1>2, SeqMonotonic
<1>4. \A i \in 1..Len(p) : p[i].op \notin {"send", "return", "release"}
  BY <1>1, <1>2, PublisherKinds
<1>. QED BY <1>1, <1>3, <1>4 DEF InReadCb

\* The loops go on, with the calls of some readers still to do.
LEMMA PublisherLoop ==
    ASSUME Inv, todo["publisher"] # <<>>,
           todo["publisher"][1].op \notin {"send", "return", "release"},
           NEW steps \in Seq(LoopSteps), todo'["publisher"] = steps \o Tail(todo["publisher"]),
           todo'["viewer"] = todo["viewer"], UNCHANGED <<cpus, muxer, holding>>
    PROVE  PublisherInOrder' /\ todo'["publisher"] \in Seq(PublisherSteps)
<1>1. todo["publisher"] \in Seq(LoopSteps) /\ holding = 0
  BY LoopOnly
<1>2. todo'["publisher"] \in Seq(LoopSteps)
  BY <1>1, TailLemma, ConcatLemma
<1>3. /\ InReadCb(todo'["publisher"], 0) /\ todo'["publisher"] \in Seq(PublisherSteps)
      /\ 0 \in 0..Len(todo'["publisher"])
  BY <1>2, LoopZero
<1>. QED BY <1>1, <1>3, PublisherRest

\* A write is one.
LEMMA WriteLemma ==
    ASSUME NEW name \in {"response", "header", "body", "size", "error"}, NEW of \in Scopes,
           NEW size \in Nat, NEW mem \in {"stack", "pool", "packet", "config", "static", "dead"},
           NEW scope \in Scopes, NEW is_close \in BOOLEAN
    PROVE  /\ Write(name, of, size, mem, scope, is_close) \in Writes
           /\ Write(name, of, size, mem, scope, is_close) \in WriteSteps
           /\ Write(name, of, size, mem, scope, is_close).op = "send"
           /\ Write(name, of, size, mem, scope, is_close).mem = mem
<1>1. NoBlock \in (0..MaxRequests) \X Nat
  BY ConstantsAssumption DEF NoBlock
<1>2. Write(name, of, size, mem, scope, is_close) \in Writes
  BY <1>1 DEF Write, Writes
<1>. QED BY <1>2 DEF Write, WriteSteps

\* A return is a step of a handler that writes.
LEMMA ReturnLemma ==
    ASSUME NEW scope \in Scopes
    PROVE  Return(scope) \in WriteSteps /\ Return(scope).op = "return"
<1>1. NoBlock \in (0..MaxRequests) \X Nat
  BY ConstantsAssumption DEF NoBlock
<1>. QED BY <1>1 DEF Return, WriteSteps

\* write_flv is three writes and a return.
LEMMA WriteFlvLemma ==
    ASSUME NEW of \in Scopes, NEW body \in Writes, NEW s, s = write_flv(of, body)
    PROVE  /\ s \in Seq(WriteSteps) /\ Len(s) = 4
           /\ \A i \in 1..4 : s[i].op \in {"send", "return"}
<1>. DEFINE h == Write("header", of, 1, "pool", of, FALSE)
            z == Write("size", of, 1, "stack", of, FALSE)
<1>1. h \in WriteSteps /\ h.op = "send" /\ z \in WriteSteps /\ z.op = "send"
  BY ConstantsAssumption DEF Write, Writes, WriteSteps, NoBlock
<1>2. Return(of) \in WriteSteps /\ Return(of).op = "return"
  BY ReturnLemma
<1>3. body \in WriteSteps /\ body.op = "send"
  BY DEF WriteSteps, Writes
<1>4. s = <<h, body, z, Return(of)>>
  BY DEF write_flv
<1>. HIDE DEF h, z
<1>. QED BY <1>1, <1>2, <1>3, <1>4

\* The writes of a read_cb, and its release.
LEMMA ReadCbWrites ==
    ASSUME NEW c \in Seq(PublisherSteps), NEW r \in Seq(PublisherSteps)
    PROVE  /\ Len(c) = 4 /\ (\A i \in 1..4 : c[i].op \in {"send", "return"})
           /\ Len(r) = 1 /\ r[1].op = "release"
           => /\ c \o r \in Seq(PublisherSteps) /\ Len(c \o r) = 5
              /\ \A i \in 1..4 : (c \o r)[i].op \in {"send", "return"}
              /\ (c \o r)[5].op = "release"
<1>1. /\ c \o r \in Seq(PublisherSteps) /\ Len(c \o r) = Len(c) + Len(r)
      /\ Len(c) \in Nat /\ Len(r) \in Nat
  OBVIOUS
<1>2. \A i \in 1..Len(c) : (c \o r)[i] = c[i]
  OBVIOUS
<1>3. \A i \in 1..Len(r) : (c \o r)[Len(c) + i] = r[i]
  OBVIOUS
<1>. DEFINE d == c \o r
            n == Len(c)
            m == Len(r)
<1>4. d \in Seq(PublisherSteps) /\ Len(d) = n + m
  BY <1>1
<1>5. \A i \in 1..n : d[i] = c[i]
  BY <1>2
<1>6. \A i \in 1..m : d[n + i] = r[i]
  BY <1>3
<1>. HIDE DEF d, n, m
<1>7. n = 4 /\ m = 1 => Len(d) = 5 /\ (\A i \in 1..4 : d[i] = c[i]) /\ d[5] = r[1]
  BY <1>4, <1>5, <1>6
<1>. QED BY <1>4, <1>7 DEF d, n, m

\* They come before what there is to do in the loops.
LEMMA ReadCbSteps ==
    ASSUME NEW d \in Seq(PublisherSteps), NEW t \in Seq(LoopSteps)
    PROVE  /\ Len(d) = 5 /\ (\A i \in 1..4 : d[i].op \in {"send", "return"})
           /\ d[5].op = "release"
           => d \o t \in Seq(PublisherSteps) /\ InReadCb(d \o t, 5) /\ 5 \in 0..Len(d \o t)
<1>1. t \in Seq(PublisherSteps) /\ DOMAIN t = 1..Len(t) /\ Len(t) \in Nat /\ InReadCb(t, 0)
  BY LoopZero, LenProperties
<1>2. /\ d \o t \in Seq(PublisherSteps) /\ Len(d \o t) = Len(d) + Len(t)
      /\ Len(d) \in Nat /\ Len(t) \in Nat
  BY <1>1
<1>3. DOMAIN (d \o t) = 1..Len(d \o t)
  BY <1>2, LenProperties
<1>4. \A i \in 1..Len(d) : (d \o t)[i] = d[i]
  BY <1>1
<1>5. \A i \in 1..Len(t) : (d \o t)[Len(d) + i] = t[i]
  BY <1>1
<1>. DEFINE s == d \o t
            n == Len(d)
            m == Len(t)
<1>6. /\ s \in Seq(PublisherSteps) /\ Len(s) = n + m /\ DOMAIN s = 1..(n + m)
      /\ n \in Nat /\ m \in Nat /\ DOMAIN t = 1..m
  BY <1>1, <1>2, <1>3
<1>7. \A i \in 1..n : s[i] = d[i]
  BY <1>4
<1>8. \A i \in 1..m : s[n + i] = t[i] /\ t[i].op \notin {"send", "return", "release"}
  <2>1. \A i \in 1..m : t[i].op \notin {"send", "return", "release"}
    BY <1>1 DEF InReadCb
  <2>. QED BY <1>5, <2>1
<1>. HIDE DEF s, n, m
<1>. SUFFICES ASSUME n = 5, \A i \in 1..4 : d[i].op \in {"send", "return"}, d[5].op = "release"
              PROVE  s \in Seq(PublisherSteps) /\ InReadCb(s, 5) /\ 5 \in 0..Len(s)
  BY DEF s, n
<1>9. ASSUME NEW i \in 1..(5 + m)
      PROVE  /\ s[i].op \in {"send", "return"} <=> i < 5
             /\ s[i].op = "release" <=> i = 5
  <2>1. CASE i < 5
    <3>1. s[i] = d[i] /\ i \in 1..4
      BY <1>6, <1>7, <2>1
    <3>. QED BY <2>1, <3>1
  <2>2. CASE i = 5
    BY <1>7, <2>2
  <2>3. CASE i > 5
    <3>1. i - 5 \in 1..m /\ 5 + (i - 5) = i
      BY <1>6, <2>3
    <3>2. s[i] = t[i - 5] /\ t[i - 5].op \notin {"send", "return", "release"}
      BY <1>8, <3>1
    <3>. QED BY <2>3, <3>2
  <2>. QED BY <1>6, <2>1, <2>2, <2>3
<1>. QED BY <1>6, <1>9 DEF InReadCb

\* read_cb has its muxer, and a packet to write.
LEMMA PublisherCall ==
    ASSUME Inv, todo["publisher"] # <<>>, todo["publisher"][1].op = "call",
           NEW of \in Scopes, NEW body \in Writes,
           todo'["publisher"] = (write_flv(of, body) \o << Do("release") >>)
                                \o Tail(todo["publisher"]),
           todo'["viewer"] = todo["viewer"], UNCHANGED <<cpus, muxer>>,
           holding' = muxer, muxer # 0
    PROVE  PublisherInOrder' /\ todo'["publisher"] \in Seq(PublisherSteps)
<1>1. Tail(todo["publisher"]) \in Seq(LoopSteps)
  BY LoopOnly, TailLemma
<1>2. /\ write_flv(of, body) \in Seq(PublisherSteps) /\ Len(write_flv(of, body)) = 4
      /\ \A i \in 1..4 : write_flv(of, body)[i].op \in {"send", "return"}
  <2>1. WriteSteps \subseteq PublisherSteps
    BY DEF PublisherSteps
  <2>. QED BY <2>1, WriteFlvLemma, SeqMonotonic
<1>3. /\ << Do("release") >> \in Seq(PublisherSteps) /\ Len(<< Do("release") >>) = 1
      /\ << Do("release") >>[1].op = "release"
  BY DEF Do, PublisherSteps
<1>4. /\ todo'["publisher"] \in Seq(PublisherSteps) /\ InReadCb(todo'["publisher"], 5)
      /\ 5 \in 0..Len(todo'["publisher"])
  <2>. DEFINE d == write_flv(of, body) \o << Do("release") >>
  <2>1. /\ d \in Seq(PublisherSteps) /\ Len(d) = 5
        /\ \A i \in 1..4 : d[i].op \in {"send", "return"}
        /\ d[5].op = "release"
    BY <1>2, <1>3, ReadCbWrites
  <2>. HIDE DEF d
  <2>2. todo'["publisher"] = d \o Tail(todo["publisher"])
    BY DEF d
  <2>. QED BY <1>1, <2>1, <2>2, ReadCbSteps
<1>5. (holding' # 0 <=> 5 # 0) /\ (cpus = 1 => holding' \in {0, muxer})
  OBVIOUS
<1>. QED BY <1>4, <1>5, PublisherRest

\* The steps that need no muxer and create none, and those that create none.
AnswerSteps == {e \in WriteSteps : ~NeedsMuxer(e)}
MuxerSteps == {e \in ViewerSteps : e.op # "create"}

\* What a handler writes is part of it, and creates no muxer.
LEMMA StepSets ==
    /\ WriteSteps \subseteq MuxerSteps /\ AnswerSteps \subseteq MuxerSteps
    /\ MuxerSteps \subseteq ViewerSteps
    /\ Do("create") \in ViewerSteps /\ Do("create").op = "create" /\ Do("do_read") \in MuxerSteps
    /\ Do("do_read").op = "do_read"
<1>1. \A e \in WriteSteps : e.op # "create"
  BY DEF WriteSteps, Writes
<1>. QED BY <1>1 DEF MuxerSteps, AnswerSteps, ViewerSteps, Do

\* send_response uses no muxer.
LEMMA ResponseLemma ==
    ASSUME NEW status \in {"200", "400", "404", "405", "500"}, NEW r \in Nat,
           NEW is_close \in BOOLEAN
    PROVE  send_response(status, r, is_close) \in Seq(AnswerSteps)
<1>. DEFINE of == <<status, r>>
            a == Write("response", of, 1, "stack", of, is_close)
            b == Write("body", of, 1, "static", of, TRUE)
<1>1. of \in Scopes
  BY DEF Scopes
<1>. HIDE DEF of
<1>2. /\ a \in WriteSteps /\ a.op = "send" /\ a.mem = "stack"
      /\ b \in WriteSteps /\ b.op = "send" /\ b.mem = "static"
  BY <1>1, ConstantsAssumption DEF Write, Writes, WriteSteps, NoBlock
<1>3. Return(of) \in WriteSteps /\ Return(of).op = "return"
  BY <1>1, ReturnLemma
<1>4. a \in AnswerSteps /\ b \in AnswerSteps /\ Return(of) \in AnswerSteps
  BY <1>2, <1>3 DEF AnswerSteps, NeedsMuxer
<1>5. send_response(status, r, is_close)
        = << a >> \o (IF status = "404" THEN << b >> ELSE <<>>) \o << Return(of) >>
  BY DEF send_response, of
<1>. HIDE DEF a, b
<1>6. /\ << a >> \in Seq(AnswerSteps) /\ << Return(of) >> \in Seq(AnswerSteps)
      /\ (IF status = "404" THEN << b >> ELSE <<>>) \in Seq(AnswerSteps)
  BY <1>4
<1>. QED BY <1>5, <1>6, ConcatProperties

\* start_muxing creates no muxer.
LEMMA MuxingLemma ==
    ASSUME NEW r \in Nat, NEW start \in Nat
    PROVE  start_muxing(r, start) \in Seq(MuxerSteps)
<1>. DEFINE of == <<"flv", r>>
            sc == <<"script", r>>
            cf == <<"config", r>>
            a == Write("header", of, 1, "pool", of, FALSE)
            b == Write("size", of, 1, "stack", of, FALSE)
            x == [Body(sc, 1, "stack") EXCEPT !.scope = of]
            y == Body(cf, 1, "config")
            g == With("regist", start)
<1>1. of \in Scopes /\ sc \in Scopes /\ cf \in Scopes
  BY DEF Scopes
<1>. HIDE DEF of, sc, cf
<1>2. a \in WriteSteps /\ b \in WriteSteps /\ y \in Writes
  BY <1>1, ConstantsAssumption DEF Write, Writes, WriteSteps, NoBlock, Body
<1>3. x \in Writes
  <2>1. Body(sc, 1, "stack") \in Writes
    BY <1>1, ConstantsAssumption DEF Write, Writes, NoBlock, Body
  <2>. QED BY <1>1, <2>1 DEF Writes
<1>4. g \in MuxerSteps /\ Return(of) \in WriteSteps
  BY <1>1, ReturnLemma DEF With, MuxerSteps, ViewerSteps
<1>5. start_muxing(r, start)
        = << a, b >> \o write_flv(sc, x) \o write_flv(cf, y) \o << g, Return(of) >>
  BY DEF start_muxing, of, sc, cf
<1>6. write_flv(sc, x) \in Seq(WriteSteps) /\ write_flv(cf, y) \in Seq(WriteSteps)
  BY <1>1, <1>2, <1>3, WriteFlvLemma
<1>. HIDE DEF a, b, x, y, g
<1>7. /\ << a, b >> \in Seq(MuxerSteps) /\ << g, Return(of) >> \in Seq(MuxerSteps)
      /\ write_flv(sc, x) \in Seq(MuxerSteps) /\ write_flv(cf, y) \in Seq(MuxerSteps)
  BY <1>2, <1>4, <1>6, StepSets, SeqMonotonic
<1>. QED BY <1>5, <1>7, ConcatProperties

\* What ViewerInOrder says of a handler's steps, but for the muxer.
StepsInOrder(v) ==
    /\ v \in Seq(ViewerSteps)
    /\ \A i, j \in DOMAIN v :
         v[i].op = "create" /\ (v[j].op = "create" \/ NeedsMuxer(v[j])) => i <= j
    /\ \A j \in DOMAIN v : NeedsMuxer(v[j]) => \E i \in DOMAIN v : v[i].op = "create"

\* A handler that only answers.
LEMMA AnswerOnly ==
    ASSUME NEW a \in Seq(AnswerSteps), NEW v, v = a \o << Do("do_read") >>
    PROVE  StepsInOrder(v) /\ \A i \in DOMAIN v : v[i].op # "create"
<1>. DEFINE S == {e \in MuxerSteps : ~NeedsMuxer(e)}
<1>1. AnswerSteps \subseteq S
  BY StepSets DEF AnswerSteps
<1>2. Do("do_read") \in S
  BY StepSets DEF NeedsMuxer
<1>3. a \in Seq(S) /\ << Do("do_read") >> \in Seq(S)
  BY <1>1, <1>2, SeqMonotonic
<1>4. v \in Seq(S)
  BY <1>3, ConcatProperties
<1>5. v \in Seq(ViewerSteps)
  <2>1. S \subseteq ViewerSteps
    BY StepSets
  <2>. QED BY <1>4, <2>1, SeqMonotonic
<1>6. \A i \in DOMAIN v : v[i] \in S
  BY <1>4, LenProperties, ElementOfSeq
<1>7. \A i \in DOMAIN v : v[i].op # "create" /\ ~NeedsMuxer(v[i])
  BY <1>6 DEF MuxerSteps
<1>. QED BY <1>5, <1>7 DEF StepsInOrder

\* A handler that answers, creates a muxer and uses it.
LEMMA AnswerCreate ==
    ASSUME NEW a \in Seq(AnswerSteps), NEW b \in Seq(MuxerSteps), NEW c, c = Do("create"),
           NEW v, v = a \o << c >> \o b
    PROVE  StepsInOrder(v)
<1>. DEFINE n == Len(a)
            p == a \o << c >>
<1>1. AnswerSteps \subseteq ViewerSteps
  BY StepSets
<1>2. a \in Seq(ViewerSteps) /\ << c >> \in Seq(ViewerSteps) /\ b \in Seq(ViewerSteps)
  BY <1>1, StepSets, SeqMonotonic
<1>3. /\ p \in Seq(ViewerSteps) /\ Len(p) = n + 1 /\ n \in Nat
      /\ \A i \in 1..n : p[i] = a[i]
      /\ p[n + 1] = c
  BY <1>2
<1>4. n \in Nat /\ \A i \in 1..n : a[i] \in AnswerSteps
  BY LenProperties, ElementOfSeq
<1>. HIDE DEF n, p
<1>5. /\ v \in Seq(ViewerSteps) /\ DOMAIN v = 1..(Len(p) + Len(b)) /\ Len(b) \in Nat
      /\ \A i \in 1..Len(p) : v[i] = p[i]
      /\ \A i \in 1..Len(b) : v[Len(p) + i] = b[i]
  BY <1>2, <1>3, ConcatLemma DEF p
<1>6. \A i \in 1..Len(b) : b[i].op # "create"
  BY ElementOfSeq DEF MuxerSteps
<1>7. \A i \in DOMAIN v : v[i].op = "create" <=> i = n + 1
  <2>. SUFFICES ASSUME NEW i \in DOMAIN v PROVE v[i].op = "create" <=> i = n + 1
    OBVIOUS
  <2>1. CASE i <= n
    <3>1. v[i] = a[i] /\ i \in 1..n
      BY <1>3, <1>5, <2>1
    <3>2. a[i].op # "create"
      BY <1>4, <3>1, StepSets DEF MuxerSteps
    <3>. QED BY <1>3, <2>1, <3>1, <3>2
  <2>2. CASE i = n + 1
    <3>1. i \in 1..Len(p)
      BY <1>3, <2>2
    <3>2. v[i] = p[n + 1]
      BY <1>5, <2>2, <3>1
    <3>. QED BY <1>3, <2>2, <3>2, StepSets
  <2>3. CASE i > n + 1
    <3>1. i - (n + 1) \in 1..Len(b) /\ Len(p) + (i - (n + 1)) = i
      BY <1>3, <1>5, <2>3
    <3>2. v[i] = b[i - (n + 1)]
      BY <1>5, <3>1
    <3>3. v[i].op # "create"
      BY <1>6, <3>1, <3>2
    <3>. QED BY <1>3, <2>3, <3>3
  <2>. QED BY <1>3, <1>5, <2>1, <2>2, <2>3
<1>8. \A j \in DOMAIN v : NeedsMuxer(v[j]) => n + 1 <= j
  <2>. SUFFICES ASSUME NEW j \in DOMAIN v, ~(n + 1 <= j) PROVE ~NeedsMuxer(v[j])
    OBVIOUS
  <2>1. v[j] = a[j] /\ j \in 1..n
    BY <1>3, <1>5
  <2>. QED BY <1>4, <2>1 DEF AnswerSteps
<1>9. n + 1 \in DOMAIN v
  BY <1>3, <1>5
<1>10. \A i, j \in DOMAIN v :
         v[i].op = "create" /\ (v[j].op = "create" \/ NeedsMuxer(v[j])) => i <= j
  <2>. SUFFICES ASSUME NEW i \in DOMAIN v, NEW j \in DOMAIN v,
                       v[i].op = "create", v[j].op = "create" \/ NeedsMuxer(v[j])
                PROVE  i <= j
    OBVIOUS
  <2>1. i = n + 1 /\ n + 1 <= j
    BY <1>3, <1>7, <1>8
  <2>. QED BY <2>1
<1>. QED BY <1>5, <1>7, <1>9, <1>10 DEF StepsInOrder

\* on_search_http_handler: a request that creates a muxer creates it first.
LEMMA RecvLemma ==
    ASSUME NEW kind \in Kinds, NEW r \in Nat, NEW start \in Nat,
           NEW v, v = Handler(kind, r, start) \o << Do("do_read") >>
    PROVE  /\ StepsInOrder(v)
           /\ kind = "unparsable" => \A i \in DOMAIN v : v[i].op # "create"
<1>. DEFINE d == << Do("do_read") >>
            a == send_response("200", r, FALSE)
            c == << Do("create") >>
<1>1. CASE kind \in {"unparsable", "not GET", "no source"}
  <2>1. PICK status \in {"400", "405", "404"} :
          Handler(kind, r, start) = send_response(status, r, TRUE)
    BY <1>1 DEF Handler
  <2>2. send_response(status, r, TRUE) \in Seq(AnswerSteps)
    BY ResponseLemma, TRUE \in BOOLEAN
  <2>. QED BY <2>1, <2>2, AnswerOnly
<1>2. ASSUME NEW b \in Seq(MuxerSteps), Handler(kind, r, start) = a \o c \o b
      PROVE  StepsInOrder(v)
  <2>1. a \in Seq(AnswerSteps)
    BY ResponseLemma, FALSE \in BOOLEAN
  <2>2. d \in Seq(MuxerSteps)
    BY StepSets
  <2>3. b \o d \in Seq(MuxerSteps)
    BY <2>2, ConcatProperties
  <2>4. AnswerSteps \subseteq ViewerSteps /\ c \in Seq(ViewerSteps)
    BY StepSets
  <2>5. a \in Seq(ViewerSteps) /\ b \in Seq(ViewerSteps) /\ d \in Seq(ViewerSteps)
    BY <2>1, <2>2, <2>4, StepSets, SeqMonotonic
  <2>. HIDE DEF a, d
  <2>6. a \o c \in Seq(ViewerSteps)
    BY <2>4, <2>5, ConcatProperties
  <2>7. v = a \o c \o (b \o d)
    BY <1>2, <2>5, <2>6, ConcatAssociative DEF d
  <2>. QED BY <2>1, <2>3, <2>7, AnswerCreate DEF c
<1>3. CASE kind = "lost source"
  <2>1. send_response("500", r, TRUE) \in Seq(MuxerSteps)
    BY ResponseLemma, TRUE \in BOOLEAN, StepSets, SeqMonotonic
  <2>2. Handler(kind, r, start) = a \o c \o send_response("500", r, TRUE)
    BY <1>3 DEF Handler
  <2>. QED BY <1>2, <1>3, <2>1, <2>2
<1>4. CASE kind = "flv"
  <2>1. start_muxing(r, start) \in Seq(MuxerSteps)
    BY MuxingLemma
  <2>2. Handler(kind, r, start) = a \o c \o start_muxing(r, start)
    BY <1>4 DEF Handler
  <2>. QED BY <1>2, <1>4, <2>1, <2>2
<1>. QED BY <1>1, <1>3, <1>4 DEF Kinds

-----------------------------------------------------------------------------
(* The pools of header blocks                                              *)

\* What the invariant says of the pools.
LEMMA PoolFacts ==
    ASSUME Inv
    PROVE  /\ objs_ \in [1..MaxRequests -> Seq((1..MaxRequests) \X Nat)]
           /\ requests \in 0..MaxRequests /\ MaxRequests \in Nat /\ PoolSize \in Nat
           /\ \A m \in 1..MaxRequests : Len(objs_[m]) \in Nat
           /\ \A w \in InFlight : w.block \in (0..MaxRequests) \X Nat
<1>1. /\ objs_ \in [1..MaxRequests -> Seq((1..MaxRequests) \X Nat)]
      /\ requests \in 0..MaxRequests /\ MaxRequests \in Nat /\ PoolSize \in Nat
  BY ConstantsAssumption DEF Inv, ConnectionInv, BlocksInOrder, TypeOK
<1>2. \A w \in InFlight : w \in Writes
  BY QueueFacts, RangeLemma DEF InFlight
<1>3. \A m \in 1..MaxRequests : Len(objs_[m]) \in Nat
  BY <1>1, LenProperties
<1>4. \A w \in InFlight : w.block \in (0..MaxRequests) \X Nat
  BY <1>2 DEF Writes
<1>. QED BY <1>1, <1>3, <1>4

\* A block that an unfinished write reads has left its pool for good.
LEMMA InvPooled == Inv => InFlightNotPooled
<1>. SUFFICES ASSUME Inv, NEW i \in DOMAIN (waiting \o posted), NEW w,
                     w = (waiting \o posted)[i], w.block # NoBlock,
                     NEW m \in 1..MaxRequests, w.block \in Range(objs_[m])
              PROVE  FALSE
  BY DEF InFlightNotPooled
<1>1. w \in InFlight
  <2>1. w \in Range(waiting \o posted)
    BY DEF Range
  <2>. QED BY <2>1, QueueFacts, RangeConcatenation DEF InFlight
<1>2. PICK k \in DOMAIN objs_[m] : w.block = objs_[m][k]
  BY DEF Range
<1>3. DOMAIN objs_[m] = 1..Len(objs_[m]) /\ Len(objs_[m]) \in Nat
  BY PoolFacts, LenProperties
<1>4. w.block = <<m, k>>
  BY <1>2, <1>3 DEF Inv, ConnectionInv, BlocksInOrder
<1>5. w.block[2] > Len(objs_[w.block[1]])
  BY <1>1 DEF Inv, ConnectionInv, BlocksInOrder
<1>6. k > Len(objs_[m])
  BY <1>4, <1>5
<1>. QED BY <1>2, <1>3, <1>6

\* No pool and no request changes.
LEMMA BlocksSame ==
    ASSUME Inv, QueuesStep(NoBlock), objs_' = objs_, requests' = requests,
           CreatePending' => CreatePending
    PROVE  BlocksInOrder'
<1>1. \A w \in InFlight' : w.block # NoBlock => \E v \in InFlight : v.block = w.block
  BY DEF QueuesStep
<1>. QED BY <1>1 DEF Inv, ConnectionInv, BlocksInOrder

\* A request arrives; it has no pool yet.
LEMMA BlocksRecv ==
    ASSUME Inv, QueuesStep(NoBlock), objs_' = objs_, requests' = requests + 1
    PROVE  BlocksInOrder'
<1>1. \A w \in InFlight' : w.block # NoBlock =>
        \E v \in InFlight : v.block = w.block /\ v.block # NoBlock
  BY DEF QueuesStep
<1>2. \A w \in InFlight' : w.block # NoBlock =>
        /\ w.block[1] \in 1..requests /\ w.block[2] > Len(objs_[w.block[1]])
  BY <1>1 DEF Inv, ConnectionInv, BlocksInOrder
<1>3. \A w \in InFlight' : w.block # NoBlock =>
        /\ w.block[1] \in 1..requests' /\ w.block[2] > Len(objs_'[w.block[1]])
        /\ w.block[1] # requests'
  BY <1>2, PoolFacts
<1>4. \A m \in 1..MaxRequests :
        /\ \A k \in 1..Len(objs_[m]) : objs_[m][k] = <<m, k>>
        /\ m > requests => objs_[m] = <<>>
  BY DEF Inv, ConnectionInv, BlocksInOrder
<1>5. \A m \in 1..MaxRequests : m >= requests' => objs_[m] = <<>>
  BY <1>4, PoolFacts
<1>. QED BY <1>3, <1>4, <1>5, PoolFacts DEF BlocksInOrder

\* flv_muxer::create() fills the pool of the request in progress.
LEMMA BlocksCreate ==
    ASSUME Inv, QueuesStep(NoBlock), requests' = requests, requests # 0,
           CreatePending, ~CreatePending',
           objs_' = [objs_ EXCEPT ![requests] = [k \in 1..PoolSize |-> <<requests, k>>]]
    PROVE  BlocksInOrder'
<1>. DEFINE new == [k \in 1..PoolSize |-> <<requests, k>>]
<1>1. requests \in 1..MaxRequests
  BY PoolFacts
<1>2. new \in Seq((1..MaxRequests) \X Nat) /\ Len(new) = PoolSize
  BY <1>1, PoolFacts
<1>3. \A k \in 1..Len(new) : new[k] = <<requests, k>>
  BY <1>2
<1>. HIDE DEF new
<1>4. objs_' = [objs_ EXCEPT ![requests] = new]
  BY DEF new
<1>5. objs_' \in [1..MaxRequests -> Seq((1..MaxRequests) \X Nat)]
  BY <1>1, <1>2, <1>4, PoolFacts
<1>6. \A m \in 1..MaxRequests :
        /\ objs_'[m] = IF m = requests THEN new ELSE objs_[m]
        /\ \A k \in 1..Len(objs_[m]) : objs_[m][k] = <<m, k>>
        /\ m > requests => objs_[m] = <<>>
  BY <1>1, <1>4, PoolFacts DEF Inv, ConnectionInv, BlocksInOrder
<1>7. \A m \in 1..MaxRequests :
        /\ \A k \in 1..Len(objs_'[m]) : objs_'[m][k] = <<m, k>>
        /\ m > requests => objs_'[m] = <<>>
  <2>. SUFFICES ASSUME NEW m \in 1..MaxRequests
                PROVE  /\ \A k \in 1..Len(objs_'[m]) : objs_'[m][k] = <<m, k>>
                       /\ m > requests => objs_'[m] = <<>>
    OBVIOUS
  <2>1. CASE m = requests
    <3>1. objs_'[m] = new
      BY <1>6, <2>1
    <3>2. \A k \in 1..Len(new) : new[k] = <<m, k>>
      BY <1>3, <2>1
    <3>3. ~(m > requests)
      BY <1>1, <2>1
    <3>. QED BY <3>1, <3>2, <3>3
  <2>2. CASE m # requests
    <3>1. objs_'[m] = objs_[m]
      BY <1>6, <2>2
    <3>. QED BY <1>6, <3>1
  <2>. QED BY <2>1, <2>2
<1>8. \A w \in InFlight' : w.block # NoBlock =>
        \E v \in InFlight : v.block = w.block /\ v.block # NoBlock
  BY DEF QueuesStep
<1>9. \A w \in InFlight' : w.block # NoBlock =>
        /\ w.block[1] \in 1..requests /\ w.block[2] > Len(objs_[w.block[1]])
        /\ w.block[1] # requests
  BY <1>8 DEF Inv, ConnectionInv, BlocksInOrder
<1>10. \A w \in InFlight' : w.block # NoBlock =>
        w.block[1] \in 1..requests /\ w.block[2] > Len(objs_'[w.block[1]])
  <2>. SUFFICES ASSUME NEW w \in InFlight', w.block # NoBlock
                PROVE  w.block[1] \in 1..requests /\ w.block[2] > Len(objs_'[w.block[1]])
    OBVIOUS
  <2>1. /\ w.block[1] \in 1..requests /\ w.block[2] > Len(objs_[w.block[1]])
        /\ w.block[1] # requests
    BY <1>9
  <2>2. w.block[1] \in 1..MaxRequests
    BY <2>1, PoolFacts
  <2>3. objs_'[w.block[1]] = objs_[w.block[1]]
    BY <1>6, <2>1, <2>2
  <2>. QED BY <2>1, <2>3
<1>. QED BY <1>5, <1>7, <1>10 DEF BlocksInOrder

\* A pool without its last block.
LEMMA FrontLemma ==
    ASSUME NEW S, NEW q \in Seq(S), q # <<>>
    PROVE  /\ Front(q) \in Seq(S) /\ Len(Front(q)) = Len(q) - 1
           /\ \A k \in 1..(Len(q) - 1) : Front(q)[k] = q[k]
<1>. DEFINE n == Len(q)
<1>1. n \in Nat /\ n >= 1
  BY TailLemma
<1>2. \A i \in 1..(n - 1) : q[i] \in S
  BY <1>1, ElementOfSeq
<1>. HIDE DEF n
<1>3. /\ SubSeq(q, 1, n - 1) \in Seq(S)
      /\ Len(SubSeq(q, 1, n - 1)) = IF 1 <= n - 1 THEN (n - 1) - 1 + 1 ELSE 0
      /\ \A i \in 1..((n - 1) - 1 + 1) : SubSeq(q, 1, n - 1)[i] = q[1 + i - 1]
  <2>1. 1 \in Int /\ n - 1 \in Int
    BY <1>1
  <2>. QED BY <1>2, <2>1, SubSeqProperties
<1>4. \A i \in 1..(n - 1) : SubSeq(q, 1, n - 1)[i] = q[i]
  <2>. SUFFICES ASSUME NEW i \in 1..(n - 1) PROVE SubSeq(q, 1, n - 1)[i] = q[i]
    OBVIOUS
  <2>1. i \in 1..((n - 1) - 1 + 1) /\ 1 + i - 1 = i
    BY <1>1
  <2>. QED BY <1>3, <2>1
<1>5. Len(SubSeq(q, 1, n - 1)) = n - 1
  BY <1>1, <1>3
<1>. QED BY <1>3, <1>4, <1>5 DEF Front, n

\* prepare_flv_header and prepare_flv_tag_header take the last block of a pool.
LEMMA BlocksSend ==
    ASSUME Inv, NEW m \in 1..MaxRequests, objs_[m] # <<>>, QueuesStep(Last(objs_[m])),
           objs_' = [objs_ EXCEPT ![m] = Front(@)], requests' = requests,
           CreatePending' => CreatePending
    PROVE  BlocksInOrder'
<1>. DEFINE n == Len(objs_[m])
            S == (1..MaxRequests) \X Nat
<1>1. objs_[m] \in Seq(S) /\ n \in Nat
  BY PoolFacts
<1>2. n >= 1 /\ n - 1 \in 0..n
  BY <1>1, TailLemma
<1>3. \A k \in 1..n : objs_[m][k] = <<m, k>>
  BY DEF Inv, ConnectionInv, BlocksInOrder
<1>4. Last(objs_[m]) = <<m, n>>
  BY <1>1, <1>2, <1>3 DEF Last
<1>. DEFINE f == Front(objs_[m])
<1>5. f \in Seq(S) /\ Len(f) = n - 1 /\ \A k \in 1..(n - 1) : f[k] = <<m, k>>
  <2>1. f \in Seq(S) /\ Len(f) = n - 1 /\ \A k \in 1..(n - 1) : f[k] = objs_[m][k]
    BY <1>1, FrontLemma
  <2>. HIDE DEF n, f, S
  <2>2. ASSUME NEW k \in 1..(n - 1) PROVE f[k] = <<m, k>>
    <3>1. k \in 1..n
      BY <1>1
    <3>2. f[k] = objs_[m][k]
      BY <2>1
    <3>3. objs_[m][k] = <<m, k>>
      BY <1>3, <3>1
    <3>. QED BY <3>2, <3>3
  <2>. QED BY <2>1, <2>2
<1>. HIDE DEF n, f
<1>6. \A x \in 1..MaxRequests : objs_'[x] = IF x = m THEN f ELSE objs_[x]
  BY PoolFacts DEF f
<1>7. objs_' \in [1..MaxRequests -> Seq(S)]
  BY <1>5, PoolFacts DEF f
<1>8. ~(m > requests \/ (m = requests /\ CreatePending))
  BY DEF Inv, ConnectionInv, BlocksInOrder
<1>9. m \in 1..requests
  BY <1>8, PoolFacts
<1>10. \A x \in 1..MaxRequests :
         /\ \A k \in 1..Len(objs_'[x]) : objs_'[x][k] = <<x, k>>
         /\ x > requests' \/ (x = requests' /\ CreatePending') => objs_'[x] = <<>>
         /\ Len(objs_'[x]) <= Len(objs_[x])
  <2>. SUFFICES ASSUME NEW x \in 1..MaxRequests
                PROVE  /\ \A k \in 1..Len(objs_'[x]) : objs_'[x][k] = <<x, k>>
                       /\ x > requests' \/ (x = requests' /\ CreatePending') => objs_'[x] = <<>>
                       /\ Len(objs_'[x]) <= Len(objs_[x])
    OBVIOUS
  <2>1. CASE x = m
    BY <1>2, <1>5, <1>6, <1>8, <2>1 DEF n
  <2>2. CASE x # m
    <3>1. objs_'[x] = objs_[x] /\ Len(objs_[x]) \in Nat
      BY <1>6, <2>2, PoolFacts
    <3>. QED BY <3>1 DEF Inv, ConnectionInv, BlocksInOrder
  <2>. QED BY <2>1, <2>2
<1>11. ASSUME NEW w \in InFlight', w.block # NoBlock
       PROVE  /\ w.block[1] \in 1..requests' /\ w.block[2] > Len(objs_'[w.block[1]])
              /\ CreatePending' => w.block[1] # requests'
  <2>1. CASE w.block = <<m, n>>
    <3>1. Len(objs_'[m]) = n - 1
      BY <1>5, <1>6
    <3>2. w.block[1] = m /\ w.block[2] = n
      BY <2>1
    <3>. QED BY <1>1, <1>8, <1>9, <3>1, <3>2 DEF n
  <2>2. CASE w.block # <<m, n>>
    <3>1. PICK v \in InFlight : v.block = w.block
      BY <1>4, <1>11, <2>2 DEF QueuesStep
    <3>2. /\ w.block[1] \in 1..requests /\ w.block[2] > Len(objs_[w.block[1]])
          /\ CreatePending => w.block[1] # requests
      BY <1>11, <3>1 DEF Inv, ConnectionInv, BlocksInOrder
    <3>3. w.block[1] \in 1..MaxRequests /\ w.block[2] \in Nat
      BY <3>1, <3>2, PoolFacts
    <3>4. /\ Len(objs_'[w.block[1]]) <= Len(objs_[w.block[1]])
          /\ Len(objs_'[w.block[1]]) \in Nat /\ Len(objs_[w.block[1]]) \in Nat
      BY <1>7, <1>10, <3>3, PoolFacts, LenProperties
    <3>. QED BY <3>2, <3>3, <3>4
  <2>. QED BY <2>1, <2>2
<1>. QED BY <1>7, <1>10, <1>11 DEF BlocksInOrder

-----------------------------------------------------------------------------
(* Putting the parts together                                              *)

\* The part of TypeOK that is not about the writes and the socket.
RestOK ==
    /\ cpus \in 1..MaxCpus /\ life \in {"open", "closed", "destroyed"}
    /\ reading \in BOOLEAN /\ header_ \in BOOLEAN
    /\ muxer \in 0..MaxRequests /\ holding \in 0..MaxRequests
    /\ reader \in {"none", "new", "old"} /\ orphans \subseteq 1..MaxRequests
    /\ start_pts \in [1..MaxRequests -> Nat] /\ requests \in 0..MaxRequests
    /\ DOMAIN todo = Strands
    /\ todo["viewer"] \in Seq(ViewerSteps) /\ todo["publisher"] \in Seq(PublisherSteps)
    /\ broadcast \in BOOLEAN /\ cached \in Seq(Packets) /\ tags \in 0..MaxTags
    /\ fate \subseteq Fates

\* The part of SessionInOrder that is not.
AliveOK ==
    /\ reading => Alive
    /\ todo["viewer"] # <<>> => Alive /\ requests # 0
    /\ muxer # 0 => Alive /\ header_
    /\ reader # "none" => muxer # 0

\* Both hold before the step.
LEMMA RestFacts == Inv => RestOK /\ AliveOK
BY DEF Inv, ConnectionInv, TypeOK, SessionInOrder, RestOK, AliveOK

\* The invariant, from what a step does to its parts.
LEMMA Compose ==
    ASSUME NEW new, QueuesStep(new), RestOK', AliveOK', ViewerInOrder', PublisherInOrder',
           BlocksInOrder', NoUseAfterFree', MuxerDiesOutsideLoop'
    PROVE  Inv'
<1>1. NothingLeft'
  <2>1. ~split' => waiting' = <<>> /\ \A w \in Range(posted') : w.left = 0
    BY DEF QueuesStep
  <2>2. \A i \in DOMAIN posted' : posted'[i] \in Range(posted')
    BY DEF Range
  <2>. QED BY <2>1, <2>2 DEF NothingLeft
<1>2. TypeOK'
  BY DEF QueuesStep, RestOK, TypeOK
<1>3. SessionInOrder'
  BY DEF QueuesStep, AliveOK, SessionInOrder
<1>. QED BY <1>1, <1>2, <1>3 DEF Inv, ConnectionInv

\* Nothing went wrong in the step.
LEMMA SameFate ==
    ASSUME Inv, NEW new, QueuesStep(new), cpus' = cpus,
           NEW what, fate' = fate \cup what,
           what \cap {"use after free", "died in the loop"} = {}
    PROVE  NoUseAfterFree' /\ MuxerDiesOutsideLoop'
<1>1. ~split' => ~split
  BY DEF QueuesStep
<1>2. /\ "use after free" \in fate' <=> "use after free" \in fate
      /\ "died in the loop" \in fate' <=> "died in the loop" \in fate
  OBVIOUS
<1>. QED BY <1>1, <1>2 DEF Inv, NoUseAfterFree, MuxerDiesOutsideLoop

\* What is left of the steps v, with a block for some of the returns in it.
PopOf(v, w) ==
    /\ Len(w) = Len(v) - 1
    /\ \A i \in 1..Len(w) : /\ w[i].op = v[i + 1].op
                            /\ NeedsMuxer(w[i]) <=> NeedsMuxer(v[i + 1])

\* The block to give back is noted in the steps.
LEMMA LentLemma ==
    ASSUME NEW S \in {ViewerSteps, PublisherSteps}, NEW t \in Seq(S), NEW scope,
           NEW block \in (0..MaxRequests) \X Nat
    PROVE  /\ Lent(t, scope, block) \in Seq(S) /\ Len(Lent(t, scope, block)) = Len(t)
           /\ \A i \in 1..Len(t) :
                /\ Lent(t, scope, block)[i].op = t[i].op
                /\ NeedsMuxer(Lent(t, scope, block)[i]) <=> NeedsMuxer(t[i])
<1>. DEFINE u == Lent(t, scope, block)
<1>1. DOMAIN t = 1..Len(t) /\ Len(t) \in Nat /\ \A i \in 1..Len(t) : t[i] \in S
  BY LenProperties, ElementOfSeq
<1>2. ASSUME NEW e \in S, e.op = "return", NEW d, d = [e EXCEPT !.block = block]
      PROVE  d \in S /\ d.op = "return"
  <2>1. e \in [op : {"return"}, scope : Scopes, block : (0..MaxRequests) \X Nat]
    <3>1. e \in ViewerSteps \/ e \in PublisherSteps
      BY <1>2
    <3>2. CASE e \in ViewerSteps
      BY <1>2, <3>2 DEF ViewerSteps, WriteSteps, Writes
    <3>3. CASE e \in PublisherSteps
      <4>1. e \in WriteSteps
        BY <1>2, <3>3 DEF PublisherSteps, LoopSteps
      <4>. QED BY <1>2, <4>1 DEF WriteSteps, Writes
    <3>. QED BY <3>1, <3>2, <3>3
  <2>2. /\ d \in [op : {"return"}, scope : Scopes, block : (0..MaxRequests) \X Nat]
        /\ d.op = "return"
    BY <1>2, <2>1
  <2>. QED BY <2>2 DEF ViewerSteps, PublisherSteps, WriteSteps
<1>3. u = [i \in 1..Len(t) |-> u[i]]
  BY <1>1 DEF Lent
<1>4. ASSUME NEW i \in 1..Len(t)
      PROVE  u[i] \in S /\ u[i].op = t[i].op /\ (NeedsMuxer(u[i]) <=> NeedsMuxer(t[i]))
  <2>1. CASE t[i].op = "return" /\ t[i].scope = scope
    <3>1. u[i] = [t[i] EXCEPT !.block = block]
      BY <1>1, <2>1 DEF Lent
    <3>. QED BY <1>1, <1>2, <2>1, <3>1 DEF NeedsMuxer
  <2>2. CASE ~(t[i].op = "return" /\ t[i].scope = scope)
    <3>1. u[i] = t[i]
      BY <1>1, <2>2 DEF Lent
    <3>. QED BY <1>1, <3>1
  <2>. QED BY <2>1, <2>2
<1>. HIDE DEF u
<1>5. u \in Seq(S) /\ Len(u) = Len(t)
  BY <1>1, <1>3, <1>4
<1>. QED BY <1>4, <1>5 DEF u

\* What the strand's handler has left to do, in either case.
LEMMA TailPop ==
    ASSUME NEW S \in {ViewerSteps, PublisherSteps}, NEW v \in Seq(S), v # <<>>
    PROVE  /\ Tail(v) \in Seq(S) /\ PopOf(v, Tail(v))
           /\ \A scope : \A block \in (0..MaxRequests) \X Nat :
                /\ Lent(Tail(v), scope, block) \in Seq(S)
                /\ PopOf(v, Lent(Tail(v), scope, block))
<1>1. /\ Tail(v) \in Seq(S) /\ Len(Tail(v)) = Len(v) - 1
      /\ \A i \in 1..(Len(v) - 1) : Tail(v)[i] = v[i + 1]
  BY TailLemma
<1>. DEFINE t == Tail(v)
<1>. HIDE DEF t
<1>2. PopOf(v, t)
  BY <1>1 DEF PopOf, t
<1>3. ASSUME NEW scope, NEW block \in (0..MaxRequests) \X Nat
      PROVE  Lent(t, scope, block) \in Seq(S) /\ PopOf(v, Lent(t, scope, block))
  <2>1. /\ Lent(t, scope, block) \in Seq(S) /\ Len(Lent(t, scope, block)) = Len(t)
        /\ \A i \in 1..Len(t) : /\ Lent(t, scope, block)[i].op = t[i].op
                                /\ NeedsMuxer(Lent(t, scope, block)[i]) <=> NeedsMuxer(t[i])
    <3>1. t \in Seq(S)
      BY <1>1 DEF t
    <3>. QED BY <3>1, LentLemma
  <2>. QED BY <1>2, <2>1 DEF PopOf
<1>. QED BY <1>1, <1>2, <1>3 DEF t

-----------------------------------------------------------------------------
(* The steps of a handler that writes                                      *)

\* A write of which nobody got a block.
LEMMA WeakQueues ==
    ASSUME NEW new, QueuesStep(NoBlock)
    PROVE  QueuesStep(new)
BY DEF QueuesStep

\* The write reads the block.
LEMMA BlockLemma ==
    ASSUME NEW w \in Writes, NEW b \in (0..MaxRequests) \X Nat, NEW x, x = [w EXCEPT !.block = b]
    PROVE  x \in Writes /\ x.block = b
BY DEF Writes

\* What send() does, on either strand.
LEMMA SendLemma ==
    ASSUME Inv, NEW s \in Strands, NEW S \in {ViewerSteps, PublisherSteps},
           todo[s] \in Seq(S), todo[s] # <<>>, Send(s), requests' = requests,
           NEW w \in Writes, w = Head(todo[s]), w.mem = "pool" => Pool(s) \in 1..MaxRequests
    PROVE  /\ \E new : QueuesStep(new)
           /\ (CreatePending' => CreatePending) => BlocksInOrder'
           /\ DOMAIN todo' = Strands /\ todo'[s] \in Seq(S) /\ PopOf(todo[s], todo'[s])
           /\ \A t \in Strands \ {s} : todo'[t] = todo[t]
           /\ life' = life
           /\ Alive => fate' = fate
           /\ ~Alive => fate' = fate \cup {"use after free"}
           /\ w.op = "send"
<1>. DEFINE m == Pool(s)
            pooled == w.mem = "pool" /\ objs_[m] # <<>>
            block == IF pooled THEN Last(objs_[m]) ELSE NoBlock
            x == [w EXCEPT !.block = block]
<1>1. /\ w.op = "send"
      /\ IF ~Alive
         THEN fate' = fate \cup {"use after free"}
              /\ UNCHANGED <<waiting, posted, room, due, garbled, split, life>>
         ELSE do_write(x) /\ UNCHANGED fate
      /\ objs_' = IF pooled THEN [objs_ EXCEPT ![m] = Front(@)] ELSE objs_
      /\ todo' = [todo EXCEPT ![s] = IF pooled THEN Lent(Tail(@), w.scope, block) ELSE Tail(@)]
  BY DEF Send
<1>2. block \in (0..MaxRequests) \X Nat
  <2>1. CASE pooled
    <3>1. objs_[m] \in Seq((1..MaxRequests) \X Nat) /\ objs_[m] # <<>>
      BY <2>1, PoolFacts
    <3>2. Len(objs_[m]) \in 1..Len(objs_[m])
      BY <3>1, TailLemma
    <3>3. Last(objs_[m]) \in (1..MaxRequests) \X Nat
      BY <3>1, <3>2, ElementOfSeq DEF Last
    <3>4. (1..MaxRequests) \X Nat \subseteq (0..MaxRequests) \X Nat
      BY ConstantsAssumption
    <3>. QED BY <2>1, <3>3, <3>4
  <2>2. CASE ~pooled
    BY <2>2, ConstantsAssumption DEF NoBlock
  <2>. QED BY <2>1, <2>2
<1>. HIDE DEF block, pooled, m
<1>3. x \in Writes /\ x.block = block
  BY <1>2, BlockLemma
<1>. HIDE DEF x
<1>4. QueuesStep(block) /\ life' = life
  <2>1. CASE Alive /\ life = "open"
    <3>1. Start(x, posted) /\ life' = life
      BY <1>1, <2>1 DEF do_write
    <3>. QED BY <1>3, <2>1, <3>1, QueueFacts, StartQueues
  <2>2. CASE ~(Alive /\ life = "open")
    <3>1. UNCHANGED <<waiting, posted, room, garbled, split, life>>
      BY <1>1, <2>2 DEF do_write
    <3>2. QueuesStep(NoBlock)
      BY <3>1, SameQueues, QueueFacts
    <3>. QED BY <3>1, <3>2, WeakQueues
  <2>. QED BY <2>1, <2>2
<1>5. ASSUME CreatePending' => CreatePending PROVE BlocksInOrder'
  <2>1. CASE pooled
    <3>1. objs_[m] # <<>> /\ m \in 1..MaxRequests /\ block = Last(objs_[m])
      BY <2>1 DEF pooled, block, m
    <3>2. objs_' = [objs_ EXCEPT ![m] = Front(@)]
      BY <1>1, <2>1
    <3>. QED BY <1>4, <1>5, <3>1, <3>2, BlocksSend
  <2>2. CASE ~pooled
    <3>1. block = NoBlock /\ objs_' = objs_
      BY <1>1, <2>2 DEF block
    <3>. QED BY <1>4, <1>5, <3>1, BlocksSame
  <2>. QED BY <2>1, <2>2
<1>6. /\ DOMAIN todo' = Strands /\ todo'[s] \in Seq(S) /\ PopOf(todo[s], todo'[s])
      /\ \A t \in Strands \ {s} : todo'[t] = todo[t]
  <2>1. /\ DOMAIN todo' = Strands
        /\ todo'[s] = IF pooled THEN Lent(Tail(todo[s]), w.scope, block) ELSE Tail(todo[s])
        /\ \A t \in Strands \ {s} : todo'[t] = todo[t]
    BY <1>1, TodoFacts
  <2>2. todo'[s] \in Seq(S) /\ PopOf(todo[s], todo'[s])
    <3>1. CASE pooled
      BY <1>2, <2>1, <3>1, TailPop
    <3>2. CASE ~pooled
      BY <2>1, <3>2, TailPop
    <3>. QED BY <3>1, <3>2
  <2>. QED BY <2>1, <2>2
<1>7. (Alive => fate' = fate) /\ (~Alive => fate' = fate \cup {"use after free"})
  BY <1>1
<1>. QED BY <1>1, <1>4, <1>5, <1>6, <1>7

\* recycle() deletes every block: what a call gives back leaves the pools as
\* they are.
LEMMA ReturnStepLemma ==
    ASSUME Inv, NEW s \in Strands, NEW S \in {ViewerSteps, PublisherSteps},
           todo[s] \in Seq(S), todo[s] # <<>>, ReturnStep(s)
    PROVE  /\ QueuesStep(NoBlock) /\ objs_' = objs_ /\ life' = life
           /\ DOMAIN todo' = Strands /\ todo'[s] \in Seq(S) /\ PopOf(todo[s], todo'[s])
           /\ \A t \in Strands \ {s} : todo'[t] = todo[t]
           /\ Head(todo[s]).op = "return"
<1>. DEFINE step == Head(todo[s])
            dead == {w \in InFlight : w.scope = step.scope /\ w.mem \in {"stack", "pool"}}
<1>1. /\ step.op = "return" /\ FreeMemory(dead) /\ Goes(s, <<>>)
      /\ objs_' = IF step.block = NoBlock THEN objs_
                  ELSE [objs_ EXCEPT ![Pool(s)] = recycle(@, step.block)]
      /\ UNCHANGED <<room, garbled, split, life>>
  BY DEF ReturnStep, connection
<1>2. QueuesStep(NoBlock)
  BY <1>1, FreeQueues
<1>3. objs_' = objs_
  <2>1. \A m \in DOMAIN objs_ : recycle(objs_[m], step.block) = objs_[m]
    BY PoolFacts DEF recycle, pool_size_
  <2>. QED BY <1>1, <2>1, PoolFacts
<1>4. todo'[s] = Tail(todo[s]) /\ DOMAIN todo' = Strands
  BY <1>1, GoesLemma, PopLemma
<1>. QED BY <1>1, <1>2, <1>3, <1>4, GoesLemma, TailPop

\* What stays as it is while the viewer's handler writes.
LEMMA ViewerWrites ==
    ASSUME Inv, NEW new, QueuesStep(new), todo["viewer"] # <<>>,
           todo["viewer"][1].op # "create",
           DOMAIN todo' = Strands, todo'["viewer"] \in Seq(ViewerSteps),
           PopOf(todo["viewer"], todo'["viewer"]), todo'["publisher"] = todo["publisher"],
           (CreatePending' => CreatePending) => BlocksInOrder',
           UNCHANGED <<cpus, header_, muxer, orphans, holding, source, requests, life, fate>>,
           reader' \in {"none", "new", "old"}, reader' # "none" => muxer # 0,
           start_pts' \in [1..MaxRequests -> Nat], reading' \in BOOLEAN, reading' => Alive
    PROVE  Inv'
<1>1. ViewerInOrder' /\ (CreatePending' <=> CreatePending)
  BY ViewerPop DEF PopOf
<1>2. cpus = 1 => todo["publisher"] = <<>>
  BY DEF Inv, ConnectionInv, PublisherInOrder
<1>3. PublisherInOrder'
  BY <1>2, PublisherSame
<1>4. RestOK'
  BY RestFacts DEF RestOK, source
<1>5. AliveOK'
  BY RestFacts DEF AliveOK, Alive
<1>6. NoUseAfterFree' /\ MuxerDiesOutsideLoop'
  BY SameFate, fate' = fate \cup {}
<1>. QED BY <1>1, <1>3, <1>4, <1>5, <1>6, Compose

\* The step in hand of the viewer's handler.
LEMMA ViewerHead ==
    ASSUME Inv, todo["viewer"] # <<>>
    PROVE  /\ Head(todo["viewer"]) = todo["viewer"][1] /\ todo["viewer"][1] \in ViewerSteps
           /\ 1 \in DOMAIN todo["viewer"] /\ "viewer" \in Strands /\ "publisher" \in Strands
           /\ Alive /\ requests \in 1..MaxRequests
           /\ todo["viewer"][1].op # "create" /\ NeedsMuxer(todo["viewer"][1])
              => muxer \in 1..MaxRequests
<1>1. /\ Head(todo["viewer"]) = todo["viewer"][1] /\ todo["viewer"][1] \in ViewerSteps
      /\ 1 \in DOMAIN todo["viewer"]
  BY TodoFacts, TailLemma
<1>2. Alive /\ requests \in 1..MaxRequests
  BY RestFacts, PoolFacts DEF AliveOK
<1>3. ASSUME todo["viewer"][1].op # "create", NeedsMuxer(todo["viewer"][1]), muxer = 0 PROVE FALSE
  <2>1. PICK i \in DOMAIN todo["viewer"] : todo["viewer"][i].op = "create"
    BY <1>1, <1>3 DEF Inv, ConnectionInv, ViewerInOrder
  <2>2. i <= 1
    BY <1>1, <1>3, <2>1 DEF Inv, ConnectionInv, ViewerInOrder
  <2>3. i = 1
    BY <2>1, <2>2, TodoFacts
  <2>. QED BY <1>3, <2>1, <2>3
<1>. QED BY <1>1, <1>2, <1>3, TodoFacts DEF Strands

\* send() in a request's handler.
LEMMA ViewerSend ==
    ASSUME Inv, todo["viewer"] # <<>>, Send("viewer"), UNCHANGED <<cpus, source, requests>>
    PROVE  Inv'
<1>. DEFINE w == todo["viewer"][1]
<1>1. w = Head(todo["viewer"]) /\ w \in ViewerSteps /\ w.op = "send"
  BY ViewerHead DEF Send
<1>2. w \in Writes
  BY <1>1, ViewerKinds
<1>3. w.mem = "pool" => Pool("viewer") \in 1..MaxRequests
  BY <1>1, ViewerHead DEF Pool, NeedsMuxer
<1>. HIDE DEF w
<1>4. /\ \E new : QueuesStep(new)
      /\ (CreatePending' => CreatePending) => BlocksInOrder'
      /\ DOMAIN todo' = Strands /\ todo'["viewer"] \in Seq(ViewerSteps)
      /\ PopOf(todo["viewer"], todo'["viewer"])
      /\ \A t \in Strands \ {"viewer"} : todo'[t] = todo[t]
      /\ life' = life /\ fate' = fate
  BY <1>1, <1>2, <1>3, ViewerHead, TodoFacts, SendLemma
<1>5. PICK new : QueuesStep(new)
  BY <1>4
<1>6. UNCHANGED <<reading, header_, muxer, reader, orphans, start_pts, holding>>
  BY DEF Send
<1>7. /\ reader' \in {"none", "new", "old"} /\ (reader' # "none" => muxer # 0)
      /\ start_pts' \in [1..MaxRequests -> Nat] /\ reading' \in BOOLEAN /\ (reading' => Alive)
  BY <1>6, RestFacts DEF RestOK, AliveOK
<1>8. todo["viewer"][1].op # "create"
  BY <1>1 DEF w
<1>9. todo'["publisher"] = todo["publisher"]
  BY <1>4 DEF Strands
<1>. QED BY <1>4, <1>5, <1>6, <1>7, <1>8, <1>9, ViewerWrites

\* A call in a request's handler returns.
LEMMA ViewerReturn ==
    ASSUME Inv, todo["viewer"] # <<>>, ReturnStep("viewer"), UNCHANGED <<cpus, source, requests>>
    PROVE  Inv'
<1>1. /\ QueuesStep(NoBlock) /\ objs_' = objs_ /\ life' = life
      /\ DOMAIN todo' = Strands /\ todo'["viewer"] \in Seq(ViewerSteps)
      /\ PopOf(todo["viewer"], todo'["viewer"])
      /\ \A t \in Strands \ {"viewer"} : todo'[t] = todo[t]
      /\ Head(todo["viewer"]).op = "return"
  BY ReturnStepLemma, ViewerHead, TodoFacts
<1>2. UNCHANGED <<reading, header_, muxer, reader, orphans, start_pts, holding, fate>>
  BY DEF ReturnStep, connection
<1>3. /\ reader' \in {"none", "new", "old"} /\ (reader' # "none" => muxer # 0)
      /\ start_pts' \in [1..MaxRequests -> Nat] /\ reading' \in BOOLEAN /\ (reading' => Alive)
  BY <1>2, RestFacts DEF RestOK, AliveOK
<1>4. todo["viewer"][1].op # "create" /\ todo'["publisher"] = todo["publisher"]
  BY <1>1, ViewerHead DEF Strands
<1>5. (CreatePending' => CreatePending) => BlocksInOrder'
  BY <1>1, BlocksSame
<1>. QED BY <1>1, <1>2, <1>3, <1>4, <1>5, ViewerWrites

\* A step of the viewer's handler that adds none.
LEMMA ViewerGoes ==
    ASSUME Inv, todo["viewer"] # <<>>, Goes("viewer", <<>>)
    PROVE  /\ DOMAIN todo' = Strands /\ todo'["viewer"] = Tail(todo["viewer"])
           /\ todo'["viewer"] \in Seq(ViewerSteps)
           /\ PopOf(todo["viewer"], todo'["viewer"]) /\ todo'["publisher"] = todo["publisher"]
<1>1. /\ DOMAIN todo' = Strands /\ todo'["viewer"] = <<>> \o Tail(todo["viewer"])
      /\ \A t \in Strands \ {"viewer"} : todo'[t] = todo[t]
  BY GoesLemma, ViewerHead
<1>. QED BY <1>1, PopLemma, TodoFacts, TailPop DEF Strands

\* regist_reader: the reader is that of the muxer just created.
LEMMA RegistStep ==
    ASSUME Inv, todo["viewer"] # <<>>, regist_reader, UNCHANGED <<cpus, source, requests>>
    PROVE  Inv'
<1>1. /\ Head(todo["viewer"]).op = "regist" /\ reader' = "new"
      /\ start_pts' = [start_pts EXCEPT ![muxer] = Head(todo["viewer"]).arg]
      /\ Goes("viewer", <<>>)
      /\ UNCHANGED <<life, reading, header_, muxer, objs_, orphans, holding, fate,
                     waiting, posted, room, garbled, split>>
  BY DEF regist_reader, connection, socket
<1>2. muxer # 0 /\ Head(todo["viewer"]).arg \in Nat /\ todo["viewer"][1].op # "create"
  BY <1>1, ViewerHead, ViewerKinds DEF NeedsMuxer
<1>3. start_pts' \in [1..MaxRequests -> Nat]
  BY <1>1, <1>2, RestFacts DEF RestOK
<1>4. QueuesStep(NoBlock)
  BY <1>1, SameQueues, QueueFacts
<1>5. (CreatePending' => CreatePending) => BlocksInOrder'
  BY <1>1, <1>4, BlocksSame
<1>6. reading' \in BOOLEAN /\ (reading' => Alive)
  BY <1>1, RestFacts DEF RestOK, AliveOK
<1>. QED BY <1>1, <1>2, <1>3, <1>4, <1>5, <1>6, ViewerGoes, ViewerWrites

\* do_read at the end of a request's handler.
LEMMA DoReadStep ==
    ASSUME Inv, todo["viewer"] # <<>>, do_read, UNCHANGED <<cpus, source, requests>>
    PROVE  Inv'
<1>1. /\ Head(todo["viewer"]).op = "do_read" /\ reading' = (life = "open")
      /\ Goes("viewer", <<>>)
      /\ UNCHANGED <<life, header_, muxer, objs_, reader, orphans, start_pts, holding, fate,
                     waiting, posted, room, garbled, split>>
  BY DEF do_read, muxing, socket
<1>2. todo["viewer"][1].op # "create"
  BY <1>1, ViewerHead
<1>3. QueuesStep(NoBlock)
  BY <1>1, SameQueues, QueueFacts
<1>4. (CreatePending' => CreatePending) => BlocksInOrder'
  BY <1>1, <1>3, BlocksSame
<1>5. /\ reader' \in {"none", "new", "old"} /\ (reader' # "none" => muxer # 0)
      /\ start_pts' \in [1..MaxRequests -> Nat]
  BY <1>1, RestFacts DEF RestOK, AliveOK
<1>6. reading' \in BOOLEAN /\ (reading' => Alive)
  BY <1>1 DEF Alive
<1>. QED BY <1>1, <1>2, <1>3, <1>4, <1>5, <1>6, ViewerGoes, ViewerWrites

\* The muxer of an earlier request, or of the session, goes.
LEMMA ReleaseLemma ==
    ASSUME Inv, ReleaseMuxer
    PROVE  orphans' \subseteq 1..MaxRequests /\ reader' = "none"
<1>1. reader = "old" => muxer \in 1..MaxRequests
  BY RestFacts DEF RestOK, AliveOK
<1>. QED BY <1>1, RestFacts DEF RestOK, ReleaseMuxer

\* flv_muxer::create(): once in a request, and before anything uses the muxer.
LEMMA CreateStep ==
    ASSUME Inv, todo["viewer"] # <<>>, create, UNCHANGED <<cpus, source, requests>>
    PROVE  Inv'
<1>. DEFINE v == todo["viewer"]
            u == todo'["viewer"]
<1>1. /\ v[1].op = "create" /\ ReleaseMuxer /\ muxer' = requests
      /\ objs_' = [objs_ EXCEPT ![requests] = [k \in 1..PoolSize |-> <<requests, k>>]]
      /\ Goes("viewer", <<>>)
      /\ UNCHANGED <<life, reading, header_, start_pts, holding, fate,
                     waiting, posted, room, garbled, split>>
  BY ViewerHead DEF create, connection, socket
<1>2. /\ DOMAIN todo' = Strands /\ u \in Seq(ViewerSteps)
      /\ PopOf(v, u) /\ todo'["publisher"] = todo["publisher"]
  BY <1>1, ViewerGoes
<1>3. QueuesStep(NoBlock)
  BY <1>1, SameQueues, QueueFacts
<1>4. /\ DOMAIN u = 1..Len(u) /\ Len(u) \in Nat /\ DOMAIN v = 1..Len(v) /\ Len(v) \in Nat
      /\ Len(u) = Len(v) - 1
  BY <1>2, LenProperties, TodoFacts DEF PopOf
<1>5. \A i \in DOMAIN u : u[i].op # "create"
  <2>1. \A a, b \in DOMAIN v : v[a].op = "create" /\ v[b].op = "create" => a <= b
    BY DEF Inv, ConnectionInv, ViewerInOrder
  <2>2. 1 \in DOMAIN v
    BY ViewerHead
  <2>3. \A i \in 1..Len(u) : u[i].op = v[i + 1].op
    BY <1>2 DEF PopOf
  <2>. HIDE DEF u, v
  <2>4. ASSUME NEW i \in 1..Len(u), u[i].op = "create" PROVE FALSE
    <3>1. i + 1 \in DOMAIN v
      BY <1>4
    <3>2. v[i + 1].op = "create"
      BY <2>3, <2>4
    <3>3. i + 1 <= 1
      BY <1>1, <2>1, <2>2, <3>1, <3>2
    <3>. QED BY <1>4, <3>3
  <2>. QED BY <1>4, <2>4
<1>6. CreatePending /\ ~CreatePending'
  <2>1. CreatePending
    BY <1>1, ViewerHead DEF CreatePending
  <2>. QED BY <1>5, <2>1 DEF CreatePending
<1>7. requests \in 1..MaxRequests /\ requests # 0 /\ Alive
  BY ViewerHead
<1>8. ViewerInOrder'
  BY <1>1, <1>5, <1>7 DEF ViewerInOrder
<1>9. cpus = 1 => todo["publisher"] = <<>>
  BY DEF Inv, ConnectionInv, PublisherInOrder
<1>10. PublisherInOrder'
  BY <1>1, <1>2, <1>9, PublisherSame
<1>11. BlocksInOrder'
  BY <1>1, <1>3, <1>6, <1>7, BlocksCreate
<1>12. RestOK'
  BY <1>1, <1>2, <1>7, ReleaseLemma, RestFacts DEF RestOK, source
<1>13. header_
  BY <1>1, ViewerHead DEF Inv, ConnectionInv, ViewerInOrder
<1>14. AliveOK'
  BY <1>1, <1>7, <1>13, ReleaseLemma, RestFacts DEF AliveOK, Alive
<1>15. NoUseAfterFree' /\ MuxerDiesOutsideLoop'
  BY <1>1, <1>3, SameFate, fate' = fate \cup {}
<1>. QED BY <1>3, <1>8, <1>10, <1>11, <1>12, <1>14, <1>15, Compose

-----------------------------------------------------------------------------
(* distribute()                                                            *)

\* What stays as it is in a step of distribute().
LEMMA LoopInv ==
    ASSUME Inv, NEW new, QueuesStep(new),
           DOMAIN todo' = Strands, todo'["viewer"] = todo["viewer"],
           todo'["publisher"] \in Seq(PublisherSteps), PublisherInOrder', BlocksInOrder',
           UNCHANGED <<cpus, life, reading, header_, muxer, orphans, start_pts, broadcast, tags,
                       requests>>,
           reader' \in {"none", "new", "old"}, reader' # "none" => reader # "none",
           holding' \in 0..MaxRequests, cached' \in Seq(Packets), fate' \subseteq Fates,
           NoUseAfterFree', MuxerDiesOutsideLoop'
    PROVE  Inv'
<1>1. ViewerInOrder'
  BY ViewerSame
<1>2. RestOK'
  BY RestFacts DEF RestOK
<1>3. AliveOK'
  BY RestFacts DEF AliveOK, Alive
<1>. QED BY <1>1, <1>2, <1>3, Compose

\* The step in hand of distribute().
LEMMA PublisherHead ==
    ASSUME Inv, todo["publisher"] # <<>>
    PROVE  /\ Head(todo["publisher"]) = todo["publisher"][1]
           /\ todo["publisher"][1] \in PublisherSteps
           /\ "viewer" \in Strands /\ "publisher" \in Strands
BY TodoFacts, TailLemma DEF Strands

\* The steps left after one of distribute().
LEMMA PublisherGoes ==
    ASSUME Inv, todo["publisher"] # <<>>, NEW steps, Goes("publisher", steps)
    PROVE  /\ DOMAIN todo' = Strands /\ todo'["viewer"] = todo["viewer"]
           /\ todo'["publisher"] = steps \o Tail(todo["publisher"])
BY GoesLemma, PublisherHead DEF Strands

\* What a publisher's step leaves of the types, if it does not change them.
LEMMA SameRest ==
    ASSUME Inv
    PROVE  /\ reader \in {"none", "new", "old"} /\ holding \in 0..MaxRequests
           /\ cached \in Seq(Packets) /\ fate \subseteq Fates
BY RestFacts DEF RestOK

\* send() in a read_cb: with one io thread the session is still there.
LEMMA PublisherSend ==
    ASSUME Inv, todo["publisher"] # <<>>, Send("publisher"),
           UNCHANGED <<cached, cpus, broadcast, tags, requests>>
    PROVE  Inv'
<1>. DEFINE w == todo["publisher"][1]
<1>1. w = Head(todo["publisher"]) /\ w \in PublisherSteps /\ w.op = "send"
  BY PublisherHead DEF Send
<1>2. w \in Writes
  BY <1>1, PublisherKinds
<1>3. UNCHANGED <<reading, header_, muxer, reader, orphans, start_pts, holding>>
  BY DEF Send
<1>4. holding # 0
  <2>1. PICK n \in 0..Len(todo["publisher"]) :
          InReadCb(todo["publisher"], n) /\ (holding # 0 <=> n # 0)
    BY DEF Inv, ConnectionInv, PublisherInOrder
  <2>2. 1 \in DOMAIN todo["publisher"]
    BY TodoFacts, TailLemma
  <2>3. 1 < n
    BY <1>1, <2>1, <2>2 DEF InReadCb
  <2>. QED BY <2>1, <2>3
<1>5. Pool("publisher") \in 1..MaxRequests
  BY <1>4, TodoFacts DEF Pool
<1>. HIDE DEF w
<1>6. /\ \E new : QueuesStep(new)
      /\ (CreatePending' => CreatePending) => BlocksInOrder'
      /\ DOMAIN todo' = Strands /\ todo'["publisher"] \in Seq(PublisherSteps)
      /\ PopOf(todo["publisher"], todo'["publisher"])
      /\ \A t \in Strands \ {"publisher"} : todo'[t] = todo[t]
      /\ life' = life
      /\ Alive => fate' = fate
      /\ ~Alive => fate' = fate \cup {"use after free"}
  BY <1>1, <1>2, <1>5, PublisherHead, TodoFacts, SendLemma
<1>7. PICK new : QueuesStep(new)
  BY <1>6
<1>8. todo'["viewer"] = todo["viewer"]
  BY <1>6 DEF Strands
<1>9. BlocksInOrder'
  BY <1>3, <1>6, <1>8, ViewerSame
<1>10. PublisherInOrder'
  BY <1>1, <1>3, <1>6, <1>8, PublisherPop DEF PopOf, w
<1>11. cpus = 1 => Alive
  BY <1>4, RestFacts DEF Inv, ConnectionInv, PublisherInOrder, AliveOK
<1>12. NoUseAfterFree' /\ MuxerDiesOutsideLoop'
  <2>1. CASE Alive
    BY <1>6, <1>7, <2>1, SameFate, fate' = fate \cup {}
  <2>2. CASE ~Alive
    BY <1>11, <2>2 DEF NoUseAfterFree, MuxerDiesOutsideLoop
  <2>. QED BY <2>1, <2>2
<1>13. fate' \subseteq Fates
  BY <1>6, SameRest DEF Fates
<1>. QED BY <1>3, <1>6, <1>7, <1>8, <1>9, <1>10, <1>12, <1>13, SameRest, LoopInv

\* A call in a read_cb returns.
LEMMA PublisherReturn ==
    ASSUME Inv, todo["publisher"] # <<>>, ReturnStep("publisher"),
           UNCHANGED <<cached, cpus, broadcast, tags, requests>>
    PROVE  Inv'
<1>1. /\ QueuesStep(NoBlock) /\ objs_' = objs_ /\ life' = life
      /\ DOMAIN todo' = Strands /\ todo'["publisher"] \in Seq(PublisherSteps)
      /\ PopOf(todo["publisher"], todo'["publisher"])
      /\ \A t \in Strands \ {"publisher"} : todo'[t] = todo[t]
      /\ Head(todo["publisher"]).op = "return"
  BY ReturnStepLemma, PublisherHead, TodoFacts
<1>2. UNCHANGED <<reading, header_, muxer, reader, orphans, start_pts, holding, fate>>
  BY DEF ReturnStep, connection
<1>3. todo'["viewer"] = todo["viewer"] /\ todo["publisher"][1].op = "return"
  BY <1>1, PublisherHead DEF Strands
<1>4. BlocksInOrder'
  BY <1>1, <1>2, <1>3, ViewerSame, BlocksSame
<1>5. PublisherInOrder'
  BY <1>1, <1>2, <1>3, PublisherPop DEF PopOf
<1>6. NoUseAfterFree' /\ MuxerDiesOutsideLoop'
  BY <1>1, <1>2, SameFate, fate' = fate \cup {}
<1>. QED BY <1>1, <1>2, <1>3, <1>4, <1>5, <1>6, SameRest, LoopInv

\* The calls of a reader's read_cb with some packets.
LEMMA CallsLemma ==
    ASSUME NEW pkts \in Seq(Packets), NEW m, pkts # <<>> => m \in 1..MaxRequests
    PROVE  Calls(m, pkts) \in Seq(LoopSteps)
<1>1. DOMAIN pkts = 1..Len(pkts) /\ Len(pkts) \in Nat /\ \A i \in 1..Len(pkts) : pkts[i] \in Packets
  BY LenProperties, ElementOfSeq
<1>2. ASSUME NEW i \in 1..Len(pkts)
      PROVE  With("call", [pkt |-> pkts[i], muxer |-> m]) \in LoopSteps
  <2>1. m \in 1..MaxRequests
    BY <1>1, <1>2
  <2>2. pkts[i] \in Packets
    BY <1>1
  <2>3. [pkt |-> pkts[i], muxer |-> m] \in [pkt : Packets, muxer : 1..MaxRequests]
    BY <2>1, <2>2
  <2>. QED BY <2>3 DEF With, LoopSteps
<1>. DEFINE e(i) == With("call", [pkt |-> pkts[i], muxer |-> m])
<1>3. Calls(m, pkts) = [i \in 1..Len(pkts) |-> e(i)]
  BY <1>1 DEF Calls
<1>4. \A i \in 1..Len(pkts) : e(i) \in LoopSteps
  BY <1>2
<1>. HIDE DEF e
<1>. QED BY <1>1, <1>3, <1>4

\* The calls of the readers that leave() left behind.
LEMMA OrphanLemma ==
    ASSUME Inv, NEW pkt \in Packets
    PROVE  OrphanCalls(pkt) \in Seq(LoopSteps)
<1>. DEFINE ms == SetToSeq(orphans)
            n == Cardinality(orphans)
<1>1. IsFiniteSet(orphans) /\ n \in Nat
  <2>1. IsFiniteSet(1..MaxRequests)
    BY FS_Interval, ConstantsAssumption
  <2>. QED BY <2>1, RestFacts, FS_Subset, FS_CardinalityType DEF RestOK
<1>2. \E f \in [1..n -> orphans] : IsInjective(f)
  <2>1. ExistsBijection(1..n, orphans)
    BY <1>1, FS_CardinalityType
  <2>. QED BY <2>1 DEF ExistsBijection, Bijection, Injection
<1>3. ms \in [1..n -> orphans]
  BY <1>2 DEF SetToSeq
<1>. DEFINE e(i) == With("call", [pkt |-> pkt, muxer |-> ms[i]])
<1>4. ASSUME NEW i \in 1..n PROVE e(i) \in LoopSteps
  <2>1. ms[i] \in 1..MaxRequests
    BY <1>3, RestFacts DEF RestOK
  <2>2. [pkt |-> pkt, muxer |-> ms[i]] \in [pkt : Packets, muxer : 1..MaxRequests]
    BY <2>1
  <2>. QED BY <2>2 DEF With, LoopSteps
<1>5. OrphanCalls(pkt) = [i \in 1..n |-> e(i)]
  BY <1>3 DEF OrphanCalls
<1>. HIDE DEF e, n
<1>. QED BY <1>1, <1>4, <1>5

\* A step of the loops that adds nothing but calls of readers.
LEMMA LoopStep ==
    ASSUME Inv, todo["publisher"] # <<>>,
           Head(todo["publisher"]).op \notin {"send", "return", "release"},
           NEW steps \in Seq(LoopSteps), Goes("publisher", steps), QueuesStep(NoBlock),
           UNCHANGED <<cpus, life, reading, header_, muxer, objs_, orphans, start_pts, holding,
                       broadcast, tags, requests, fate>>,
           reader' \in {"none", "new", "old"}, reader' # "none" => reader # "none",
           cached' \in Seq(Packets)
    PROVE  Inv'
<1>1. todo["publisher"][1].op \notin {"send", "return", "release"}
  BY PublisherHead
<1>2. /\ DOMAIN todo' = Strands /\ todo'["viewer"] = todo["viewer"]
      /\ todo'["publisher"] = steps \o Tail(todo["publisher"])
  BY PublisherGoes
<1>3. PublisherInOrder' /\ todo'["publisher"] \in Seq(PublisherSteps)
  BY <1>1, <1>2, PublisherLoop
<1>4. BlocksInOrder'
  BY <1>2, ViewerSame, BlocksSame
<1>5. NoUseAfterFree' /\ MuxerDiesOutsideLoop'
  BY SameFate, fate' = fate \cup {}
<1>. QED BY <1>2, <1>3, <1>4, <1>5, SameRest, LoopInv

\* The old clients are called with the packet.
LEMMA OldClientsStep ==
    ASSUME Inv, todo["publisher"] # <<>>, OldClients, UNCHANGED <<cpus, broadcast, tags, requests>>
    PROVE  Inv'
<1>. DEFINE step == Head(todo["publisher"])
            pkts == IF reader = "old" THEN << step.arg >> ELSE <<>>
            steps == OrphanCalls(step.arg) \o Calls(muxer, pkts)
<1>1. /\ step.op = "old clients" /\ Goes("publisher", steps)
      /\ UNCHANGED <<life, reading, header_, muxer, objs_, reader, orphans, start_pts, holding,
                     waiting, posted, room, garbled, split, cached, fate>>
  BY DEF OldClients, connection, muxing
<1>2. step.arg \in Packets
  BY <1>1, PublisherHead, PublisherKinds
<1>3. reader = "old" => muxer \in 1..MaxRequests
  BY RestFacts DEF RestOK, AliveOK
<1>. HIDE DEF step
<1>4. pkts \in Seq(Packets) /\ (pkts # <<>> => muxer \in 1..MaxRequests)
  BY <1>2, <1>3
<1>. HIDE DEF pkts
<1>5. OrphanCalls(step.arg) \in Seq(LoopSteps) /\ Calls(muxer, pkts) \in Seq(LoopSteps)
  BY <1>2, <1>4, OrphanLemma, CallsLemma
<1>6. steps \in Seq(LoopSteps)
  BY <1>5, ConcatProperties
<1>7. QueuesStep(NoBlock)
  BY <1>1, SameQueues, QueueFacts
<1>. HIDE DEF steps
<1>. QED BY <1>1, <1>6, <1>7, SameRest, LoopStep DEF step

\* The packet is cached, and the packets that an IDR frame displaces die.
LEMMA CacheStep ==
    ASSUME Inv, todo["publisher"] # <<>>, Cache, UNCHANGED <<cpus, broadcast, tags, requests>>
    PROVE  Inv'
<1>. DEFINE step == Head(todo["publisher"])
            dead == {w \in InFlight : w.mem = "packet" /\
                       \A i \in DOMAIN cached' : w.scope # <<"tag", cached'[i].time_stamp>>}
<1>1. /\ step.op \in {"cache", "recache"} /\ Goes("publisher", <<>>)
      /\ cached' = Append(IF step.op = "cache" THEN cached ELSE <<>>, step.arg)
      /\ UNCHANGED <<life, reading, header_, muxer, objs_, reader, orphans, start_pts, holding,
                     room, garbled, split, fate>>
  BY DEF Cache, connection, muxing
<1>2. FreeMemory(dead)
  BY DEF Cache
<1>3. \A d : FreeMemory(d) => QueuesStep(NoBlock)
  BY <1>1, FreeQueues
<1>4. QueuesStep(NoBlock)
  BY <1>2, <1>3
<1>5. step.arg \in Packets
  BY <1>1, PublisherHead, PublisherKinds
<1>6. cached' \in Seq(Packets)
  BY <1>1, <1>5, SameRest, AppendProperties
<1>7. <<>> \in Seq(LoopSteps)
  OBVIOUS
<1>. QED BY <1>1, <1>4, <1>6, <1>7, SameRest, LoopStep

\* The new client is called with every cached packet.
LEMMA NewClientsStep ==
    ASSUME Inv, todo["publisher"] # <<>>, NewClients, UNCHANGED <<cpus, broadcast, tags, requests>>
    PROVE  Inv'
<1>. DEFINE pkts == IF reader = "new" THEN cached ELSE <<>>
            steps == Calls(muxer, pkts) \o << Do("merge") >>
<1>1. /\ Head(todo["publisher"]).op = "new clients" /\ Goes("publisher", steps)
      /\ UNCHANGED <<life, reading, header_, muxer, objs_, reader, orphans, start_pts, holding,
                     waiting, posted, room, garbled, split, cached, fate>>
  BY DEF NewClients, connection, muxing
<1>2. reader = "new" => muxer \in 1..MaxRequests
  BY RestFacts DEF RestOK, AliveOK
<1>3. pkts \in Seq(Packets) /\ (pkts # <<>> => muxer \in 1..MaxRequests)
  BY <1>2, SameRest
<1>. HIDE DEF pkts
<1>4. Calls(muxer, pkts) \in Seq(LoopSteps)
  BY <1>3, CallsLemma
<1>5. << Do("merge") >> \in Seq(LoopSteps)
  BY DEF Do, LoopSteps
<1>6. steps \in Seq(LoopSteps)
  BY <1>4, <1>5, ConcatProperties
<1>7. QueuesStep(NoBlock)
  BY <1>1, SameQueues, QueueFacts
<1>. HIDE DEF steps
<1>. QED BY <1>1, <1>6, <1>7, SameRest, LoopStep

\* The new client becomes an old one.
LEMMA MergeStep ==
    ASSUME Inv, todo["publisher"] # <<>>, Merge, UNCHANGED <<cpus, broadcast, tags, requests>>
    PROVE  Inv'
<1>1. /\ Head(todo["publisher"]).op = "merge" /\ Goes("publisher", <<>>)
      /\ reader' = IF reader = "new" THEN "old" ELSE reader
      /\ UNCHANGED <<life, reading, header_, muxer, objs_, orphans, start_pts, holding,
                     waiting, posted, room, garbled, split, cached, fate>>
  BY DEF Merge, connection, socket
<1>2. QueuesStep(NoBlock)
  BY <1>1, SameQueues, QueueFacts
<1>3. <<>> \in Seq(LoopSteps)
  OBVIOUS
<1>. QED BY <1>1, <1>2, <1>3, SameRest, LoopStep

\* read_cb leaves its packet out, or locks its muxer and writes it.
LEMMA ReadCbStep ==
    ASSUME Inv, todo["publisher"] # <<>>, read_cb, UNCHANGED <<cpus, broadcast, tags, requests>>
    PROVE  Inv'
<1>. DEFINE pkt == Head(todo["publisher"]).arg.pkt
            m == Head(todo["publisher"]).arg.muxer
            of == <<"tag", pkt.time_stamp>>
            body == Body(of, pkt.size, "packet")
            writes == write_flv(of, body) \o << Do("release") >>
<1>1. /\ Head(todo["publisher"]).op = "call"
      /\ UNCHANGED <<life, reading, header_, muxer, objs_, reader, orphans, start_pts,
                     waiting, posted, room, garbled, split, cached, fate>>
  BY DEF read_cb, connection, muxing, socket
<1>2. \/ Goes("publisher", <<>>) /\ holding' = holding
      \/ Lock(m) # 0 /\ holding' = Lock(m) /\ Goes("publisher", writes)
  BY DEF read_cb
<1>3. pkt \in Packets /\ m \in 1..MaxRequests /\ todo["publisher"][1].op = "call"
  BY <1>1, PublisherHead, PublisherKinds
<1>4. QueuesStep(NoBlock)
  BY <1>1, SameQueues, QueueFacts
<1>5. CASE Goes("publisher", <<>>) /\ holding' = holding
  <2>1. <<>> \in Seq(LoopSteps)
    OBVIOUS
  <2>. QED BY <1>1, <1>4, <1>5, <2>1, SameRest, LoopStep
<1>6. CASE Lock(m) # 0 /\ holding' = Lock(m) /\ Goes("publisher", writes)
  <2>1. holding' = muxer /\ muxer # 0 /\ muxer \in 0..MaxRequests
    BY <1>6, TodoFacts DEF Lock
  <2>2. of \in Scopes /\ pkt.size \in Nat
    <3>1. ASSUME NEW x \in Packets PROVE x.time_stamp \in Nat /\ x.size \in Nat
      <4>1. 1..MaxTags \subseteq Nat /\ BodySizes \subseteq Nat
        BY ConstantsAssumption
      <4>2. x.time_stamp \in 1..MaxTags /\ x.size \in BodySizes
        BY DEF Packets
      <4>. QED BY <4>1, <4>2
    <3>2. pkt.time_stamp \in Nat /\ pkt.size \in Nat
      BY <1>3, <3>1
    <3>. HIDE DEF pkt
    <3>. QED BY <3>2 DEF Scopes
  <2>. HIDE DEF pkt, of, m
  <2>3. body \in Writes
    <3>1. ASSUME NEW o \in Scopes, NEW n \in Nat PROVE Body(o, n, "packet") \in Writes
      BY ConstantsAssumption DEF Body, Write, Writes, NoBlock
    <3>. QED BY <2>2, <3>1
  <2>. HIDE DEF body
  <2>4. /\ DOMAIN todo' = Strands /\ todo'["viewer"] = todo["viewer"]
        /\ todo'["publisher"] = writes \o Tail(todo["publisher"])
    BY <1>6, PublisherGoes
  <2>5. PublisherInOrder' /\ todo'["publisher"] \in Seq(PublisherSteps)
    BY <1>1, <1>3, <2>1, <2>2, <2>3, <2>4, PublisherCall
  <2>6. BlocksInOrder'
    BY <1>1, <1>4, <2>4, ViewerSame, BlocksSame
  <2>7. NoUseAfterFree' /\ MuxerDiesOutsideLoop'
    BY <1>1, <1>4, SameFate, fate' = fate \cup {}
  <2>. QED BY <1>1, <1>4, <2>1, <2>4, <2>5, <2>6, <2>7, SameRest, LoopInv
<1>. QED BY <1>2, <1>5, <1>6

\* What follows the release of a read_cb's muxer is a step of the loops.
LEMMA AfterRelease ==
    ASSUME Inv, todo["publisher"] # <<>>, todo["publisher"][1].op = "release",
           NEW p, p = Tail(todo["publisher"])
    PROVE  p \in Seq(LoopSteps)
<1>. DEFINE q == todo["publisher"]
<1>1. PICK n \in 0..Len(q) : InReadCb(q, n)
  BY DEF Inv, ConnectionInv, PublisherInOrder
<1>2. /\ p \in Seq(PublisherSteps) /\ Len(p) = Len(q) - 1 /\ DOMAIN p = 1..Len(p)
      /\ DOMAIN q = 1..Len(q) /\ Len(q) \in Nat /\ Len(q) >= 1
      /\ \A i \in 1..Len(p) : p[i] = q[i + 1]
  BY TodoFacts, TailLemma
<1>3. n = 1
  BY <1>1, <1>2 DEF InReadCb
<1>. HIDE DEF q
<1>4. \A i \in 1..Len(p) : p[i] \in LoopSteps
  <2>. SUFFICES ASSUME NEW i \in 1..Len(p) PROVE p[i] \in LoopSteps
    OBVIOUS
  <2>1. i + 1 \in DOMAIN q /\ i \in Nat /\ i >= 1
    BY <1>2
  <2>2. q[i + 1].op \notin {"send", "return", "release"}
    BY <1>1, <1>3, <2>1 DEF InReadCb
  <2>3. p[i] \in PublisherSteps
    BY <1>2, ElementOfSeq
  <2>. QED BY <1>2, <2>2, <2>3, PublisherKinds
<1>5. Len(p) \in Nat /\ p \in [1..Len(p) -> LoopSteps]
  BY <1>2, <1>4, LenProperties
<1>6. ASSUME NEW l \in Nat, NEW f \in [1..l -> LoopSteps] PROVE f \in Seq(LoopSteps)
  BY <1>6
<1>. QED BY <1>5, <1>6

\* strong_self goes: with one io thread the session still has the muxer.
LEMMA ReleaseStep ==
    ASSUME Inv, todo["publisher"] # <<>>, Release, UNCHANGED <<cpus, broadcast, tags, requests>>
    PROVE  Inv'
<1>1. /\ Head(todo["publisher"]).op = "release" /\ holding' = 0 /\ Goes("publisher", <<>>)
      /\ fate' = fate \cup (IF muxer = holding THEN {} ELSE {"died in the loop"})
      /\ UNCHANGED <<life, reading, header_, muxer, objs_, reader, orphans, start_pts,
                     waiting, posted, room, garbled, split, cached>>
  BY DEF Release, connection, muxing, socket
<1>2. QueuesStep(NoBlock)
  BY <1>1, SameQueues, QueueFacts
<1>3. todo["publisher"][1].op = "release"
  BY <1>1, PublisherHead
<1>4. /\ DOMAIN todo' = Strands /\ todo'["viewer"] = todo["viewer"]
      /\ todo'["publisher"] = Tail(todo["publisher"])
  BY <1>1, PublisherGoes, PopLemma, TodoFacts
<1>5. todo'["publisher"] \in Seq(LoopSteps)
  BY <1>3, <1>4, AfterRelease
<1>6. /\ InReadCb(todo'["publisher"], 0) /\ todo'["publisher"] \in Seq(PublisherSteps)
      /\ 0 \in 0..Len(todo'["publisher"])
  BY <1>5, LoopZero
<1>7. PublisherInOrder'
  BY <1>1, <1>4, <1>6, PublisherRest
<1>8. BlocksInOrder'
  BY <1>1, <1>2, <1>4, ViewerSame, BlocksSame
<1>9. cpus = 1 => muxer = holding
  <2>1. PICK n \in 0..Len(todo["publisher"]) :
          InReadCb(todo["publisher"], n) /\ (holding # 0 <=> n # 0)
    BY DEF Inv, ConnectionInv, PublisherInOrder
  <2>2. 1 \in DOMAIN todo["publisher"]
    BY TodoFacts, TailLemma
  <2>3. holding # 0
    BY <1>3, <2>1, <2>2 DEF InReadCb
  <2>. QED BY <2>3 DEF Inv, ConnectionInv, PublisherInOrder
<1>10. NoUseAfterFree' /\ MuxerDiesOutsideLoop'
  <2>1. cpus = 1 => fate' = fate
    BY <1>1, <1>9
  <2>. QED BY <1>1, <2>1 DEF Inv, NoUseAfterFree, MuxerDiesOutsideLoop
<1>11. fate' \subseteq Fates /\ holding' \in 0..MaxRequests
  <2>1. fate \subseteq Fates /\ "died in the loop" \in Fates
    BY SameRest DEF Fates
  <2>2. fate' \subseteq Fates
    BY <1>1, <2>1
  <2>3. 0 \in 0..MaxRequests
    BY ConstantsAssumption
  <2>4. holding' \in 0..MaxRequests
    BY <1>1, <2>3
  <2>. QED BY <2>2, <2>4
<1>. QED BY <1>1, <1>2, <1>4, <1>6, <1>7, <1>8, <1>10, <1>11, SameRest, LoopInv

-----------------------------------------------------------------------------
(* The session, the socket and the source                                  *)

\* A step in which no handler goes on, and that keeps the muxer.
LEMMA IdleInv ==
    ASSUME Inv, QueuesStep(NoBlock),
           UNCHANGED <<cpus, header_, muxer, objs_, start_pts, holding, todo, tags, requests>>,
           life' \in {"open", "closed", "destroyed"}, life' = "destroyed" => ~Alive,
           reading' \in BOOLEAN, reading' => reading,
           reader' \in {"none", "new", "old"}, reader' # "none" => reader # "none",
           orphans' \subseteq 1..MaxRequests, broadcast' \in BOOLEAN, cached' \in Seq(Packets),
           fate' \subseteq Fates, NoUseAfterFree', MuxerDiesOutsideLoop'
    PROVE  Inv'
<1>1. ViewerInOrder' /\ (CreatePending' <=> CreatePending)
  BY ViewerSame
<1>2. cpus = 1 => todo'["viewer"] = <<>> \/ todo["publisher"] = <<>>
  BY DEF Inv, ConnectionInv, PublisherInOrder
<1>3. PublisherInOrder'
  BY <1>2, PublisherSame
<1>4. BlocksInOrder'
  BY <1>1, BlocksSame
<1>5. RestOK'
  BY RestFacts DEF RestOK
<1>6. AliveOK'
  <2>1. Alive => Alive'
    BY DEF Alive
  <2>. QED BY <2>1, RestFacts DEF AliveOK
<1>. QED BY <1>1, <1>3, <1>4, <1>5, <1>6, Compose

\* What stays as it was in a step of the socket.
LEMMA SameOther ==
    ASSUME Inv
    PROVE  /\ life \in {"open", "closed", "destroyed"} /\ reading \in BOOLEAN
           /\ reader \in {"none", "new", "old"} /\ orphans \subseteq 1..MaxRequests
           /\ broadcast \in BOOLEAN /\ cached \in Seq(Packets) /\ fate \subseteq Fates
BY RestFacts DEF RestOK

\* The kernel takes more of a waiting write.
LEMMA WritableStep ==
    ASSUME Inv, Writable
    PROVE  Inv'
<1>1. /\ UNCHANGED <<cpus, life, reading, header_, muxer, objs_, reader, orphans, start_pts,
                     holding, todo, broadcast, cached, tags, requests, fate>>
  BY DEF Writable, connection, muxing, source
<1>2. QueuesStep(NoBlock)
  BY WritableQueues
<1>3. NoUseAfterFree' /\ MuxerDiesOutsideLoop'
  BY <1>1, <1>2, SameFate, fate' = fate \cup {}
<1>. QED BY <1>1, <1>2, <1>3, SameOther, IdleInv DEF Alive

\* The viewer reads.
LEMMA DrainStep ==
    ASSUME Inv, Drain
    PROVE  Inv'
<1>1. /\ UNCHANGED <<cpus, life, reading, header_, muxer, objs_, reader, orphans, start_pts,
                     holding, todo, broadcast, cached, tags, requests, fate,
                     waiting, posted, garbled, split>>
      /\ room' = SendBuffer
  BY DEF Drain, connection, muxing, source
<1>2. QueuesStep(NoBlock)
  <2>1. SendBuffer \in 0..SendBuffer
    BY ConstantsAssumption
  <2>. QED BY <1>1, <2>1, SameQueues
<1>3. NoUseAfterFree' /\ MuxerDiesOutsideLoop'
  BY <1>1, <1>2, SameFate, fate' = fate \cup {}
<1>. QED BY <1>1, <1>2, <1>3, SameOther, IdleInv DEF Alive

\* The parser throws: the session is shut down, with its socket closed.
LEMMA ThrowsStep ==
    ASSUME Inv, ParserThrows
    PROVE  Inv'
<1>1. /\ UNCHANGED <<cpus, header_, muxer, objs_, reader, orphans, start_pts,
                     holding, todo, broadcast, cached, tags, requests, fate,
                     room, garbled, split>>
      /\ life = "open" /\ life' = "closed" /\ reading' = FALSE
      /\ waiting' = <<>> /\ posted' = Aborted(posted)
  BY DEF ParserThrows, muxing, source
<1>2. QueuesStep(NoBlock)
  BY <1>1, AbortQueues
<1>3. NoUseAfterFree' /\ MuxerDiesOutsideLoop'
  BY <1>1, <1>2, SameFate, fate' = fate \cup {}
<1>. QED BY <1>1, <1>2, <1>3, SameOther, IdleInv

\* The source goes, and detaches its readers.
LEMMA DetachStep ==
    ASSUME Inv, detach_all_readers
    PROVE  Inv'
<1>. DEFINE dead == {w \in InFlight : w.mem \in {"packet", "config"}}
<1>1. /\ UNCHANGED <<cpus, reading, header_, muxer, objs_, start_pts,
                     holding, todo, tags, requests, fate, room, garbled, split>>
      /\ reader' = "none" /\ orphans' = {} /\ broadcast' = FALSE /\ cached' = <<>>
  BY DEF detach_all_readers
<1>2. \/ /\ life = "open" /\ life' = "closed" /\ waiting' = <<>> /\ posted' = Aborted(posted)
      \/ life' = life /\ FreeMemory(dead)
  BY DEF detach_all_readers
<1>. HIDE DEF dead
<1>3. QueuesStep(NoBlock)
  BY <1>1, <1>2, AbortQueues, FreeQueues
<1>4. life' \in {"open", "closed", "destroyed"} /\ (life' = "destroyed" => ~Alive)
  BY <1>2, SameOther DEF Alive
<1>5. NoUseAfterFree' /\ MuxerDiesOutsideLoop'
  BY <1>1, <1>3, SameFate, fate' = fate \cup {}
<1>6. <<>> \in Seq(Packets)
  OBVIOUS
<1>. QED BY <1>1, <1>3, <1>4, <1>5, <1>6, SameOther, IdleInv

\* Zero is no muxer's number, and nothing of a write.
LEMMA ZeroLemma ==
    /\ 0 \in 0..MaxRequests
    /\ \A n : n > 0 => n # 0
<1>1. 0 \in 0..MaxRequests
  BY ConstantsAssumption
<1>2. ASSUME NEW n, n > 0 PROVE n # 0
  BY <1>2
<1>. QED BY <1>1, <1>2

\* A handler starts on a strand that has none; with one io thread, there is
\* none at all then.
LEMMA CanRunLemma ==
    ASSUME Inv, NEW s, CanRun(s)
    PROVE  /\ todo[s] = <<>>
           /\ cpus = 1 => todo["viewer"] = <<>> /\ todo["publisher"] = <<>>
<1>1. TypeOK /\ ThreadFree /\ todo[s] = <<>>
  BY DEF CanRun, Inv, ConnectionInv
<1>. QED BY <1>1, OneThreadFree

\* session_manager::stop, from a handler on the viewer's strand: with one io
\* thread no read_cb holds the muxer that goes.
LEMMA StopStep ==
    ASSUME Inv, CanRun("viewer"), NEW q \in Seq(Writes), Range(q) \subseteq Range(posted),
           NEW what, what \subseteq {"cut off"}, StopSession(q, what),
           UNCHANGED <<cpus, holding, todo, source, requests>>
    PROVE  Inv'
<1>. DEFINE crash == IF header_ THEN {} ELSE {"crashed"}
<1>1. /\ life' = "destroyed" /\ reading' = FALSE /\ ReleaseMuxer /\ muxer' = 0
      /\ fate' = fate \cup what \cup crash
      /\ UNCHANGED <<header_, objs_, start_pts, broadcast, cached, tags>>
  BY DEF StopSession, source
<1>2. QueuesStep(NoBlock)
  BY StopQueues
<1>3. todo["viewer"] = <<>> /\ (cpus = 1 => todo["publisher"] = <<>>)
  BY CanRunLemma
<1>4. ViewerInOrder' /\ (CreatePending' <=> CreatePending)
  BY <1>1, <1>3, ViewerSame
<1>5. PublisherInOrder'
  BY <1>3, PublisherSame
<1>6. BlocksInOrder'
  BY <1>1, <1>2, <1>4, BlocksSame
<1>7. orphans' \subseteq 1..MaxRequests /\ reader' = "none"
  BY <1>1, ReleaseLemma
<1>8. fate' \subseteq Fates
  <2>1. fate \subseteq Fates
    BY SameOther
  <2>2. {"cut off", "crashed"} \subseteq Fates
    BY DEF Fates
  <2>. QED BY <1>1, <2>1, <2>2
<1>9. NoUseAfterFree' /\ MuxerDiesOutsideLoop'
  <2>1. fate' = fate \cup (what \cup crash)
    BY <1>1
  <2>2. (what \cup crash) \cap {"use after free", "died in the loop"} = {}
    OBVIOUS
  <2>. HIDE DEF crash
  <2>. QED BY <1>2, <2>1, <2>2, SameFate
<1>10. RestOK'
  BY <1>1, <1>7, <1>8, ZeroLemma, RestFacts DEF RestOK
<1>11. AliveOK'
  BY <1>1, <1>3, <1>7 DEF AliveOK
<1>. QED BY <1>2, <1>4, <1>5, <1>6, <1>9, <1>10, <1>11, Compose

\* The read fails.
LEMMA ReadFailsStep ==
    ASSUME Inv, ReadFails
    PROVE  Inv'
<1>1. /\ CanRun("viewer") /\ StopSession(posted, {})
      /\ UNCHANGED <<cpus, holding, todo, source, requests>>
  BY DEF ReadFails
<1>. QED BY <1>1, QueueFacts, StopStep, {} \subseteq {"cut off"}

\* A completion: the write goes on, the session is stopped, or it was all.
LEMMA WriteDoneStep ==
    ASSUME Inv, WriteDone
    PROVE  Inv'
<1>. DEFINE w == Head(posted)
            what == IF life = "open" /\ due # <<>> THEN {"cut off"} ELSE {}
            same == UNCHANGED <<life, reading, header_, muxer, objs_, reader, orphans, start_pts>>
<1>1. /\ CanRun("viewer") /\ posted # <<>>
      /\ UNCHANGED <<cpus, holding, todo, broadcast, cached, tags, requests>>
      /\ UNCHANGED <<cpus, holding, todo, source, requests>>
  BY DEF WriteDone, source
<1>2. \/ /\ w.left > 0 /\ same /\ life = "destroyed" /\ fate' = fate \cup {"use after free"}
         /\ posted' = Tail(posted) /\ UNCHANGED <<waiting, room, garbled, split>>
      \/ /\ w.left > 0 /\ same /\ fate' = fate /\ life = "closed"
         /\ posted' = Append(Tail(posted), Failed) /\ UNCHANGED <<waiting, room, garbled, split>>
      \/ w.left > 0 /\ same /\ fate' = fate /\ life = "open" /\ Start(w, Tail(posted))
      \/ StopSession(Tail(posted), what)
      \/ /\ same /\ fate' = fate
         /\ posted' = Tail(posted) /\ UNCHANGED <<waiting, room, garbled, split>>
  BY DEF WriteDone, connection, muxing
<1>3. /\ w \in Range(posted) /\ w \in Writes /\ Tail(posted) \in Seq(Writes)
      /\ Range(Tail(posted)) \subseteq Range(posted)
  BY <1>1, QueueFacts, RangeLemma
<1>. HIDE DEF w
<1>4. ASSUME same, fate' = fate, QueuesStep(NoBlock)
      PROVE  Inv'
  <2>1. NoUseAfterFree' /\ MuxerDiesOutsideLoop'
    BY <1>1, <1>4, SameFate, fate' = fate \cup {}
  <2>. QED BY <1>1, <1>4, <2>1, SameOther, IdleInv DEF Alive
<1>5. CASE /\ w.left > 0 /\ same /\ life = "destroyed" /\ fate' = fate \cup {"use after free"}
           /\ posted' = Tail(posted) /\ UNCHANGED <<waiting, room, garbled, split>>
  <2>1. QueuesStep(NoBlock)
    BY <1>1, <1>5, PopQueues
  <2>2. split
    <3>1. w.left # 0
      BY <1>5, ZeroLemma
    <3>2. ~split => \A v \in Range(posted) : v.left = 0
      BY QueueFacts
    <3>. QED BY <1>3, <3>1, <3>2
  <2>3. "died in the loop" \in fate' <=> "died in the loop" \in fate
    BY <1>5
  <2>4. NoUseAfterFree' /\ MuxerDiesOutsideLoop'
    BY <1>1, <1>5, <2>2, <2>3 DEF Inv, NoUseAfterFree, MuxerDiesOutsideLoop
  <2>5. fate' \subseteq Fates
    <3>1. fate \subseteq Fates /\ "use after free" \in Fates
      BY SameOther DEF Fates
    <3>. QED BY <1>5, <3>1
  <2>. QED BY <1>1, <1>5, <2>1, <2>4, <2>5, SameOther, IdleInv DEF Alive
<1>6. CASE /\ w.left > 0 /\ same /\ fate' = fate /\ life = "closed"
           /\ posted' = Append(Tail(posted), Failed) /\ UNCHANGED <<waiting, room, garbled, split>>
  <2>1. /\ posted' \in Seq(Writes) /\ Range(posted') = Range(Tail(posted)) \cup {Failed}
    <3>1. \A v \in Writes : /\ Append(Tail(posted), v) \in Seq(Writes)
                             /\ Range(Append(Tail(posted), v)) = Range(Tail(posted)) \cup {v}
      BY <1>3, RangeLemma
    <3>. QED BY <1>6, <3>1, FailedLemma
  <2>2. QueuesStep(NoBlock)
    BY <1>3, <1>6, <2>1, QueueFacts, FailedLemma DEF QueuesStep, InFlight
  <2>. QED BY <1>4, <1>6, <2>2
<1>7. CASE w.left > 0 /\ same /\ fate' = fate /\ life = "open" /\ Start(w, Tail(posted))
  <2>1. QueuesStep(w.block)
    BY <1>3, <1>7, StartQueues
  <2>2. \E v \in InFlight : v.block = w.block
    BY <1>3 DEF InFlight
  <2>3. QueuesStep(NoBlock)
    BY <2>1, <2>2 DEF QueuesStep
  <2>. QED BY <1>4, <1>7, <2>3
<1>8. CASE StopSession(Tail(posted), what)
  <2>1. what \subseteq {"cut off"}
    OBVIOUS
  <2>. HIDE DEF what
  <2>. QED BY <1>1, <1>3, <1>8, <2>1, StopStep
<1>9. CASE /\ same /\ fate' = fate
           /\ posted' = Tail(posted) /\ UNCHANGED <<waiting, room, garbled, split>>
  <2>1. QueuesStep(NoBlock)
    BY <1>1, <1>9, PopQueues
  <2>. QED BY <1>4, <1>9, <2>1
<1>. HIDE DEF same, what
<1>. QED BY <1>2, <1>5, <1>6, <1>7, <1>8, <1>9

\* A request arrives, and its handler starts.
LEMMA RecvStep ==
    ASSUME Inv, NEW kind \in Kinds, NEW start \in {0, 2}, on_recv(kind, start)
    PROVE  Inv'
<1>. DEFINE r == requests + 1
            v == Handler(kind, r, start) \o << Do("do_read") >>
<1>1. /\ CanRun("viewer") /\ life = "open" /\ requests < (IF cpus = 1 THEN MaxRequests ELSE 1)
      /\ requests' = r /\ reading' = FALSE /\ header_' = (header_ \/ kind # "unparsable")
      /\ todo' = [todo EXCEPT !["viewer"] = v]
      /\ UNCHANGED <<cpus, life, muxer, objs_, reader, orphans, start_pts, holding,
                     waiting, posted, room, garbled, split, broadcast, cached, tags, fate>>
  BY DEF on_recv, muxing, source
<1>2. r \in Nat /\ r \in 0..MaxRequests /\ r # 0 /\ start \in Nat
  <2>1. requests \in Nat /\ MaxRequests \in Nat /\ MaxRequests >= 1
    BY PoolFacts, ConstantsAssumption
  <2>2. requests < MaxRequests
    BY <1>1, <2>1
  <2>. QED BY <2>1, <2>2
<1>3. StepsInOrder(v) /\ (kind = "unparsable" => \A i \in DOMAIN v : v[i].op # "create")
  BY <1>2, RecvLemma
<1>. HIDE DEF v, r
<1>4. DOMAIN todo' = Strands /\ todo'["viewer"] = v /\ todo'["publisher"] = todo["publisher"]
  BY <1>1, TodoFacts DEF Strands
<1>5. header_' \in BOOLEAN /\ (header_ => header_') /\ (kind # "unparsable" => header_')
  BY <1>1, RestFacts, Zenon DEF RestOK
<1>6. ViewerInOrder'
  <2>1. \A i, j \in DOMAIN v :
          v[i].op = "create" /\ (v[j].op = "create" \/ NeedsMuxer(v[j])) => i <= j
    BY <1>3 DEF StepsInOrder
  <2>2. \A j \in DOMAIN v : NeedsMuxer(v[j]) => \E i \in DOMAIN v : v[i].op = "create"
    BY <1>3 DEF StepsInOrder
  <2>3. \A i \in DOMAIN v : v[i].op = "create" => header_'
    BY <1>3, <1>5
  <2>4. ASSUME NEW u, todo'["viewer"] = u,
               \A i, j \in DOMAIN u :
                 u[i].op = "create" /\ (u[j].op = "create" \/ NeedsMuxer(u[j])) => i <= j,
               \A j \in DOMAIN u : NeedsMuxer(u[j]) => \E i \in DOMAIN u : u[i].op = "create",
               \A i \in DOMAIN u : u[i].op = "create" => header_'
        PROVE  ViewerInOrder'
    BY <2>4 DEF ViewerInOrder, NeedsMuxer
  <2>. QED BY <1>4, <2>1, <2>2, <2>3, <2>4
<1>7. cpus = 1 => todo["publisher"] = <<>>
  BY <1>1, CanRunLemma
<1>8. PublisherInOrder'
  BY <1>1, <1>4, <1>7, PublisherSame
<1>9. QueuesStep(NoBlock)
  BY <1>1, SameQueues, QueueFacts
<1>10. BlocksInOrder'
  BY <1>1, <1>9, BlocksRecv DEF r
<1>11. NoUseAfterFree' /\ MuxerDiesOutsideLoop'
  BY <1>1, <1>9, SameFate, fate' = fate \cup {}
<1>12. v \in Seq(ViewerSteps)
  BY <1>3 DEF StepsInOrder
<1>13. RestOK'
  BY <1>1, <1>2, <1>4, <1>5, <1>12, RestFacts DEF RestOK
<1>14. AliveOK'
  BY <1>1, <1>2, <1>5, RestFacts DEF AliveOK, Alive
<1>. QED BY <1>6, <1>8, <1>9, <1>10, <1>11, <1>13, <1>14, Compose

\* The next packet of the broadcast.
LEMMA NextPacket ==
    ASSUME NEW t \in 0..MaxTags, t < MaxTags, NEW size \in BodySizes
    PROVE  t + 1 \in 0..MaxTags /\ [time_stamp |-> t + 1, size |-> size] \in Packets
<1>1. t + 1 \in 0..MaxTags /\ t + 1 \in 1..MaxTags
  BY ConstantsAssumption
<1>. QED BY <1>1 DEF Packets

\* A packet is distributed: nothing of a read_cb is to be done yet.
LEMMA DistributeStep ==
    ASSUME Inv, NEW size \in BodySizes, NEW is_idr \in BOOLEAN, distribute(size, is_idr)
    PROVE  Inv'
<1>. DEFINE pkt == [time_stamp |-> tags + 1, size |-> size]
            a == With("old clients", pkt)
            b == With(IF is_idr THEN "recache" ELSE "cache", pkt)
            c == Do("new clients")
<1>1. /\ CanRun("publisher") /\ tags < MaxTags /\ tags' = tags + 1
      /\ todo' = [todo EXCEPT !["publisher"] = <<a, b, c>>]
      /\ UNCHANGED <<cpus, life, reading, header_, muxer, objs_, reader, orphans, start_pts,
                     holding, waiting, posted, room, garbled, split, broadcast, cached, requests,
                     fate>>
  BY DEF distribute, connection, muxing, socket
<1>2. tags' \in 0..MaxTags /\ pkt \in Packets
  <2>1. tags \in 0..MaxTags
    BY RestFacts DEF RestOK
  <2>. QED BY <1>1, <2>1, NextPacket
<1>. HIDE DEF pkt
<1>3. a \in LoopSteps /\ b \in LoopSteps /\ c \in LoopSteps
  BY <1>2 DEF LoopSteps, With, Do
<1>. HIDE DEF a, b, c
<1>4. <<a, b, c>> \in Seq(LoopSteps)
  BY <1>3
<1>5. DOMAIN todo' = Strands /\ todo'["viewer"] = todo["viewer"] /\ todo'["publisher"] = <<a, b, c>>
  BY <1>1, TodoFacts DEF Strands
<1>6. /\ InReadCb(todo'["publisher"], 0) /\ todo'["publisher"] \in Seq(PublisherSteps)
      /\ 0 \in 0..Len(todo'["publisher"])
  BY <1>4, <1>5, LoopZero
<1>7. todo["publisher"] = <<>> /\ (cpus = 1 => todo["viewer"] = <<>>)
  BY <1>1, CanRunLemma
<1>8. holding = 0
  <2>1. PICK n \in 0..Len(todo["publisher"]) : holding # 0 <=> n # 0
    BY DEF Inv, ConnectionInv, PublisherInOrder
  <2>. QED BY <1>7, <2>1
<1>9. PublisherInOrder'
  BY <1>1, <1>5, <1>6, <1>7, <1>8 DEF PublisherInOrder, InReadCb
<1>10. QueuesStep(NoBlock)
  BY <1>1, SameQueues, QueueFacts
<1>11. ViewerInOrder' /\ (CreatePending' <=> CreatePending)
  BY <1>1, <1>5, ViewerSame
<1>12. BlocksInOrder'
  BY <1>1, <1>10, <1>11, BlocksSame
<1>13. NoUseAfterFree' /\ MuxerDiesOutsideLoop'
  BY <1>1, <1>10, SameFate, fate' = fate \cup {}
<1>14. RestOK'
  BY <1>1, <1>2, <1>5, <1>6, RestFacts DEF RestOK
<1>15. AliveOK'
  BY <1>1, <1>5, RestFacts DEF AliveOK, Alive
<1>. QED BY <1>9, <1>10, <1>11, <1>12, <1>13, <1>14, <1>15, Compose

-----------------------------------------------------------------------------
(* The invariant, and what follows from it                                 *)

\* A new connection.
LEMMA InitInv == Init => Inv
<1>. SUFFICES ASSUME Init PROVE Inv
  OBVIOUS
<1>1. todo["viewer"] = <<>> /\ todo["publisher"] = <<>> /\ DOMAIN todo = Strands
  BY DEF Init, Strands
<1>2. /\ 0 \in 0..MaxRequests /\ 0 \in 0..MaxTags /\ SendBuffer \in 0..SendBuffer
  BY ConstantsAssumption
<1>3. TypeOK
  <2>1. cpus \in 1..MaxCpus /\ room \in 0..SendBuffer
    BY <1>2 DEF Init
  <2>2. start_pts \in [1..MaxRequests -> Nat]
    BY DEF Init
  <2>3. orphans \subseteq 1..MaxRequests /\ fate \subseteq Fates
    BY DEF Init
  <2>4. /\ todo["viewer"] \in Seq(ViewerSteps) /\ todo["publisher"] \in Seq(PublisherSteps)
        /\ waiting \in Seq(Writes) /\ posted \in Seq(Writes) /\ cached \in Seq(Packets)
    <3>1. \A S : <<>> \in Seq(S)
      OBVIOUS
    <3>2. waiting = <<>> /\ posted = <<>> /\ cached = <<>>
      BY DEF Init
    <3>. QED BY <1>1, <3>1, <3>2
  <2>5. /\ life \in {"open", "closed", "destroyed"} /\ reader \in {"none", "new", "old"}
        /\ muxer = 0 /\ holding = 0 /\ requests = 0 /\ tags = 0
        /\ reading \in BOOLEAN /\ header_ \in BOOLEAN /\ broadcast \in BOOLEAN
        /\ garbled \in BOOLEAN /\ split \in BOOLEAN
    BY DEF Init
  <2>. QED BY <1>1, <1>2, <2>1, <2>2, <2>3, <2>4, <2>5 DEF TypeOK
<1>4. SessionInOrder /\ ViewerInOrder
  <2>1. /\ waiting = <<>> /\ life = "open" /\ muxer = 0 /\ reader = "none"
        /\ DOMAIN todo["viewer"] = {}
    BY <1>1 DEF Init
  <2>. QED BY <1>1, <2>1 DEF SessionInOrder, ViewerInOrder, Alive
<1>5. PublisherInOrder
  BY <1>1 DEF Init, PublisherInOrder, InReadCb
<1>6. BlocksInOrder
  <2>1. InFlight = {}
    BY RangeLemma DEF Init, InFlight, Range
  <2>2. \A m \in 1..MaxRequests : objs_[m] = <<>>
    BY DEF Init
  <2>3. objs_ \in [1..MaxRequests -> Seq((1..MaxRequests) \X Nat)]
    BY DEF Init
  <2>. QED BY <2>1, <2>2, <2>3 DEF BlocksInOrder
<1>7. NothingLeft
  BY DEF Init, NothingLeft
<1>8. NoUseAfterFree /\ MuxerDiesOutsideLoop
  BY DEF Init, NoUseAfterFree, MuxerDiesOutsideLoop
<1>. QED BY <1>3, <1>4, <1>5, <1>6, <1>7, <1>8 DEF Inv, ConnectionInv

\* Nothing happens.
LEMMA StutterInv == Inv /\ UNCHANGED vars => Inv'
<1>. SUFFICES ASSUME Inv, UNCHANGED vars PROVE Inv'
  OBVIOUS
<1>1. UNCHANGED <<cpus, life, reading, header_, muxer, objs_, reader, orphans, start_pts,
                  holding, todo, waiting, posted, room, garbled, split, broadcast, cached, tags,
                  requests, fate>>
  BY DEF vars, connection, muxing, socket, source
<1>2. QueuesStep(NoBlock)
  BY <1>1, SameQueues, QueueFacts
<1>3. NoUseAfterFree' /\ MuxerDiesOutsideLoop'
  BY <1>1, <1>2, SameFate, fate' = fate \cup {}
<1>. QED BY <1>1, <1>2, <1>3, SameOther, IdleInv DEF Alive

\* Every step, of either strand, of the socket or of the source.
LEMMA StepInv == Inv /\ [Next]_vars => Inv'
<1>. SUFFICES ASSUME Inv, [Next]_vars PROVE Inv'
  OBVIOUS
<1>1. CASE ViewerStep
  <2>1. todo["viewer"] # <<>> /\ UNCHANGED <<cpus, source, requests>>
    BY <1>1 DEF ViewerStep
  <2>2. Send("viewer") \/ ReturnStep("viewer") \/ create \/ regist_reader \/ do_read
    BY <1>1 DEF ViewerStep
  <2>. QED BY <2>1, <2>2, ViewerSend, ViewerReturn, CreateStep, RegistStep, DoReadStep
<1>2. CASE PublisherStep
  <2>1. todo["publisher"] # <<>> /\ UNCHANGED <<cpus, broadcast, tags, requests>>
    BY <1>2 DEF PublisherStep
  <2>2. \/ (Send("publisher") \/ ReturnStep("publisher")) /\ UNCHANGED cached
        \/ OldClients \/ Cache \/ NewClients \/ Merge \/ read_cb \/ Release
    BY <1>2 DEF PublisherStep
  <2>. QED BY <2>1, <2>2, PublisherSend, PublisherReturn, OldClientsStep, CacheStep,
              NewClientsStep, MergeStep, ReadCbStep, ReleaseStep
<1>3. CASE \E kind \in Kinds, start \in {0, 2} : on_recv(kind, start)
  BY <1>3, RecvStep
<1>4. CASE \E size \in BodySizes, is_idr \in BOOLEAN : distribute(size, is_idr)
  BY <1>4, DistributeStep
<1>5. CASE ParserThrows \/ WriteDone \/ ReadFails \/ detach_all_readers \/ Writable \/ Drain
  BY <1>5, ThrowsStep, WriteDoneStep, ReadFailsStep, DetachStep, WritableStep, DrainStep
<1>6. CASE UNCHANGED vars
  BY <1>6, StutterInv
<1>. QED BY <1>1, <1>2, <1>3, <1>4, <1>5, <1>6 DEF Next

\* A muxer belongs to a session that exists, whatever the two strands do; a
\* request uses no muxer before it has created one; distribute() writes only
\* inside a read_cb that holds its muxer; and resource_pool gives blocks out
\* and gets none back, so that a write reads a block that has left its pool.
THEOREM ConnectionSafe == Spec => []ConnectionInv
<1>1. Inv => ConnectionInv
  BY DEF Inv
<1>. QED BY <1>1, InitInv, StepInv, PTL DEF Spec

\* resource_pool::recycle never pools a block, so that no write, not even one
\* that goes on after write_flv has returned, reads a block that the pool may
\* lend again.
THEOREM BlocksNotReused == Spec => []InFlightNotPooled
BY InitInv, StepInv, InvPooled, PTL DEF Spec

\* With one io thread, and as long as no write has to go on later, neither a
\* read_cb's send() nor a completion touches a session that is gone.
THEOREM SessionOutlivesUse == Spec => []NoUseAfterFree
<1>1. Inv => NoUseAfterFree
  BY DEF Inv
<1>. QED BY <1>1, InitInv, StepInv, PTL DEF Spec

\* With one io thread ~flv_muxer, and the leave() in it, never runs inside the
\* loops of distribute(), however the requests follow each other.
THEOREM LoopKeepsItsMuxer == Spec => []MuxerDiesOutsideLoop
<1>1. Inv => MuxerDiesOutsideLoop
  BY DEF Inv
<1>. QED BY <1>1, InitInv, StepInv, PTL DEF Spec
=============================================================================
