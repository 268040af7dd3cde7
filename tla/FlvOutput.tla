------------------------------ MODULE FlvOutput ------------------------------
(***************************************************************************)
(* What an HTTP-FLV viewer is sent: http_protocol's responses, flv_muxer,  *)
(* session::do_write, and the pool of header blocks.                       *)
(*                                                                         *)
(* Nothing queues the writes of a session.  Each send() starts an          *)
(* async_write of its own, on memory that mostly dies when the caller      *)
(* returns; the viewer's handlers run on its socket's strand, the packets  *)
(* come on the publisher's.  A handler is a list of steps still to do, and *)
(* handlers of the two strands interleave when there are threads for both. *)
(*                                                                         *)
(* asio and the kernel are modelled from how do_write uses them: a write   *)
(* is tried at once if no other waits for the socket, takes at most        *)
(* MaxTransfer and what the send buffer has room for, and continues behind *)
(* the others when its completion has run.                                 *)
(***************************************************************************)
EXTENDS Integers, Sequences, FiniteSets, SequencesExt

CONSTANTS
    MaxCpus,      \* at most so many threads run the io_context (1 with -DDEBUG)
    SendBuffer,   \* room in the socket's send buffer
    MaxTransfer,  \* most that one step of an async_write sends
    BodySizes,    \* sizes of an audio or video packet; everything else is 1 long
    PoolSize,     \* blocks in a new resource_pool
    MaxRequests,  \* bound: requests on the connection, with one thread; one with more
    MaxTags       \* bound: packets of the broadcast

ASSUME ConstantsAssumption ==
    /\ MaxCpus \in Nat \ {0} /\ SendBuffer \in Nat \ {0} /\ MaxTransfer \in Nat \ {0}
    /\ BodySizes \subseteq Nat \ {0} /\ PoolSize \in Nat
    /\ MaxRequests \in Nat \ {0} /\ MaxTags \in Nat

VARIABLES
    cpus,       \* threads that run the io_context
    life,       \* the session: "open", "closed" (still in the map), "destroyed"
    reading,    \* an async_read is in flight
    header_,    \* http_protocol::header_ is not null
    muxer,      \* number of the flv_muxer that flv_muxer_ owns, or 0
    objs_,      \* the free blocks of each muxer's pool
    reader,     \* its client_reader: "none", "new" or "old"
    orphans,    \* earlier muxers whose readers leave() left in old_clients_
    start_pts,  \* what each muxer's read_cb was given
    holding,    \* strong_self of the read_cb in progress, or 0
    todo,       \* what the handler in progress on each strand still does
    waiting,    \* writes waiting for the socket, in order
    posted,     \* writes whose handler is queued on the viewer's strand
    room,       \* free room in the send buffer
    broadcast,  \* the source is there
    cached,     \* the dispatcher's packet_list_
    requests, tags,
    due,        \* history: what the viewer is still to be sent, byte by byte
    garbled,    \* history: the viewer was sent something else
    split,      \* history: a write was not taken whole when it was started
    fate        \* history: what went wrong

connection == <<life, reading, header_>>
muxing == <<muxer, objs_, reader, orphans, start_pts>>
socket == <<waiting, posted, room, due, garbled, split>>
source == <<broadcast, cached, tags>>
vars == <<cpus, connection, muxing, holding, todo, socket, source, requests, fate>>

Strands == {"viewer", "publisher"}

(***************************************************************************)
(* A write: what it is called, how long it is, how much of it is left, the *)
(* memory it reads and the call whose end frees that, and the is_close of  *)
(* its completion handler.  mem is "stack", "pool", "packet", "config",    *)
(* "static", or "dead" once freed.  A block is <<m, k>>, the k-th of those *)
(* that muxer m was created with.                                          *)
(***************************************************************************)
NoBlock == <<0, 0>>

Write(name, of, size, mem, scope, is_close) ==
    [op |-> "send", name |-> <<name, of>>, size |-> size, left |-> size, mem |-> mem,
     scope |-> scope, block |-> NoBlock, is_close |-> is_close, ec |-> FALSE]

Return(scope) == [op |-> "return", scope |-> scope, block |-> NoBlock]
Do(op) == [op |-> op]
With(op, arg) == [op |-> op, arg |-> arg]

Init ==
    /\ cpus \in 1..MaxCpus
    /\ life = "open" /\ reading = TRUE /\ header_ = FALSE
    /\ muxer = 0 /\ objs_ = [m \in 1..MaxRequests |-> <<>>] /\ reader = "none" /\ orphans = {}
    /\ start_pts = [m \in 1..MaxRequests |-> 0]
    /\ holding = 0
    /\ todo = [s \in Strands |-> <<>>]
    /\ waiting = <<>> /\ posted = <<>> /\ room = SendBuffer
    /\ broadcast = TRUE /\ cached = <<>> /\ tags = 0
    /\ requests = 0
    /\ due = <<>> /\ garbled = FALSE /\ split = FALSE
    /\ fate = {}

Alive == life # "destroyed"

\* The process dies of a null pointer, and does anything after a use of freed
\* memory: either ends the model.
Running == fate \cap {"crashed", "use after free"} = {}

\* Fault: main starts a second thread in every build.
ThreadAlwaysFree == TRUE

ThreadFree == Cardinality({s \in Strands : todo[s] # <<>>}) < cpus

\* Fault: accept() gives the socket no strand.
CanRunAnywhere(s) == Running /\ ThreadFree

CanRun(s) == Running /\ todo[s] = <<>> /\ ThreadFree

\* client_mtx_ is held by the loops of distribute().
ClientsLocked ==
    \E i \in DOMAIN todo["publisher"] : todo["publisher"][i].op \in {"call", "release", "merge"}

-----------------------------------------------------------------------------
(* What the handlers send                                                  *)

\* Fault: the size goes before the body.
WriteSizeFirst(of, body) ==
    << Write("header", of, 1, "pool", of, FALSE), Write("size", of, 1, "stack", of, FALSE),
       body, Return(of) >>

\* write_flv: tag header, body and size, each in a write of its own.
write_flv(of, body) ==
    << Write("header", of, 1, "pool", of, FALSE), body,
       Write("size", of, 1, "stack", of, FALSE), Return(of) >>

Body(of, size, mem) == Write("body", of, size, mem, of, FALSE)

\* send_response: the header, with is_close, and then the body of a 404.
\* (The body's is_close is the address of ::close, which converts to true.)
send_response(status, r, is_close) ==
    << Write("response", <<status, r>>, 1, "stack", <<status, r>>, is_close) >>
    \o (IF status = "404"
        THEN << Write("body", <<status, r>>, 1, "static", <<status, r>>, TRUE) >> ELSE <<>>)
    \o << Return(<<status, r>>) >>

\* start_muxing: the FLV header, an empty tag size, the metadata from an
\* encoder on the stack, the config frame from the source; then the reader.
start_muxing(r, start) ==
    LET of == <<"flv", r>> IN
    << Write("header", of, 1, "pool", of, FALSE), Write("size", of, 1, "stack", of, FALSE) >>
    \o write_flv(<<"script", r>>, [Body(<<"script", r>>, 1, "stack") EXCEPT !.scope = of])
    \o write_flv(<<"config", r>>, Body(<<"config", r>>, 1, "config"))
    \o << With("regist", start), Return(of) >>

\* on_search_http_handler, by what the request turns out to be.  No request
\* gets 415: whatever parses has is_flv_ set.
Handler(kind, r, start) ==
    CASE kind = "unparsable" -> send_response("400", r, TRUE)
      [] kind = "not GET"    -> send_response("405", r, TRUE)
      [] kind = "no source"  -> send_response("404", r, TRUE)
      [] kind = "lost source" ->
           send_response("200", r, FALSE) \o << Do("create") >> \o send_response("500", r, TRUE)
      [] kind = "flv" ->
           send_response("200", r, FALSE) \o << Do("create") >> \o start_muxing(r, start)

Kinds == {"unparsable", "not GET", "no source", "lost source", "flv"}

-----------------------------------------------------------------------------
(* What the viewer should be sent                                          *)

Bytes(name, of, size) == [i \in 1..size |-> <<name, of, i>>]

Tag(of, size) == Bytes("header", of, 1) \o Bytes("body", of, size) \o Bytes("size", of, 1)

Answer(kind, r) ==
    CASE kind = "unparsable" -> Bytes("response", <<"400", r>>, 1)
      [] kind = "not GET"    -> Bytes("response", <<"405", r>>, 1)
      [] kind = "no source"  -> Bytes("response", <<"404", r>>, 1) \o Bytes("body", <<"404", r>>, 1)
      [] kind = "lost source" ->
           Bytes("response", <<"200", r>>, 1) \o Bytes("response", <<"500", r>>, 1)
      [] kind = "flv" ->
           Bytes("response", <<"200", r>>, 1)
           \o Bytes("header", <<"flv", r>>, 1) \o Bytes("size", <<"flv", r>>, 1)
           \o Tag(<<"script", r>>, 1) \o Tag(<<"config", r>>, 1)

\* The viewer has asked for the packets from start_pts on.
Wanted(pkts) ==
    FlattenSeq([i \in DOMAIN pkts |->
                  IF pkts[i].time_stamp >= start_pts[muxer]
                  THEN Tag(<<"tag", pkts[i].time_stamp>>, pkts[i].size) ELSE <<>>])

\* What a step still to do will send: a write its bytes, and a call of the
\* viewer's read_cb the tag of its packet, if that is wanted.
Sends(e) ==
    IF e.op = "send" THEN Bytes(e.name[1], e.name[2], e.size)
    ELSE IF e.op = "call" /\ e.arg.muxer = muxer THEN Wanted(<< e.arg.pkt >>) ELSE <<>>

ToSend(steps) == FlattenSeq([i \in DOMAIN steps |-> Sends(steps[i])])

Expect(bytes) == due' = IF garbled \/ ~Alive THEN due ELSE due \o bytes

-----------------------------------------------------------------------------
(* async_write                                                             *)

\* The kernel takes n bytes of w: what they are by now, and whether they are
\* what comes next.
Taken(w, n) ==
    LET at == w.size - w.left
        bytes == [i \in 1..n |-> IF w.mem = "dead" THEN <<"junk">> ELSE w.name \o <<at + i>>]
    IN
    /\ room' = room - n
    /\ IF ~garbled /\ IsPrefix(bytes, due)
       THEN due' = SubSeq(due, n + 1, Len(due)) /\ UNCHANGED garbled
       ELSE due' = <<>> /\ garbled' = TRUE

Least(S) == CHOOSE x \in S : \A y \in S : x <= y
Takes(w) == Least({room, w.left, MaxTransfer})

\* A write that is through is posted only if its handler does something.
Posted(queue, w) == IF w.left > 0 \/ w.is_close THEN Append(queue, w) ELSE queue

\* async_write_some: at once, if no write waits and there is room; queue is
\* posted without the completion that continues w, if one does.
Start(w, queue) ==
    IF waiting # <<>> \/ room = 0
    THEN /\ waiting' = Append(waiting, w)
         /\ posted' = queue
         /\ split' = TRUE
         /\ UNCHANGED <<room, due, garbled>>
    ELSE /\ Taken(w, Takes(w))
         /\ posted' = Posted(queue, [w EXCEPT !.left = @ - Takes(w)])
         /\ split' = (split \/ Takes(w) < w.left)
         /\ UNCHANGED waiting

\* The socket is writable: the first of the waiting writes goes on.
Writable ==
    /\ Running /\ ThreadFree /\ waiting # <<>> /\ room > 0
    /\ LET w == Head(waiting) IN
       /\ Taken(w, Takes(w))
       /\ posted' = Posted(posted, [w EXCEPT !.left = @ - Takes(w)])
    /\ waiting' = Tail(waiting)
    /\ UNCHANGED <<cpus, connection, muxing, holding, todo, source, requests, split, fate>>

\* The viewer reads all there is (bound: only once the send buffer is full).
Drain ==
    /\ Running /\ room = 0
    /\ room' = SendBuffer
    /\ UNCHANGED <<cpus, connection, muxing, holding, todo, waiting, posted, due, garbled, split,
                   source, requests, fate>>

\* socket_.close(): what waits is aborted.  Only the error matters then.
Failed == [Write("error", <<"none", 0>>, 0, "static", <<"none", 0>>, FALSE) EXCEPT !.ec = TRUE]
Aborted(queue) == queue \o [i \in DOMAIN waiting |-> Failed]

InFlight == Range(waiting) \cup Range(posted)

\* The memory that the writes of dead read is freed.
Freed(queue, dead) ==
    [i \in DOMAIN queue |->
       IF queue[i] \in dead THEN [queue[i] EXCEPT !.mem = "dead"] ELSE queue[i]]

FreeMemory(dead) ==
    waiting' = Freed(waiting, dead) /\ posted' = Freed(posted, dead)

-----------------------------------------------------------------------------
(* The session                                                             *)

\* flv_muxer_ lets its muxer go: it dies here, unless a read_cb holds it, and
\* leave() takes its reader out of new_clients_.
ReleaseMuxer ==
    /\ reader = "new" /\ holding # muxer => ~ClientsLocked
    /\ orphans' = IF reader = "old" THEN orphans \cup {muxer} ELSE orphans
    /\ reader' = "none"

\* session_manager::stop and the end of strong_self: the socket is closed,
\* ~http_protocol reads header_, and the muxer goes.
StopSession(queue, what) ==
    /\ life' = "destroyed" /\ reading' = FALSE
    /\ waiting' = <<>> /\ room' = SendBuffer /\ due' = <<>>
    /\ posted' = queue
    /\ ReleaseMuxer /\ muxer' = 0
    /\ fate' = fate \cup what \cup (IF header_ THEN {} ELSE {"crashed"})
    /\ UNCHANGED <<header_, objs_, start_pts, garbled, split>>

\* Fault: is_close is forgotten.
StopOnError(w) == w.ec

\* The completion handler of do_write: an error or is_close stops the session.
StopsSession(w) == w.ec \/ w.is_close

\* A completion on the viewer's strand.  A write with something left goes on
\* by itself, on the socket of a session that only weak_self watches.
WriteDone ==
    LET w == Head(posted) IN
    /\ CanRun("viewer") /\ posted # <<>>
    /\ IF w.left > 0 /\ ~w.ec
       THEN /\ \/ /\ life = "destroyed"
                  /\ fate' = fate \cup {"use after free"}
                  /\ posted' = Tail(posted)
                  /\ UNCHANGED <<waiting, room, due, garbled, split>>
               \/ /\ life = "closed"
                  /\ posted' = Append(Tail(posted), Failed)
                  /\ UNCHANGED <<waiting, room, due, garbled, split, fate>>
               \/ /\ life = "open"
                  /\ Start(w, Tail(posted))
                  /\ UNCHANGED fate
            /\ UNCHANGED <<connection, muxing>>
       ELSE IF Alive /\ StopsSession(w)
       THEN StopSession(Tail(posted), IF life = "open" /\ due # <<>> THEN {"cut off"} ELSE {})
       ELSE /\ posted' = Tail(posted)
            /\ UNCHANGED <<connection, muxing, waiting, room, due, garbled, split, fate>>
    /\ UNCHANGED <<cpus, holding, todo, source, requests>>

\* The read fails: the viewer has gone, or the socket was closed.
ReadFails ==
    /\ CanRun("viewer") /\ reading
    /\ StopSession(posted, {})
    /\ UNCHANGED <<cpus, holding, todo, source, requests>>

\* A request arrives whole.
on_recv(kind, start) ==
    LET r == requests + 1 IN
    /\ CanRun("viewer") /\ reading /\ life = "open"
    /\ requests < IF cpus = 1 THEN MaxRequests ELSE 1
    /\ kind = "flv" => broadcast
    /\ requests' = r
    /\ reading' = FALSE
    /\ header_' = (header_ \/ kind # "unparsable")
    /\ todo' = [todo EXCEPT !["viewer"] = Handler(kind, r, start) \o << Do("do_read") >>]
    /\ Expect(Answer(kind, r))
    /\ UNCHANGED <<cpus, life, muxing, holding, waiting, posted, room, garbled,
                   split, source, fate>>

\* Fewer than four bytes arrive: the parser throws, shutdown() closes the
\* socket, and do_read() returns.
ParserThrows ==
    /\ CanRun("viewer") /\ reading /\ life = "open"
    /\ life' = "closed" /\ reading' = FALSE
    /\ waiting' = <<>> /\ posted' = Aborted(posted)
    /\ UNCHANGED <<cpus, header_, muxing, holding, todo, room, due, garbled, split, source,
                   requests, fate>>

-----------------------------------------------------------------------------
(* One step of the handler in progress on a strand                         *)

Goes(s, steps) == todo' = [todo EXCEPT ![s] = steps \o Tail(@)]

\* The muxer whose pool a strand writes from.
Pool(s) == IF s = "viewer" THEN muxer ELSE holding

\* steps, where the return of the call that obtained the block gives it back.
Lent(steps, scope, block) ==
    [i \in DOMAIN steps |->
       IF steps[i].op = "return" /\ steps[i].scope = scope
       THEN [steps[i] EXCEPT !.block = block] ELSE steps[i]]

\* Fault: is_open() is not tested.
WriteToAny(w) == Start(w, posted) /\ UNCHANGED life

\* session::do_write
do_write(w) ==
    IF life = "open" THEN Start(w, posted) /\ UNCHANGED life
    ELSE UNCHANGED <<waiting, posted, room, due, garbled, split, life>>

\* send(), after prepare_flv_header or prepare_flv_tag_header obtained a block.
Send(s) ==
    LET w == Head(todo[s])
        m == Pool(s)
        pooled == w.mem = "pool" /\ objs_[m] # <<>>
        block == IF pooled THEN Last(objs_[m]) ELSE NoBlock
    IN
    /\ w.op = "send"
    /\ IF ~Alive
       THEN fate' = fate \cup {"use after free"}
            /\ UNCHANGED <<waiting, posted, room, due, garbled, split, life>>
       ELSE do_write([w EXCEPT !.block = block]) /\ UNCHANGED fate
    /\ objs_' = IF pooled THEN [objs_ EXCEPT ![m] = Front(@)] ELSE objs_
    /\ todo' = [todo EXCEPT ![s] = IF pooled THEN Lent(Tail(@), w.scope, block) ELSE Tail(@)]
    /\ UNCHANGED <<reading, header_, muxer, reader, orphans, start_pts, holding>>

\* Fault: the pool keeps what it lent, as its constructor's argument says.
RecycleToSize(objs, block) ==
    IF Len(objs) >= PoolSize THEN objs ELSE Append(objs, block)

\* resource_pool::recycle: pool_size_ is never set, so every block is deleted.
pool_size_ == 0
recycle(objs, block) ==
    IF Len(objs) >= pool_size_ THEN objs ELSE Append(objs, block)

\* A call returns: its locals die, and its block goes back to the pool.
ReturnStep(s) ==
    LET step == Head(todo[s]) IN
    /\ step.op = "return"
    /\ FreeMemory({w \in InFlight : w.scope = step.scope /\ w.mem \in {"stack", "pool"}})
    /\ objs_' = IF step.block = NoBlock THEN objs_
                ELSE [objs_ EXCEPT ![Pool(s)] = recycle(@, step.block)]
    /\ Goes(s, <<>>)
    /\ UNCHANGED <<connection, muxer, reader, orphans, start_pts, holding, room, due, garbled,
                   split, fate>>

\* flv_muxer::create(): the muxer of an earlier request goes.
create ==
    /\ Head(todo["viewer"]).op = "create"
    /\ ReleaseMuxer
    /\ muxer' = requests
    /\ objs_' = [objs_ EXCEPT ![requests] = [k \in 1..PoolSize |-> <<requests, k>>]]
    /\ Goes("viewer", <<>>)
    /\ UNCHANGED <<connection, start_pts, holding, socket, fate>>

regist_reader ==
    /\ Head(todo["viewer"]).op = "regist" /\ ~ClientsLocked
    /\ reader' = "new" /\ start_pts' = [start_pts EXCEPT ![muxer] = Head(todo["viewer"]).arg]
    /\ Goes("viewer", <<>>)
    /\ UNCHANGED <<connection, muxer, objs_, orphans, holding, socket, fate>>

do_read ==
    /\ Head(todo["viewer"]).op = "do_read"
    /\ reading' = (life = "open")
    /\ Goes("viewer", <<>>)
    /\ UNCHANGED <<life, header_, muxing, holding, socket, fate>>

ViewerStep ==
    /\ Running /\ todo["viewer"] # <<>>
    /\ Send("viewer") \/ ReturnStep("viewer") \/ create \/ regist_reader \/ do_read
    /\ UNCHANGED <<cpus, source, requests>>

-----------------------------------------------------------------------------
(* The publisher                                                           *)

\* process_av_packet calls distribute().
distribute(size, is_idr) ==
    LET pkt == [time_stamp |-> tags + 1, size |-> size] IN
    /\ CanRun("publisher") /\ broadcast /\ tags < MaxTags
    /\ tags' = tags + 1
    /\ todo' = [todo EXCEPT !["publisher"] =
                 << With("old clients", pkt), With(IF is_idr THEN "recache" ELSE "cache", pkt),
                    Do("new clients") >>]
    /\ UNCHANGED <<cpus, connection, muxing, holding, socket, broadcast, cached, requests, fate>>

Calls(m, pkts) == [i \in DOMAIN pkts |-> With("call", [pkt |-> pkts[i], muxer |-> m])]

OrphanCalls(pkt) ==
    LET ms == SetToSeq(orphans) IN
    [i \in DOMAIN ms |-> With("call", [pkt |-> pkt, muxer |-> ms[i]])]

\* The readers among the old clients are called with the packet.
OldClients ==
    LET step == Head(todo["publisher"])
        pkts == IF reader = "old" THEN << step.arg >> ELSE <<>>
    IN
    /\ step.op = "old clients"
    /\ Goes("publisher", OrphanCalls(step.arg) \o Calls(muxer, pkts))
    /\ Expect(Wanted(pkts))
    /\ UNCHANGED <<connection, muxing, holding, waiting, posted, room, garbled, split, cached, fate>>

\* The packet is cached; the packets an IDR frame displaces die.
Cache ==
    LET step == Head(todo["publisher"]) IN
    /\ step.op \in {"cache", "recache"}
    /\ cached' = Append(IF step.op = "cache" THEN cached ELSE <<>>, step.arg)
    /\ FreeMemory({w \in InFlight : w.mem = "packet" /\
                    \A i \in DOMAIN cached' : w.scope # <<"tag", cached'[i].time_stamp>>})
    /\ Goes("publisher", <<>>)
    /\ UNCHANGED <<connection, muxing, holding, room, due, garbled, split, fate>>

\* The reader, if it is a new client, is called with every cached packet.
NewClients ==
    LET pkts == IF reader = "new" THEN cached ELSE <<>> IN
    /\ Head(todo["publisher"]).op = "new clients"
    /\ Goes("publisher", Calls(muxer, pkts) \o << Do("merge") >>)
    /\ Expect(Wanted(pkts))
    /\ UNCHANGED <<connection, muxing, holding, waiting, posted, room, garbled, split, cached, fate>>

Merge ==
    /\ Head(todo["publisher"]).op = "merge"
    /\ reader' = IF reader = "new" THEN "old" ELSE reader
    /\ Goes("publisher", <<>>)
    /\ UNCHANGED <<connection, muxer, objs_, orphans, start_pts, holding, socket, cached, fate>>

\* Fault: the muxer is not locked.
NotLocked(m) == m

\* read_cb leaves out what comes before start_pts, and locks its muxer.
Skipped(m, pkt) == start_pts[m] > 0 /\ pkt.time_stamp < start_pts[m]

Lock(m) == IF muxer = m THEN m ELSE 0

read_cb ==
    LET pkt == Head(todo["publisher"]).arg.pkt
        m == Head(todo["publisher"]).arg.muxer
        strong_self == Lock(m)
        of == <<"tag", pkt.time_stamp>>
    IN
    /\ Head(todo["publisher"]).op = "call"
    /\ IF Skipped(m, pkt) \/ strong_self = 0
       THEN Goes("publisher", <<>>) /\ UNCHANGED holding
       ELSE /\ holding' = strong_self
            /\ Goes("publisher", write_flv(of, Body(of, pkt.size, "packet")) \o << Do("release") >>)
    /\ UNCHANGED <<connection, muxing, socket, cached, fate>>

\* strong_self goes: ~flv_muxer runs here if the session let go meanwhile.
Release ==
    /\ Head(todo["publisher"]).op = "release"
    /\ holding' = 0
    /\ fate' = fate \cup (IF muxer = holding THEN {} ELSE {"died in the loop"})
    /\ Goes("publisher", <<>>)
    /\ UNCHANGED <<connection, muxing, socket, cached>>

PublisherStep ==
    /\ Running /\ todo["publisher"] # <<>>
    /\ \/ (Send("publisher") \/ ReturnStep("publisher")) /\ UNCHANGED cached
       \/ OldClients \/ Cache \/ NewClients \/ Merge \/ read_cb \/ Release
    /\ UNCHANGED <<cpus, broadcast, tags, requests>>

\* The dispatcher dies with its last holder: every reader, a forgotten one of
\* an earlier muxer too, is detached, which shuts the session down.
detach_all_readers ==
    /\ CanRun("publisher") /\ broadcast
    /\ \A i \in DOMAIN todo["viewer"] :
         ~(todo["viewer"][i].op = "return" /\ todo["viewer"][i].scope[1] = "flv")
    /\ broadcast' = FALSE /\ cached' = <<>>
    /\ IF (reader # "none" \/ orphans # {}) /\ life = "open"
       THEN life' = "closed" /\ waiting' = <<>> /\ posted' = Aborted(posted)
       ELSE UNCHANGED life /\ FreeMemory({w \in InFlight : w.mem \in {"packet", "config"}})
    /\ reader' = "none" /\ orphans' = {}
    /\ UNCHANGED <<cpus, reading, header_, muxer, objs_, start_pts, holding, todo, room, due,
                   garbled, split, tags, requests, fate>>

-----------------------------------------------------------------------------
Next ==
    \/ \E kind \in Kinds, start \in {0, 2} : on_recv(kind, start)
    \/ ParserThrows
    \/ ViewerStep
    \/ WriteDone
    \/ ReadFails
    \/ \E size \in BodySizes, is_idr \in BOOLEAN : distribute(size, is_idr)
    \/ PublisherStep
    \/ detach_all_readers
    \/ Writable
    \/ Drain

Spec == Init /\ [][Next]_vars

\* Handlers run to their end, and the io threads run what is posted.
FairSpec ==
    Spec /\ WF_vars(ViewerStep) /\ WF_vars(PublisherStep) /\ WF_vars(WriteDone)

-----------------------------------------------------------------------------
(* Properties                                                              *)

Scopes ==
    {"200", "400", "404", "405", "500", "flv", "script", "config", "tag", "none"} \X Nat

Writes ==
    [op : {"send"}, name : {"response", "header", "body", "size", "error"} \X Scopes,
     size : Nat, left : Nat, mem : {"stack", "pool", "packet", "config", "static", "dead"},
     scope : Scopes, block : (0..MaxRequests) \X Nat, is_close : BOOLEAN, ec : BOOLEAN]

Packets == [time_stamp : 1..MaxTags, size : BodySizes]

\* What a handler on either strand does, on the viewer's, and in distribute().
WriteSteps ==
    Writes \cup [op : {"return"}, scope : Scopes, block : (0..MaxRequests) \X Nat]

ViewerSteps == WriteSteps \cup [op : {"create", "do_read"}] \cup [op : {"regist"}, arg : Nat]

LoopSteps ==
    [op : {"old clients", "cache", "recache"}, arg : Packets]
    \cup [op : {"new clients", "merge"}]
    \cup [op : {"call"}, arg : [pkt : Packets, muxer : 1..MaxRequests]]

PublisherSteps == WriteSteps \cup LoopSteps \cup [op : {"release"}]

Fates == {"crashed", "use after free", "cut off", "died in the loop"}

TypeOK ==
    /\ cpus \in 1..MaxCpus /\ room \in 0..SendBuffer
    /\ life \in {"open", "closed", "destroyed"} /\ reading \in BOOLEAN /\ header_ \in BOOLEAN
    /\ muxer \in 0..MaxRequests /\ holding \in 0..MaxRequests
    /\ reader \in {"none", "new", "old"} /\ orphans \subseteq 1..MaxRequests
    /\ start_pts \in [1..MaxRequests -> Nat] /\ requests \in 0..MaxRequests
    /\ DOMAIN todo = Strands
    /\ todo["viewer"] \in Seq(ViewerSteps) /\ todo["publisher"] \in Seq(PublisherSteps)
    /\ waiting \in Seq(Writes) /\ posted \in Seq(Writes)
    /\ broadcast \in BOOLEAN /\ cached \in Seq(Packets) /\ tags \in 0..MaxTags
    /\ garbled \in BOOLEAN /\ split \in BOOLEAN /\ fate \subseteq Fates

\* A write waits only for an open socket; a read is of a session that exists,
\* and a handler runs on one; a muxer is that of a session with a parsed
\* header, and a reader that of a muxer.
SessionInOrder ==
    /\ waiting # <<>> => life = "open"
    /\ reading => Alive
    /\ todo["viewer"] # <<>> => Alive /\ requests # 0
    /\ muxer # 0 => Alive /\ header_
    /\ reader # "none" => muxer # 0

\* The step does something with the muxer of the connection.
NeedsMuxer(e) == e.op = "regist" \/ (e.op = "send" /\ e.mem = "pool")

\* A request creates one muxer at most, with its header parsed, and uses none
\* before that.
ViewerInOrder ==
    LET v == todo["viewer"] IN
    /\ \A i, j \in DOMAIN v :
         v[i].op = "create" /\ (v[j].op = "create" \/ NeedsMuxer(v[j])) => i <= j
    /\ \A i \in DOMAIN v : v[i].op = "create" => header_
    /\ \A j \in DOMAIN v : NeedsMuxer(v[j]) /\ muxer = 0 => \E i \in DOMAIN v : v[i].op = "create"

\* The first n steps are what is left of a read_cb, and the others of the loops.
InReadCb(steps, n) ==
    \A i \in DOMAIN steps :
        /\ steps[i].op \in {"send", "return"} <=> i < n
        /\ steps[i].op = "release" <=> i = n

\* distribute() writes only inside a read_cb, which holds its muxer for as
\* long; with one io thread the session cannot let go of that muxer meanwhile.
PublisherInOrder ==
    /\ \E n \in 0..Len(todo["publisher"]) :
         InReadCb(todo["publisher"], n) /\ (holding # 0 <=> n # 0)
    /\ cpus = 1 => /\ todo["viewer"] = <<>> \/ todo["publisher"] = <<>>
                   /\ holding \in {0, muxer}

\* The muxer of the request in progress is still to be created.
CreatePending == \E i \in DOMAIN todo["viewer"] : todo["viewer"][i].op = "create"

\* A pool only shrinks, from its end, once its muxer is created; a write reads
\* a block that has left its pool.
BlocksInOrder ==
    /\ objs_ \in [1..MaxRequests -> Seq((1..MaxRequests) \X Nat)]
    /\ \A m \in 1..MaxRequests :
         /\ \A k \in 1..Len(objs_[m]) : objs_[m][k] = <<m, k>>
         /\ m > requests \/ (m = requests /\ CreatePending) => objs_[m] = <<>>
    /\ \A w \in InFlight : w.block # NoBlock =>
         /\ w.block[1] \in 1..requests /\ w.block[2] > Len(objs_[w.block[1]])
         /\ CreatePending => w.block[1] # requests

\* While every write is taken whole when it is started, no write goes on later.
NothingLeft ==
    ~split => waiting = <<>> /\ \A i \in DOMAIN posted : posted[i].left = 0

\* Types, and what a session, its muxers, the two handlers, the pools and the
\* writes have to do with each other.
ConnectionInv ==
    /\ TypeOK /\ SessionInOrder /\ ViewerInOrder /\ PublisherInOrder
    /\ BlocksInOrder /\ NothingLeft

\* No step of the kinds early comes after one of the kinds late.
Before(steps, early, late) ==
    \A i, j \in DOMAIN steps : steps[i].op \in late /\ steps[j].op \in early => j <= i

\* A write that a handler is still to start is whole, and its memory lives; a
\* muxer is given its reader after all that start_muxing sends; and the loops of
\* distribute() look for readers when all earlier calls are done.
StepsInTurn ==
    /\ \A s \in Strands : \A i \in DOMAIN todo[s] :
         LET e == todo[s][i] IN
         e.op = "send" => /\ e.left = e.size /\ e.mem # "dead" /\ ~e.ec
                          /\ e.is_close => s = "viewer"
    /\ Before(todo["viewer"], {"send", "create", "regist"}, {"regist"})
    /\ Before(todo["publisher"], {"send", "call"}, {"old clients", "new clients"})

\* Muxers are numbered by the requests that create them, and the session's is
\* none of those it let go.
MuxersInOrder ==
    /\ orphans \subseteq 1..requests /\ muxer \in 0..requests /\ muxer \notin orphans
    /\ CreatePending => requests \notin orphans /\ muxer # requests

Pending(ops) == \E i \in DOMAIN todo["viewer"] : todo["viewer"][i].op \in ops

Closes(steps) == \E i \in DOMAIN steps : steps[i].op = "send" /\ steps[i].is_close

\* With several io threads there is one request (bound): until its muxer has a
\* reader no packet is on its way to the viewer, and from then on no answer is,
\* nor one that closes.
OneAtATime ==
    \/ /\ reader = "none" /\ orphans = {}
       /\ \A i \in DOMAIN todo["publisher"] : todo["publisher"][i].op \notin {"send", "call"}
       /\ Closes(todo["viewer"]) \/ Closes(posted) => ~Pending({"regist"})
       /\ requests = 0 => ~Closes(posted)
    \/ requests # 0 /\ ~Pending({"send", "create", "regist"}) /\ ~Closes(posted)

\* The order in which an open session is sent what it is, as long as every
\* write is taken whole.
DeliveryInv ==
    /\ StepsInTurn /\ MuxersInOrder
    /\ ~split /\ life = "open" => /\ cpus > 1 => OneAtATime
                                 /\ \A i \in DOMAIN posted : ~posted[i].ec

OutputInv == ConnectionInv /\ DeliveryInv

\* A block that an unfinished write still reads is never in the pool.
InFlightNotPooled ==
    \A i \in DOMAIN (waiting \o posted) :
        LET w == (waiting \o posted)[i] IN
        w.left > 0 /\ w.block # NoBlock => \A m \in 1..MaxRequests : w.block \notin Range(objs_[m])

\* One io thread, and no write that has to go on later: nothing touches the
\* session after its end.
NoUseAfterFree ==
    cpus = 1 /\ ~split => "use after free" \notin fate

\* One io thread: no muxer dies inside the loops of distribute(), where its
\* leave() would erase the element the loop stands on.
MuxerDiesOutsideLoop ==
    cpus = 1 => "died in the loop" \notin fate

\* While every write is taken whole when it is started, the viewer gets its
\* answers and then its tags, header before body before size, byte by byte: what
\* is still due is what the handlers in progress are still to send, nothing
\* forgotten, twice or out of order.  And a session that an answer stops has sent
\* the whole of it, body included, although the header's completion stops it.
AnsweredInFull ==
    ~split => /\ ~garbled /\ "cut off" \notin fate
              /\ life = "open" => due = ToSend(todo["viewer"]) \o ToSend(todo["publisher"])

\* Once an answer with is_close is taken, the session is stopped.
AnswerCloses ==
    (\E i \in DOMAIN posted : posted[i].is_close /\ posted[i].left = 0)
        ~> (life = "destroyed" \/ ~Running)

\* "send header", "send body", "send tag" (write_flv): in this order they
\* reach the viewer.
TagsInOrder == ~garbled

\* "if no http body, just close" (send_response): an answer with is_close, to a
\* request that could not be parsed too, ends the session and not the server.
JustCloses == requests > 0 => "crashed" \notin fate
=============================================================================
