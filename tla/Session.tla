------------------------------- MODULE Session -------------------------------
(***************************************************************************)
(* network::session, session_manager and tcp_server, and the loop of       *)
(* main() around io_context.run().                                         *)
(*                                                                         *)
(* Handlers hold weak_ptrs, so a session exists while it is in its         *)
(* server's session_map_ (or one of its own handlers runs).  Every handler *)
(* of a session runs on its strand and is one action; what reaches a       *)
(* session from elsewhere (a packet, a detach, the signal) may come        *)
(* between the completion of a read or write and its handler.              *)
(***************************************************************************)
EXTENDS Integers, FiniteSets

CONSTANTS
    Servers,    \* the RTMP and the HTTP tcp_server
    Sessions,   \* accepted sockets
    MaxWrites,  \* bound: async_writes in flight on a socket
    MaxThrows   \* bound: exceptions that escape a handler

ASSUME ConstantsAssumption == MaxWrites \in Nat /\ MaxThrows \in Nat

VARIABLES
    session_map_,  \* session_map_[srv]: the sessions of srv's session_manager
    socket,        \* "none" (not accepted), "open" or "closed"
    read,          \* "none", "pending", or completed: "ready" or "failed"
    writes,        \* async_writes in flight
    closers,       \* of these, the ones with is_close
    acceptor,      \* "open" or "closed"
    accepts,       \* outstanding async_accepts
    running,       \* io_context has not been stopped
    thrown,        \* exceptions on their way to main's catch
    throws,        \* history: exceptions so far
    overflowed     \* history: sessions whose read buffer hit its limit

conns == <<session_map_, socket, read, writes, closers>>
listeners == <<acceptor, accepts>>
vars == <<conns, listeners, running, thrown, throws, overflowed>>

Mapped == UNION {session_map_[srv] : srv \in Servers}

Init ==
    /\ session_map_ = [srv \in Servers |-> {}]
    /\ socket = [s \in Sessions |-> "none"]
    /\ read = [s \in Sessions |-> "none"]
    /\ writes = [s \in Sessions |-> 0]
    /\ closers = [s \in Sessions |-> 0]
    /\ acceptor = [srv \in Servers |-> "open"]
    /\ accepts = [srv \in Servers |-> 1]
    /\ running = TRUE
    /\ thrown = 0 /\ throws = 0
    /\ overflowed = {}

-----------------------------------------------------------------------------
(* tcp_server                                                              *)

\* session_manager::add
Added(srv, s) == [session_map_ EXCEPT ![srv] = @ \cup {s}]

\* async_accept completes: session_alloc_ adds a session, start() reads, and
\* do_accept() arms the acceptor again.
Accept(srv, s) ==
    /\ running /\ accepts[srv] > 0 /\ acceptor[srv] = "open"
    /\ socket[s] = "none"
    /\ session_map_' = Added(srv, s)
    /\ socket' = [socket EXCEPT ![s] = "open"]
    /\ read' = [read EXCEPT ![s] = "pending"]
    /\ UNCHANGED <<writes, closers, listeners, running, thrown, throws, overflowed>>

\* An exception leaves a handler through io_context.run().
Throw ==
    /\ throws < MaxThrows
    /\ thrown' = thrown + 1
    /\ throws' = throws + 1

\* session_alloc_ throws: the handler does not get to do_accept().
AcceptThrows(srv) ==
    /\ running /\ accepts[srv] > 0 /\ acceptor[srv] = "open"
    /\ Throw
    /\ accepts' = [accepts EXCEPT ![srv] = @ - 1]
    /\ UNCHANGED <<conns, acceptor, running, overflowed>>

\* Fault: restart() does nothing.
NotRearmed == accepts

\* do_accept() by restart(): one more async_accept if the acceptor is open.
Rearmed == [srv \in Servers |-> IF acceptor[srv] = "open" THEN accepts[srv] + 1 ELSE accepts[srv]]

\* main's catch restarts both servers, whichever the exception came from.
Restart ==
    /\ thrown > 0
    /\ thrown' = thrown - 1
    /\ accepts' = Rearmed
    /\ UNCHANGED <<conns, acceptor, running, throws, overflowed>>

-----------------------------------------------------------------------------
(* session and session_manager                                             *)

\* session::stop
Stopped(ss) == [s \in Sessions |-> IF s \in ss THEN "closed" ELSE socket[s]]

\* Fault: the session is dropped with its socket open.
StopLeavesOpen(s) ==
    /\ session_map_' = [srv \in Servers |-> session_map_[srv] \ {s}]
    /\ UNCHANGED socket

\* session_manager::stop closes the socket of a session of the map and drops
\* it; the session is destroyed when the handler returns.
Stop(s) ==
    IF s \in Mapped
    THEN /\ socket' = Stopped({s})
         /\ session_map_' = [srv \in Servers |-> session_map_[srv] \ {s}]
    ELSE UNCHANGED <<socket, session_map_>>

\* session_manager::erase returns for every id that is not empty, and no
\* session has an empty one.
erase(s) == UNCHANGED session_map_

\* session::shutdown
Shutdown(s) ==
    /\ socket' = Stopped({s})
    /\ erase(s)

\* session_manager::stop_all
stop_all(srv) ==
    /\ socket' = Stopped(session_map_[srv])
    /\ session_map_' = [session_map_ EXCEPT ![srv] = {}]

\* Fault: the handler of a read does not read again.
NoNextRead(s) == [read EXCEPT ![s] = "none"]

\* do_read() returns without reading when the socket is closed.
NextRead(s) == [read EXCEPT ![s] = IF socket'[s] = "open" THEN "pending" ELSE "none"]

\* async_read_some completes: with data, or an error, or aborted by close().
ReadCompletes(s) ==
    /\ running /\ read[s] = "pending"
    /\ \E result \in {"ready", "failed"} :
         /\ result = "ready" => socket[s] = "open"
         /\ read' = [read EXCEPT ![s] = result]
    /\ UNCHANGED <<session_map_, socket, writes, closers, listeners, running, thrown, throws,
                   overflowed>>

\* The handler runs but the session is gone.
LateRead(s) ==
    /\ running /\ read[s] \in {"ready", "failed"} /\ s \notin Mapped
    /\ read' = [read EXCEPT ![s] = "none"]
    /\ UNCHANGED <<session_map_, socket, writes, closers, listeners, running, thrown, throws,
                   overflowed>>

\* Fault: an aborted read is ignored.
AbortIgnored(s) ==
    /\ running /\ read[s] = "failed" /\ s \in Mapped
    /\ IF socket[s] = "open" THEN Stop(s) ELSE UNCHANGED <<socket, session_map_>>
    /\ read' = [read EXCEPT ![s] = "none"]
    /\ UNCHANGED <<writes, closers, listeners, running, thrown, throws, overflowed>>

ReadFailed(s) ==
    /\ running /\ read[s] = "failed" /\ s \in Mapped
    /\ Stop(s)
    /\ read' = [read EXCEPT ![s] = "none"]
    /\ UNCHANGED <<writes, closers, listeners, running, thrown, throws, overflowed>>

\* do_write, asynchronous: nothing is sent on a closed socket.
Sent(s, is_close) ==
    IF socket[s] = "open"
    THEN /\ writes[s] < MaxWrites
         /\ writes' = [writes EXCEPT ![s] = @ + 1]
         /\ closers' = [closers EXCEPT ![s] = IF is_close THEN @ + 1 ELSE @]
    ELSE UNCHANGED <<writes, closers>>

Received(s) == running /\ read[s] = "ready" /\ s \in Mapped

\* on_recv parses the data, and may answer and ask to be closed after that.
Parsed(s) ==
    /\ Received(s)
    /\ \/ UNCHANGED <<writes, closers>>
       \/ \E is_close \in BOOLEAN : Sent(s, is_close)
    /\ UNCHANGED <<socket, session_map_>>
    /\ read' = NextRead(s)
    /\ UNCHANGED <<listeners, running, thrown, throws, overflowed>>

\* on_recv catches an exception of the parser and shuts the session down.
ParseThrows(s) ==
    /\ Received(s)
    /\ Shutdown(s)
    /\ read' = NextRead(s)
    /\ UNCHANGED <<writes, closers, listeners, running, thrown, throws, overflowed>>

\* A synchronous do_write inside on_recv fails, or had is_close.
WriteStops(s) ==
    /\ Received(s)
    /\ Stop(s)
    /\ read' = NextRead(s)
    /\ UNCHANGED <<writes, closers, listeners, running, thrown, throws, overflowed>>

\* The next do_read() finds the read buffer at its limit, and throws.
BufferFull(s) ==
    /\ Received(s) /\ socket[s] = "open"
    /\ Throw
    /\ read' = [read EXCEPT ![s] = "none"]
    /\ overflowed' = overflowed \cup {s}
    /\ UNCHANGED <<session_map_, socket, writes, closers, listeners, running>>

\* A handler of async_write: an error or is_close stops the session.
WriteCompletes(s) ==
    /\ running /\ writes[s] > 0
    /\ writes' = [writes EXCEPT ![s] = @ - 1]
    /\ \/ closers[s] < writes[s] /\ UNCHANGED <<closers, socket, session_map_>>
       \/ closers[s] < writes[s] /\ Stop(s) /\ UNCHANGED closers
       \/ closers[s] > 0 /\ Stop(s) /\ closers' = [closers EXCEPT ![s] = @ - 1]
    /\ UNCHANGED <<read, listeners, running, thrown, throws, overflowed>>

\* A packet for a viewer, from the handler of another session.
Push(s) ==
    /\ running /\ s \in Mapped
    /\ Sent(s, FALSE)
    /\ UNCHANGED <<session_map_, socket, read, listeners, running, thrown, throws, overflowed>>

\* client_reader::detach, from the destructor of the dispatcher.
Detach(s) ==
    /\ running /\ s \in Mapped
    /\ Shutdown(s)
    /\ UNCHANGED <<read, writes, closers, listeners, running, thrown, throws, overflowed>>

\* SIGINT or SIGTERM, handled by srv: its acceptor is closed, the io_context
\* is stopped (no other handler runs) and its sessions are stopped.
Signal(srv) ==
    /\ running
    /\ acceptor' = [acceptor EXCEPT ![srv] = "closed"]
    /\ running' = FALSE
    /\ stop_all(srv)
    /\ UNCHANGED <<read, writes, closers, accepts, thrown, throws, overflowed>>

-----------------------------------------------------------------------------
Server(srv) ==
    \/ \E s \in Sessions : Accept(srv, s)
    \/ AcceptThrows(srv)
    \/ Signal(srv)

Connection(s) ==
    \/ ReadCompletes(s)
    \/ LateRead(s)
    \/ ReadFailed(s)
    \/ Parsed(s)
    \/ ParseThrows(s)
    \/ WriteStops(s)
    \/ BufferFull(s)
    \/ WriteCompletes(s)
    \/ Push(s)
    \/ Detach(s)

Next ==
    \/ \E srv \in Servers : Server(srv)
    \/ \E s \in Sessions : Connection(s)
    \/ Restart

Spec == Init /\ [][Next]_vars

\* The io_context runs the handlers of completed operations, close() aborts
\* the read in flight, and main's catch is not preempted for ever.
Fairness ==
    /\ WF_vars(Restart)
    /\ \A s \in Sessions :
         /\ WF_vars(LateRead(s) \/ ReadFailed(s))
         /\ WF_vars(socket[s] = "closed" /\ ReadCompletes(s))

FairSpec == Spec /\ Fairness

-----------------------------------------------------------------------------
(* Properties                                                              *)

\* Types; is_close writes are among the writes in flight, and a session is in
\* the map of one server only.
TypeOK ==
    /\ session_map_ \in [Servers -> SUBSET Sessions]
    /\ socket \in [Sessions -> {"none", "open", "closed"}]
    /\ read \in [Sessions -> {"none", "pending", "ready", "failed"}]
    /\ writes \in [Sessions -> 0..MaxWrites] /\ closers \in [Sessions -> 0..MaxWrites]
    /\ \A s \in Sessions : closers[s] <= writes[s]
    /\ \A a, b \in Servers : a # b => session_map_[a] \cap session_map_[b] = {}
    /\ acceptor \in [Servers -> {"open", "closed"}]
    /\ accepts \in [Servers -> Nat]
    /\ running \in BOOLEAN
    /\ throws \in 0..MaxThrows /\ thrown \in 0..throws
    /\ overflowed \subseteq Sessions

\* A session that is not in a map is destroyed, and has closed its socket:
\* no connection outlives its session object, whatever stopped it.
UnmappedIsClosed ==
    \A s \in Sessions : socket[s] = "open" => s \in Mapped

\* A socket that was never accepted has no session, and nothing reads from it.
UnacceptedIsIdle ==
    \A s \in Sessions : socket[s] = "none" => s \notin Mapped /\ read[s] = "none"

\* Types; every open socket is that of a session in a map, and a session has
\* an accepted socket.
SessionInv == TypeOK /\ UnmappedIsClosed /\ UnacceptedIsIdle

\* An open connection is being read, so that the peer's close is noticed,
\* unless its buffer hit the limit and the exception cut the read loop.
OpenIsRead ==
    \A s \in Sessions : socket[s] = "open" /\ s \notin overflowed => read[s] # "none"

\* A server accepts for as long as its acceptor is open: an exception that
\* cuts its accept loop is on its way to the catch that arms it again.
StillAccepting ==
    \A srv \in Servers : acceptor[srv] = "open" /\ running => accepts[srv] + thrown > 0

\* A connection closed while a read is in flight (detached by its publisher,
\* say) leaves the map: the aborted read's handler stops it.
DetachedIsReclaimed ==
    \A s \in Sessions :
        (running /\ socket[s] = "closed" /\ read[s] \in {"pending", "failed"})
            ~> (s \notin Mapped \/ ~running)

\* "only session_manager can close the socket" (session::stop): a socket is
\* closed by a step in which a session_manager drops the session.
OnlyManagerCloses ==
    [][\A s \in Sessions : socket[s] = "open" /\ socket'[s] = "closed" => s \notin Mapped']_vars
=============================================================================
