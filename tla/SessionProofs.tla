---------------------------- MODULE SessionProofs ----------------------------
(***************************************************************************)
(* Proofs that sessions, their servers and main's loop keep their          *)
(* invariants for every set of servers and sockets, and every number of    *)
(* writes in flight and of exceptions.                                     *)
(***************************************************************************)
EXTENDS Session, TLAPS

-----------------------------------------------------------------------------
(* The operators                                                           *)

\* A session is mapped if the map of some server has it.
LEMMA MappedDef ==
    ASSUME NEW s
    PROVE  s \in Mapped <=> \E srv \in Servers : s \in session_map_[srv]
BY DEF Mapped

\* session_manager::stop of a mapped session closes its socket and takes it,
\* and nothing else, out of every map.
LEMMA StopLemma ==
    ASSUME TypeOK, NEW s \in Sessions, Stop(s)
    PROVE  /\ socket' \in [Sessions -> {"none", "open", "closed"}]
           /\ session_map_' \in [Servers -> SUBSET Sessions]
           /\ \A srv \in Servers : session_map_'[srv] = session_map_[srv] \ {s}
           /\ \A t \in Sessions : t # s => socket'[t] = socket[t]
           /\ s \in Mapped => socket'[s] = "closed"
           /\ s \notin Mapped => socket'[s] = socket[s]
BY MappedDef DEF TypeOK, Stop, Stopped

\* session::shutdown closes one socket and changes no map.
LEMMA ShutdownLemma ==
    ASSUME TypeOK, NEW s \in Sessions, Shutdown(s)
    PROVE  /\ socket' \in [Sessions -> {"none", "open", "closed"}]
           /\ \A t \in Sessions : t # s => socket'[t] = socket[t]
           /\ socket'[s] = "closed"
           /\ session_map_' = session_map_
BY DEF TypeOK, Shutdown, erase, Stopped

\* NextRead arms the read of one session only.
LEMMA NextReadLemma ==
    ASSUME TypeOK, NEW s \in Sessions, read' = NextRead(s)
    PROVE  /\ read' \in [Sessions -> {"none", "pending", "ready", "failed"}]
           /\ \A t \in Sessions : t # s => read'[t] = read[t]
           /\ read'[s] = IF socket'[s] = "open" THEN "pending" ELSE "none"
BY DEF TypeOK, NextRead

\* The writes in flight and the closing ones among them, before and after.
WritesOK(w, c) ==
    /\ w \in [Sessions -> 0..MaxWrites] /\ c \in [Sessions -> 0..MaxWrites]
    /\ \A s \in Sessions : c[s] <= w[s]

\* do_write adds at most one write, and one that closes only with it.
LEMMA SentLemma ==
    ASSUME TypeOK, NEW s \in Sessions, NEW is_close \in BOOLEAN, Sent(s, is_close)
    PROVE  WritesOK(writes', closers')
<1>1. MaxWrites \in Nat
  BY ConstantsAssumption
<1>2. CASE socket[s] = "open"
  <2>1. /\ writes[s] \in 0..MaxWrites /\ closers[s] \in 0..MaxWrites
        /\ writes[s] < MaxWrites /\ closers[s] <= writes[s]
    BY <1>2 DEF TypeOK, Sent
  <2>2. writes' = [writes EXCEPT ![s] = writes[s] + 1]
    BY <1>2 DEF Sent
  <2>3. \/ closers' = [closers EXCEPT ![s] = closers[s] + 1]
        \/ closers' = closers
    BY <1>2 DEF Sent, TypeOK
  <2>4. writes[s] + 1 \in 0..MaxWrites /\ closers[s] + 1 \in 0..MaxWrites
    BY <2>1, <1>1
  <2>5. /\ writes' \in [Sessions -> 0..MaxWrites]
        /\ closers' \in [Sessions -> 0..MaxWrites]
    BY <2>2, <2>3, <2>4 DEF TypeOK
  <2>6. ASSUME NEW t \in Sessions PROVE closers'[t] <= writes'[t]
    <3>1. closers[t] <= writes[t] /\ closers[t] \in Nat /\ writes[t] \in Nat
      BY <1>1 DEF TypeOK
    <3>. QED BY <3>1, <2>2, <2>3 DEF TypeOK
  <2>. QED BY <2>5, <2>6 DEF WritesOK
<1>3. CASE socket[s] # "open"
  BY <1>3 DEF Sent, TypeOK, WritesOK
<1>. QED BY <1>2, <1>3

-----------------------------------------------------------------------------
(* The invariant of maps and sockets                                       *)

\* The servers start with empty maps.
LEMMA InitInv == Init => SessionInv /\ OpenIsRead /\ StillAccepting
BY ConstantsAssumption
   DEF Init, SessionInv, TypeOK, UnmappedIsClosed, UnacceptedIsIdle, Mapped, OpenIsRead,
       StillAccepting

\* What a step does to the maps, the sockets and the reads, as far as the
\* invariant needs it: a session enters a map when its socket is accepted, and
\* leaves all of them together with its socket being closed.
MapsStep ==
    /\ session_map_' \in [Servers -> SUBSET Sessions]
    /\ socket' \in [Sessions -> {"none", "open", "closed"}]
    /\ \A a, b \in Servers : a # b => session_map_'[a] \cap session_map_'[b] = {}
    /\ \A s \in Sessions : socket'[s] = "open" => s \in Mapped'
    /\ \A s \in Sessions : socket'[s] = "none" => s \notin Mapped' /\ socket[s] = "none"

\* session_manager::stop: the session leaves its map and its socket is closed.
LEMMA StopMaps ==
    ASSUME SessionInv, NEW s \in Sessions, Stop(s)
    PROVE  MapsStep
<1>. USE DEF SessionInv
<1>1. \A t \in Sessions : t \in Mapped' <=> t \in Mapped /\ t # s
  BY StopLemma DEF Mapped
<1>2. s \in Mapped \/ socket[s] # "open"
  BY DEF UnmappedIsClosed
<1>. QED
  BY <1>1, <1>2, StopLemma DEF MapsStep, TypeOK, UnmappedIsClosed, UnacceptedIsIdle

\* shutdown() closes a socket and leaves the session in its map.
LEMMA ShutdownMaps ==
    ASSUME SessionInv, NEW s \in Sessions, Shutdown(s)
    PROVE  MapsStep
<1>. USE DEF SessionInv
<1>1. Mapped' = Mapped
  BY ShutdownLemma DEF Mapped
<1>. QED
  BY <1>1, ShutdownLemma DEF MapsStep, TypeOK, UnmappedIsClosed, UnacceptedIsIdle

\* Most handlers touch neither the maps nor the sockets.
LEMMA SameMaps ==
    ASSUME SessionInv, UNCHANGED <<socket, session_map_>>
    PROVE  MapsStep
BY DEF SessionInv, MapsStep, TypeOK, UnmappedIsClosed, UnacceptedIsIdle, Mapped

\* The accept handler adds the session of a socket that was in no map.
LEMMA AcceptMaps ==
    ASSUME SessionInv, NEW srv \in Servers, NEW s \in Sessions, Accept(srv, s)
    PROVE  MapsStep
<1>. USE DEF SessionInv
<1>1. \A t \in Sessions : t \in Mapped' <=> t \in Mapped \/ t = s
  BY DEF Mapped, Accept, Added, TypeOK
<1>2. \A a \in Servers : s \notin session_map_[a]
  BY DEF Accept, UnacceptedIsIdle, Mapped
<1>. QED
  BY <1>1, <1>2 DEF Accept, Added, MapsStep, TypeOK, UnmappedIsClosed, UnacceptedIsIdle

\* stop_all closes what it takes out of the map of a signalled server.
LEMMA SignalMaps ==
    ASSUME SessionInv, NEW srv \in Servers, Signal(srv)
    PROVE  MapsStep
<1>. USE DEF SessionInv
<1>1. \A t \in Sessions : t \in Mapped' <=> \E a \in Servers : a # srv /\ t \in session_map_[a]
  BY DEF Mapped, Signal, stop_all, TypeOK
<1>2. \A t \in Sessions : socket'[t] = IF t \in session_map_[srv] THEN "closed" ELSE socket[t]
  BY DEF Signal, stop_all, Stopped, TypeOK
<1>3. \A t \in Sessions : t \in Mapped <=> t \in Mapped' \/ t \in session_map_[srv]
  BY <1>1 DEF Mapped
<1>. QED
  BY <1>1, <1>2, <1>3
     DEF Signal, stop_all, Stopped, MapsStep, TypeOK, UnmappedIsClosed, UnacceptedIsIdle

-----------------------------------------------------------------------------
(* Every step                                                              *)

\* Every step keeps maps and sockets together.
LEMMA MapsLemma ==
    ASSUME SessionInv, [Next]_vars
    PROVE  MapsStep
<1>1. ASSUME NEW srv \in Servers, Server(srv) PROVE MapsStep
  <2>1. ASSUME NEW s \in Sessions, Accept(srv, s) PROVE MapsStep
    BY <2>1, AcceptMaps
  <2>2. CASE AcceptThrows(srv)
    BY <2>2, SameMaps DEF AcceptThrows, conns
  <2>3. CASE Signal(srv)
    BY <2>3, SignalMaps
  <2>. QED BY <1>1, <2>1, <2>2, <2>3 DEF Server
<1>2. ASSUME NEW s \in Sessions, Connection(s) PROVE MapsStep
  <2>1. CASE ReadCompletes(s) \/ LateRead(s) \/ Parsed(s) \/ BufferFull(s) \/ Push(s)
    BY <2>1, SameMaps DEF ReadCompletes, LateRead, Parsed, BufferFull, Push
  <2>2. CASE ReadFailed(s) \/ WriteStops(s)
    BY <2>2, StopMaps DEF ReadFailed, WriteStops
  <2>3. CASE ParseThrows(s) \/ Detach(s)
    BY <2>3, ShutdownMaps DEF ParseThrows, Detach
  <2>4. CASE WriteCompletes(s)
    BY <2>4, SameMaps, StopMaps DEF WriteCompletes
  <2>. QED BY <1>2, <2>1, <2>2, <2>3, <2>4 DEF Connection
<1>3. CASE Restart
  BY <1>3, SameMaps DEF Restart, conns
<1>4. CASE UNCHANGED vars
  BY <1>4, SameMaps DEF vars, conns
<1>. QED BY <1>1, <1>2, <1>3, <1>4 DEF Next

\* Every step keeps the writes in flight within their bound.
LEMMA WritesLemma ==
    ASSUME SessionInv, [Next]_vars
    PROVE  WritesOK(writes', closers')
<1>. USE DEF SessionInv
<1>1. CASE UNCHANGED <<writes, closers>>
  BY <1>1 DEF TypeOK, WritesOK
<1>2. ASSUME NEW s \in Sessions, WriteCompletes(s) PROVE WritesOK(writes', closers')
  <2>1. /\ writes[s] \in 0..MaxWrites /\ closers[s] \in 0..MaxWrites /\ MaxWrites \in Nat
        /\ writes[s] > 0 /\ closers[s] <= writes[s]
    BY <1>2, ConstantsAssumption DEF TypeOK, WriteCompletes
  <2>2. writes' = [writes EXCEPT ![s] = writes[s] - 1]
    BY <1>2 DEF WriteCompletes
  <2>3. \/ closers[s] < writes[s] /\ closers' = closers
        \/ closers[s] > 0 /\ closers' = [closers EXCEPT ![s] = closers[s] - 1]
    BY <1>2 DEF WriteCompletes
  <2>4. /\ writes' \in [Sessions -> 0..MaxWrites]
        /\ closers' \in [Sessions -> 0..MaxWrites]
    BY <2>1, <2>2, <2>3 DEF TypeOK
  <2>5. ASSUME NEW t \in Sessions PROVE closers'[t] <= writes'[t]
    <3>1. closers[t] <= writes[t] /\ closers[t] \in Nat /\ writes[t] \in Nat
      BY <2>1 DEF TypeOK
    <3>. QED BY <3>1, <2>1, <2>2, <2>3 DEF TypeOK
  <2>. QED BY <2>4, <2>5 DEF WritesOK
<1>3. ASSUME NEW s \in Sessions, Parsed(s) PROVE WritesOK(writes', closers')
  BY <1>1, <1>3, SentLemma DEF Parsed
<1>4. ASSUME NEW s \in Sessions, Push(s) PROVE WritesOK(writes', closers')
  BY <1>4, SentLemma DEF Push
<1>5. ASSUME NEW srv \in Servers, Server(srv) PROVE UNCHANGED <<writes, closers>>
  BY <1>5 DEF Server, Accept, AcceptThrows, Signal, conns
<1>6. ASSUME NEW s \in Sessions, Connection(s),
             ~WriteCompletes(s), ~Parsed(s), ~Push(s)
      PROVE  UNCHANGED <<writes, closers>>
  BY <1>6 DEF Connection, ReadCompletes, LateRead, ReadFailed, ParseThrows, WriteStops,
              BufferFull, Detach
<1>7. CASE Restart \/ UNCHANGED vars
  BY <1>7, <1>1 DEF Restart, vars, conns
<1>. QED BY <1>1, <1>2, <1>3, <1>4, <1>5, <1>6, <1>7 DEF Next

\* What a step does to the listeners and the exceptions.
ListenersOK ==
    /\ acceptor' \in [Servers -> {"open", "closed"}]
    /\ accepts' \in [Servers -> Nat]
    /\ running' \in BOOLEAN
    /\ throws' \in 0..MaxThrows /\ thrown' \in 0..throws'
    /\ overflowed' \subseteq Sessions

\* Every step keeps their types, and a server that accepts goes on accepting.
LEMMA ListenersLemma ==
    ASSUME SessionInv, StillAccepting, [Next]_vars
    PROVE  ListenersOK /\ StillAccepting'
<1>. USE DEF SessionInv
<1>0. /\ thrown \in Nat /\ throws \in Nat /\ thrown <= throws /\ throws <= MaxThrows
      /\ MaxThrows \in Nat /\ \A srv \in Servers : accepts[srv] \in Nat
  BY ConstantsAssumption DEF TypeOK
<1>1. CASE UNCHANGED <<acceptor, accepts, running, thrown, throws, overflowed>>
  BY <1>1 DEF TypeOK, ListenersOK, StillAccepting
<1>2. ASSUME NEW srv \in Servers, AcceptThrows(srv) PROVE ListenersOK /\ StillAccepting'
  <2>1. /\ accepts' = [accepts EXCEPT ![srv] = accepts[srv] - 1] /\ accepts[srv] > 0
        /\ thrown' = thrown + 1 /\ throws' = throws + 1 /\ throws < MaxThrows
        /\ UNCHANGED <<acceptor, running, overflowed>>
    BY <1>2 DEF AcceptThrows, Throw
  <2>2. \A a \in Servers : accepts'[a] \in Nat
    BY <2>1, <1>0 DEF TypeOK
  <2>3. accepts' \in [Servers -> Nat]
    BY <2>1, <2>2 DEF TypeOK
  <2>. QED BY <2>1, <2>2, <2>3, <1>0 DEF TypeOK, ListenersOK, StillAccepting
<1>3. ASSUME NEW srv \in Servers, Signal(srv) PROVE ListenersOK /\ StillAccepting'
  BY <1>3 DEF TypeOK, ListenersOK, StillAccepting, Signal
<1>4. CASE Restart
  <2>1. /\ thrown > 0 /\ thrown' = thrown - 1
        /\ UNCHANGED <<acceptor, running, throws, overflowed>>
    BY <1>4 DEF Restart
  <2>2. \A a \in Servers : accepts'[a] = IF acceptor[a] = "open" THEN accepts[a] + 1 ELSE accepts[a]
    BY <1>4 DEF Restart, Rearmed
  <2>3. accepts' \in [Servers -> Nat]
    BY <1>4, <1>0 DEF Restart, Rearmed
  <2>. QED BY <2>1, <2>2, <2>3, <1>0 DEF TypeOK, ListenersOK, StillAccepting
<1>5. ASSUME NEW s \in Sessions, BufferFull(s) PROVE ListenersOK /\ StillAccepting'
  <2>1. /\ thrown' = thrown + 1 /\ throws' = throws + 1 /\ throws < MaxThrows
        /\ UNCHANGED <<acceptor, accepts, running>> /\ overflowed' = overflowed \cup {s}
    BY <1>5 DEF BufferFull, Throw, listeners
  <2>. QED BY <2>1, <1>0 DEF TypeOK, ListenersOK, StillAccepting
<1>6. ASSUME NEW srv \in Servers, NEW s \in Sessions, Accept(srv, s)
      PROVE  UNCHANGED <<acceptor, accepts, running, thrown, throws, overflowed>>
  BY <1>6 DEF Accept, listeners
<1>7. ASSUME NEW s \in Sessions, Connection(s), ~BufferFull(s)
      PROVE  UNCHANGED <<acceptor, accepts, running, thrown, throws, overflowed>>
  BY <1>7 DEF Connection, ReadCompletes, LateRead, ReadFailed, Parsed, ParseThrows, WriteStops,
              WriteCompletes, Push, Detach, listeners
<1>8. CASE UNCHANGED vars
  BY <1>8, <1>1 DEF vars, listeners
<1>. QED BY <1>1, <1>2, <1>3, <1>4, <1>5, <1>6, <1>7, <1>8 DEF Next, Server

\* What a step does to the reads: a socket that is not accepted is not read,
\* and an open one is, unless its buffer overflowed.
ReadsOK ==
    /\ read' \in [Sessions -> {"none", "pending", "ready", "failed"}]
    /\ \A s \in Sessions : socket'[s] = "none" => read'[s] = "none"
    /\ OpenIsRead'

\* Every step keeps open connections read.
LEMMA ReadsLemma ==
    ASSUME SessionInv, OpenIsRead, [Next]_vars
    PROVE  ReadsOK
<1>. USE DEF SessionInv
<1>0. /\ read \in [Sessions -> {"none", "pending", "ready", "failed"}]
      /\ socket \in [Sessions -> {"none", "open", "closed"}]
      /\ \A s \in Sessions : socket[s] = "none" => read[s] = "none"
  BY DEF TypeOK, UnacceptedIsIdle
<1>1. ASSUME UNCHANGED <<read, overflowed>>,
             \A s \in Sessions : socket'[s] = socket[s] \/ socket'[s] = "closed"
      PROVE  ReadsOK
  BY <1>0, <1>1 DEF ReadsOK, OpenIsRead
<1>2. ASSUME NEW srv \in Servers, Server(srv) PROVE ReadsOK
  <2>1. ASSUME NEW s \in Sessions, Accept(srv, s) PROVE ReadsOK
    BY <1>0, <2>1 DEF ReadsOK, OpenIsRead, Accept
  <2>2. CASE AcceptThrows(srv)
    BY <1>1, <2>2 DEF AcceptThrows, conns
  <2>3. CASE Signal(srv)
    BY <1>1, <2>3 DEF Signal, stop_all, Stopped
  <2>. QED BY <1>2, <2>1, <2>2, <2>3 DEF Server
<1>3. ASSUME NEW s \in Sessions, Connection(s) PROVE ReadsOK
  <2>1. CASE ReadCompletes(s)
    BY <1>0, <2>1 DEF ReadsOK, OpenIsRead, ReadCompletes
  <2>2. CASE LateRead(s)
    <3>1. socket[s] # "open"
      BY <2>2 DEF LateRead, UnmappedIsClosed
    <3>. QED BY <1>0, <2>2, <3>1 DEF ReadsOK, OpenIsRead, LateRead
  <2>3. CASE ReadFailed(s)
    BY <1>0, <2>3, StopLemma DEF ReadsOK, OpenIsRead, ReadFailed
  <2>4. CASE Parsed(s)
    BY <1>0, <2>4, NextReadLemma DEF ReadsOK, OpenIsRead, Parsed
  <2>5. CASE ParseThrows(s)
    BY <1>0, <2>5, NextReadLemma, ShutdownLemma DEF ReadsOK, OpenIsRead, ParseThrows
  <2>6. CASE WriteStops(s)
    BY <1>0, <2>6, NextReadLemma, StopLemma DEF ReadsOK, OpenIsRead, WriteStops, Received
  <2>7. CASE BufferFull(s)
    BY <1>0, <2>7 DEF ReadsOK, OpenIsRead, BufferFull
  <2>8. CASE WriteCompletes(s)
    <3>1. \A t \in Sessions : socket'[t] = socket[t] \/ socket'[t] = "closed"
      BY <2>8, StopLemma DEF WriteCompletes
    <3>. QED BY <1>1, <2>8, <3>1 DEF WriteCompletes
  <2>9. CASE Push(s)
    BY <1>1, <2>9 DEF Push
  <2>10. CASE Detach(s)
    <3>1. \A t \in Sessions : socket'[t] = socket[t] \/ socket'[t] = "closed"
      BY <2>10, ShutdownLemma DEF Detach
    <3>. QED BY <1>1, <2>10, <3>1 DEF Detach
  <2>. QED BY <1>3, <2>1, <2>2, <2>3, <2>4, <2>5, <2>6, <2>7, <2>8, <2>9, <2>10 DEF Connection
<1>4. CASE Restart
  BY <1>1, <1>4 DEF Restart, conns
<1>5. CASE UNCHANGED vars
  BY <1>1, <1>5 DEF vars, conns
<1>. QED BY <1>2, <1>3, <1>4, <1>5 DEF Next

-----------------------------------------------------------------------------
(* The theorems                                                            *)

\* Every step keeps the invariant of maps, sockets, writes and listeners.
LEMMA SessionStep ==
    ASSUME SessionInv, OpenIsRead, StillAccepting, [Next]_vars
    PROVE  SessionInv' /\ OpenIsRead' /\ StillAccepting'
<1>1. TypeOK'
  BY MapsLemma, WritesLemma, ListenersLemma, ReadsLemma
     DEF TypeOK, MapsStep, WritesOK, ListenersOK, ReadsOK
<1>2. UnmappedIsClosed' /\ UnacceptedIsIdle'
  BY MapsLemma, ReadsLemma DEF UnmappedIsClosed, UnacceptedIsIdle, MapsStep, ReadsOK
<1>. QED BY <1>1, <1>2, ListenersLemma, ReadsLemma DEF SessionInv, ReadsOK

\* Whatever stops a session (a failed read or write, a closing answer, the
\* signal), its socket is closed when it leaves its session_manager: no open
\* connection is without a session, and no session is in two managers.
THEOREM SessionSafe == Spec => []SessionInv
<1>1. Init => SessionInv /\ OpenIsRead /\ StillAccepting
  BY InitInv
<1>2. SessionInv /\ OpenIsRead /\ StillAccepting /\ [Next]_vars
        => (SessionInv /\ OpenIsRead /\ StillAccepting)'
  BY SessionStep
<1>. QED BY <1>1, <1>2, PTL DEF Spec

\* do_read's loop never stops on an open connection, unless the read buffer's
\* limit threw out of it: the peer's close is always noticed.
THEOREM OpenStaysRead == Spec => []OpenIsRead
<1>1. Init => SessionInv /\ OpenIsRead /\ StillAccepting
  BY InitInv
<1>2. SessionInv /\ OpenIsRead /\ StillAccepting /\ [Next]_vars
        => (SessionInv /\ OpenIsRead /\ StillAccepting)'
  BY SessionStep
<1>. QED BY <1>1, <1>2, PTL DEF Spec

\* A server with an open acceptor has an async_accept outstanding, or the
\* exception that cut its loop is still to reach the catch of main() that
\* restarts it, however many exceptions there are and wherever they come from.
THEOREM ServersKeepAccepting == Spec => []StillAccepting
<1>1. Init => SessionInv /\ OpenIsRead /\ StillAccepting
  BY InitInv
<1>2. SessionInv /\ OpenIsRead /\ StillAccepting /\ [Next]_vars
        => (SessionInv /\ OpenIsRead /\ StillAccepting)'
  BY SessionStep
<1>. QED BY <1>1, <1>2, PTL DEF Spec
=============================================================================
