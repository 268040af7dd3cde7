-------------------------- MODULE PacketDispatcher --------------------------
(***************************************************************************)
(* media::packet_dispatcher and media::client_reader: one broadcaster's    *)
(* dispatcher, the packet cache in front of it and the viewers that        *)
(* register with it from flv_muxer::start_muxing and leave it from         *)
(* ~flv_muxer.                                                             *)
(*                                                                         *)
(* distribute() takes its locks three times, so it is three actions; every *)
(* other critical section is one.  A packet is the number of the           *)
(* distribute() call that carried it.  The dispatcher is owned by          *)
(* shared_ptrs: the source's dispatcher_ member, the viewers inside        *)
(* start_muxing and the viewers inside leave(); whoever drops the last one *)
(* runs the destructor, which detaches the readers that are left.          *)
(***************************************************************************)
EXTENDS Integers, Sequences, FiniteSets

CONSTANTS
    Readers,              \* client_reader objects, one per start_muxing
    MaxPackets,           \* bound: number of distribute() calls
    max_size,             \* argument of packet_dispatcher::create
    kMinPacketCacheSize,  \* 32 in the code
    IoThreads             \* threads that run the io_context (1 with -DDEBUG)

ASSUME ConstantsAssumption ==
    /\ MaxPackets \in Nat
    /\ max_size \in Nat
    /\ kMinPacketCacheSize \in Nat \ {0}
    /\ IoThreads \in Nat \ {0}

VARIABLES
    packet_list_,    \* the cache
    new_clients_,    \* registered, nothing sent yet
    old_clients_,    \* served packet by packet
    is_registered_,  \* client_reader::is_registered_
    source,          \* who holds the source that owns this dispatcher
    viewer,          \* where each viewer's flv_muxer is
    detached,        \* readers whose detach_cb_ has run
    pc,              \* the critical section distribute() enters next
    published,       \* history: number of distribute() calls
    keys,            \* history: packets distributed with is_idr
    received         \* history: packets each live muxer was handed by read_cb_

readers == <<new_clients_, old_clients_, is_registered_>>
stream == <<pc, published, keys>>
vars == <<packet_list_, readers, source, viewer, detached, stream, received>>

(***************************************************************************)
(* viewer[r]:  "idle"     before start_flv_muxing                          *)
(*             "found"    find() gave it the source                        *)
(*             "muxing"   start_muxing also holds this dispatcher          *)
(*             "joined"   in start_muxing, after regist_reader             *)
(*             "watching" start_muxing has returned                        *)
(*             "leaving"  in leave(), holds the dispatcher                 *)
(*             "left"     the muxer is destroyed, or it was given the      *)
(*                        source's next dispatcher                         *)
(* source:     "publishing" a publisher holds the source                   *)
(*             "released"   it let go; viewers in start_muxing may hold it *)
(*             "replaced"   init_tracks gave the source a new dispatcher   *)
(***************************************************************************)
ViewerStates == {"idle", "found", "muxing", "joined", "watching", "leaving", "left"}
SourceStates == {"publishing", "released", "replaced"}

max_size_ == IF max_size < kMinPacketCacheSize THEN kMinPacketCacheSize ELSE max_size

\* start_muxing holds rtmp_src_ptr to its end, and pkt_dispatcher from
\* get_dispatcher on; leave() holds strong_dispatcher_.
SourceHolders == {r \in Readers : viewer[r] \in {"found", "muxing", "joined"}}
DispatcherHolders == {r \in Readers : viewer[r] \in {"muxing", "joined", "leaving"}}

\* Somebody holds the source, and the source this dispatcher.
SourceAlive == source = "publishing" \/ (source = "released" /\ SourceHolders # {})
Alive == SourceAlive \/ DispatcherHolders # {}

\* read_cb_ locks its weak_ptr to the muxer: only a live one takes packets.
HasMuxer(r) == viewer[r] \in {"joined", "watching"}

\* Handlers in progress; one more can start if an io thread is free.
InHandler == Cardinality(SourceHolders \cup DispatcherHolders) + (IF pc = "idle" THEN 0 ELSE 1)
ThreadFree == InHandler < IoThreads

Init ==
    /\ packet_list_ = <<>>
    /\ new_clients_ = {} /\ old_clients_ = {}
    /\ is_registered_ = [r \in Readers |-> FALSE]
    /\ source = "publishing"
    /\ viewer = [r \in Readers |-> "idle"]
    /\ detached = {}
    /\ pc = "idle" /\ published = 0 /\ keys = {}
    /\ received = [r \in Readers |-> <<>>]

-----------------------------------------------------------------------------
(* distribute(pkt, is_idr)                                                 *)

\* on_read of every packet of pkts, in order, for every reader of clients.
OnRead(clients, pkts) ==
    [r \in Readers |-> IF r \in clients /\ HasMuxer(r)
                       THEN received[r] \o pkts ELSE received[r]]

\* Fault: the cache is not started afresh by an IDR frame.
CachedAcrossIdr(list, pkt, idrs) ==
    IF Len(list) >= max_size_ THEN Append(Tail(list), pkt) ELSE Append(list, pkt)

\* The cache after pkt: an IDR frame starts it afresh, any other packet is
\* appended once the front is trimmed to max_size_ - 1 packets.
Cached(list, pkt, idrs) ==
    LET room == max_size_ - 1
        kept == IF pkt \in idrs THEN <<>>
                ELSE IF Len(list) > room
                     THEN SubSeq(list, Len(list) - room + 1, Len(list)) ELSE list
    IN Append(kept, pkt)

\* 1. dispatch this single packet to old clients
Dispatch(is_idr) ==
    /\ pc = "idle" /\ source = "publishing"
    /\ published < MaxPackets
    /\ ThreadFree
    /\ published' = published + 1
    /\ keys' = IF is_idr THEN keys \cup {published'} ELSE keys
    /\ received' = OnRead(old_clients_, <<published'>>)
    /\ pc' = "cache"
    /\ UNCHANGED <<packet_list_, readers, source, viewer, detached>>

\* 2. emplace the packet at the back of the packet list
Cache ==
    /\ pc = "cache"
    /\ packet_list_' = Cached(packet_list_, published, keys)
    /\ pc' = "merge"
    /\ UNCHANGED <<readers, source, viewer, detached, published, keys, received>>

\* Faults of the third section: everybody is sent the cache, or new_clients_
\* is not cleared.
MergeServesAll ==
    /\ pc = "merge" /\ pc' = "idle"
    /\ received' = OnRead(old_clients_ \cup new_clients_, packet_list_)
    /\ old_clients_' = old_clients_ \cup new_clients_ /\ new_clients_' = {}
    /\ UNCHANGED <<packet_list_, is_registered_, source, viewer, detached, published, keys>>

MergeKeepsNew ==
    /\ pc = "merge" /\ pc' = "idle"
    /\ received' = OnRead(new_clients_, packet_list_)
    /\ old_clients_' = old_clients_ \cup new_clients_
    /\ UNCHANGED <<packet_list_, new_clients_, is_registered_, source, viewer, detached,
                   published, keys>>

\* 3. distribute the cached packets to new clients and merge two clients
Merge ==
    /\ pc = "merge"
    /\ received' = OnRead(new_clients_, packet_list_)
    /\ old_clients_' = old_clients_ \cup new_clients_
    /\ new_clients_' = {}
    /\ pc' = "idle"
    /\ UNCHANGED <<packet_list_, is_registered_, source, viewer, detached, published, keys>>

-----------------------------------------------------------------------------
(* ~packet_dispatcher: detach_all_readers                                  *)

\* Fault: the old clients are dropped without their detach callback.
DetachNewOnly(new) ==
    /\ detached' = detached \cup {r \in new : is_registered_[r]}
    /\ is_registered_' = [r \in Readers |-> IF r \in new THEN FALSE ELSE is_registered_[r]]
    /\ new_clients_' = {} /\ old_clients_' = {}

DetachAll(new) ==
    LET all == new \cup old_clients_ IN
    /\ detached' = detached \cup {r \in all : is_registered_[r]}
    /\ is_registered_' = [r \in Readers |-> IF r \in all THEN FALSE ELSE is_registered_[r]]
    /\ new_clients_' = {} /\ old_clients_' = {}

\* Fault: whoever drops a pointer detaches everybody.
DestroyAlways(new) == DetachAll(new)

\* The end of a step that drops a shared_ptr, with new the new_clients_ then.
DestroyIfUnowned(new) ==
    IF Alive' THEN new_clients_' = new /\ UNCHANGED <<old_clients_, is_registered_, detached>>
    ELSE DetachAll(new)

-----------------------------------------------------------------------------
(* The publisher's side: who holds the source                              *)

\* The publisher's rtmp_protocol goes, or publishes something else.
ReleaseSource ==
    /\ source = "publishing" /\ pc = "idle"
    /\ ThreadFree
    /\ source' = "released"
    /\ UNCHANGED <<packet_list_, viewer, stream, received>>
    /\ DestroyIfUnowned(new_clients_)

\* on_amf_publish finds the source that a viewer still holds, and takes it.
Reconnect ==
    /\ source = "released" /\ SourceAlive
    /\ ThreadFree
    /\ source' = "publishing"
    /\ UNCHANGED <<packet_list_, readers, viewer, detached, stream, received>>

\* init_tracks: dispatcher_ = rtmp_dispatcher::create()
ReplaceDispatcher ==
    /\ source = "publishing" /\ pc = "idle"
    /\ ThreadFree
    /\ source' = "replaced"
    /\ UNCHANGED <<packet_list_, viewer, stream, received>>
    /\ DestroyIfUnowned(new_clients_)

-----------------------------------------------------------------------------
(* The viewer's side: start_muxing and ~flv_muxer                          *)

\* find() locks the registry's weak_ptr, so somebody must hold the source.
find(r) ==
    /\ viewer[r] = "idle"
    /\ SourceAlive
    /\ ThreadFree
    /\ viewer' = [viewer EXCEPT ![r] = "found"]
    /\ UNCHANGED <<packet_list_, readers, source, detached, stream, received>>

\* By now init_tracks may have replaced the dispatcher.
get_dispatcher(r) ==
    /\ viewer[r] = "found"
    /\ viewer' = [viewer EXCEPT ![r] = IF source = "replaced" THEN "left" ELSE "muxing"]
    /\ UNCHANGED <<packet_list_, readers, source, detached, stream, received>>

\* Fault: the reader is not marked, so that leave() and detach() ignore it.
RegistUnmarked(r) ==
    /\ viewer[r] = "muxing"
    /\ new_clients_' = new_clients_ \cup {r}
    /\ viewer' = [viewer EXCEPT ![r] = "joined"]
    /\ UNCHANGED <<packet_list_, old_clients_, is_registered_, source, detached, stream, received>>

regist_reader(r) ==
    /\ viewer[r] = "muxing"
    /\ is_registered_' = [is_registered_ EXCEPT ![r] = TRUE]
    /\ new_clients_' = new_clients_ \cup {r}
    /\ viewer' = [viewer EXCEPT ![r] = "joined"]
    /\ UNCHANGED <<packet_list_, old_clients_, source, detached, stream, received>>

\* start_muxing returns and drops its pointers.
EndMuxing(r) ==
    /\ viewer[r] = "joined"
    /\ viewer' = [viewer EXCEPT ![r] = "watching"]
    /\ UNCHANGED <<packet_list_, source, stream, received>>
    /\ DestroyIfUnowned(new_clients_)

\* ~flv_muxer calls leave(), which returns early for a reader that is not
\* registered or whose dispatcher is gone, and else takes a shared_ptr.
leave(r) ==
    /\ viewer[r] = "watching"
    /\ ThreadFree
    /\ viewer' = [viewer EXCEPT ![r] =
                    IF is_registered_[r] /\ Alive THEN "leaving" ELSE "left"]
    /\ UNCHANGED <<packet_list_, readers, source, detached, stream, received>>

\* What deregist_reader erases.
Deregistered(r) == new_clients_ \ {r}

deregist_reader(r) ==
    /\ viewer[r] = "leaving"
    /\ viewer' = [viewer EXCEPT ![r] = "left"]
    /\ UNCHANGED <<packet_list_, source, stream, received>>
    /\ DestroyIfUnowned(Deregistered(r))

-----------------------------------------------------------------------------
Publisher ==
    \/ \E is_idr \in BOOLEAN : Dispatch(is_idr)
    \/ Cache
    \/ Merge
    \/ ReleaseSource
    \/ Reconnect
    \/ ReplaceDispatcher

Viewer(r) ==
    \/ find(r)
    \/ get_dispatcher(r)
    \/ regist_reader(r)
    \/ EndMuxing(r)
    \/ leave(r)
    \/ deregist_reader(r)

Next == Publisher \/ \E r \in Readers : Viewer(r)

Spec == Init /\ [][Next]_vars

\* A handler that has started runs to its end; no client has to send anything.
Fairness ==
    /\ WF_vars(Cache)
    /\ WF_vars(Merge)
    /\ \A r \in Readers : WF_vars(get_dispatcher(r) \/ regist_reader(r) \/ EndMuxing(r)
                                  \/ deregist_reader(r))

FairSpec == Spec /\ Fairness

-----------------------------------------------------------------------------
(* Properties                                                              *)

Last(s) == s[Len(s)]
Consecutive(s) == \A i \in 1..Len(s) : s[i] = s[1] + i - 1

\* Types, and the cache never outgrows max_size_ (packet_list_.size() in
\* distribute, whatever the distance between two IDR frames).
TypeOK ==
    /\ packet_list_ \in Seq(1..MaxPackets) /\ Len(packet_list_) <= max_size_
    /\ new_clients_ \subseteq Readers /\ old_clients_ \subseteq Readers
    /\ is_registered_ \in [Readers -> BOOLEAN]
    /\ source \in SourceStates
    /\ viewer \in [Readers -> ViewerStates]
    /\ detached \subseteq Readers
    /\ pc \in {"idle", "cache", "merge"}
    /\ published \in 0..MaxPackets
    /\ keys \subseteq 1..published
    /\ received \in [Readers -> Seq(1..MaxPackets)]

\* Packets that section 2 of distribute() has cached so far.
CachedCount == IF pc = "cache" THEN published - 1 ELSE published

\* A viewer that joins can start decoding: the cache ends with the newest
\* packet, has no hole, and starts with an IDR frame, unless the stream had
\* none yet (it then starts with packet 1) or the cache is full of packets
\* that follow an IDR frame pushed out of it.
CacheIsLiveTail ==
    LET len == Len(packet_list_) IN
    /\ \A i \in 1..len : packet_list_[i] = CachedCount - len + i
    /\ CachedCount > 0 => len > 0
    /\ len > 0 => /\ packet_list_[1] \in keys \cup {1} \/ len = max_size_
                  /\ \A k \in keys : k <= packet_list_[1] \/ k > CachedCount

\* Every viewer is sent a run of consecutive packets: no packet twice, none
\* skipped and none out of order, although distribute() sends the old clients
\* the packet before it caches it and the new ones the cache after.
NoGapNoDuplicate == \A r \in Readers : Consecutive(received[r])

\* A viewer that is served packet by packet has been sent the newest one.
OldClientsUpToDate ==
    \A r \in old_clients_ : HasMuxer(r) =>
        received[r] # <<>> /\ Last(received[r]) = published

\* What a viewer is sent first: packet 1, an IDR frame, or a packet with no
\* IDR frame in the max_size_ packets from it on (the cache had overflowed).
StartsDecodable ==
    \A r \in Readers : received[r] # <<>> =>
        LET first == received[r][1] IN
        first \in keys \cup {1} \/ \A k \in keys : k < first \/ k >= first + max_size_

\* A reader is in at most one of the two sets, and as long as the dispatcher
\* lives a registered viewer is in one of them: merge loses nobody, and
\* nobody is served twice.
ReadersPartitioned ==
    /\ new_clients_ \cap old_clients_ = {}
    /\ Alive => \A r \in Readers : HasMuxer(r) => r \in new_clients_ \cup old_clients_
    /\ ~Alive => new_clients_ \cup old_clients_ = {}

\* Nobody waits for a dispatcher that is gone: once it is destroyed, every
\* viewer that was watching has had its detach callback.
NoOrphanViewer ==
    ~Alive => \A r \in Readers : HasMuxer(r) => r \in detached /\ ~is_registered_[r]

\* detach() runs in the destructor alone: no viewer is detached while a
\* publisher holds the source and its dispatcher.
DetachedOnlyAtEnd == [][detached' # detached => source' # "publishing"]_vars

\* Once the broadcast is over for good, every viewer is detached or leaves.
ViewersEventuallyReleased ==
    <>[](source # "publishing") =>
        <>[](\A r \in Readers : HasMuxer(r) => r \in detached)

\* A viewer that registers before distribute() reaches its third section is
\* served by that call.
NewClientServed ==
    \A r \in Readers : (r \in new_clients_ /\ pc # "idle") ~> r \notin new_clients_

\* What the two sets, the flags and the histories have to do with where each
\* viewer is: a reader is in a set from regist_reader on, a new client has
\* been sent nothing, and a viewer's first packet that is neither an IDR frame
\* nor packet 1 was the oldest of a full cache.
ReaderHistory ==
    /\ \A r \in Readers :
        /\ viewer[r] \in {"idle", "found", "muxing"} =>
              r \notin new_clients_ \cup old_clients_ /\ received[r] = <<>>
        /\ r \in new_clients_ \cup old_clients_ => is_registered_[r]
        /\ r \in new_clients_ => received[r] = <<>>
        /\ (received[r] # <<>> /\ received[r][1] \notin keys \cup {1}) =>
              received[r][1] + max_size_ <= published + 1
    /\ pc # "idle" => source = "publishing" /\ published > 0

\* The inductive invariant behind the safety properties above.
IndInv ==
    /\ TypeOK
    /\ CacheIsLiveTail
    /\ NoGapNoDuplicate
    /\ OldClientsUpToDate
    /\ StartsDecodable
    /\ ReadersPartitioned
    /\ NoOrphanViewer
    /\ ReaderHistory

\* How a viewer stands to the broadcast: it belongs to the audience from
\* regist_reader to the end of its muxer.
Standing(r) ==
    IF viewer[r] \in {"idle", "found", "muxing"} THEN "out"
    ELSE IF ~HasMuxer(r) THEN "gone"
    ELSE IF r \in new_clients_ THEN "waiting"
    ELSE IF r \in old_clients_ THEN "tuned"
    ELSE IF r \in detached THEN "told" ELSE "forgotten"

Audience == [r \in Readers |-> Standing(r)]

\* A broadcast is a live channel: although distribute() sends a packet, caches
\* it and serves the new clients under three locks, and viewers come, leave and
\* drop the dispatcher in between, each is sent one window of the stream, which
\* starts at the newest IDR frame the cache reaches back to, and is told when
\* the channel goes off the air.
Channel == INSTANCE LiveChannel WITH
    Viewers <- Readers, Depth <- max_size_, on_air <- Alive, audience <- Audience
RefinesChannel == Channel!Spec

\* "release self from the packet_dispatcher" (leave): a reader that left is
\* in no set of the dispatcher.
LeaveReleasesReader ==
    \A r \in Readers : viewer[r] = "left" => r \notin new_clients_ \cup old_clients_
=============================================================================
