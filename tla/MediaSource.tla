----------------------------- MODULE MediaSource -----------------------------
(***************************************************************************)
(* media::media_source and its global registry, the ownership token, and   *)
(* the RTMP publishers (rtmp_protocol) and HTTP viewers (http_protocol)    *)
(* that share them.                                                        *)
(*                                                                         *)
(* A key is a complete schema/vhost/app/stream name; a source is the       *)
(* number of its creation.  The registry holds weak_ptrs: an entry may     *)
(* outlive its source until unregist() runs.  A media_info is shared by    *)
(* the connection that made it and the sources created from it, and every  *)
(* publish command of that connection rewrites its key.                    *)
(*                                                                         *)
(* A publisher whose message throws is shut down but stays in the session  *)
(* map, so its rtmp_protocol keeps its source and its token; one whose     *)
(* read fails is destroyed.                                                *)
(***************************************************************************)
EXTENDS Integers, FiniteSets

CONSTANTS
    Publishers, Viewers,
    Keys,
    MaxSources,   \* bound: sources ever created
    MaxConnects,  \* bound: connect commands per connection
    IoThreads     \* at most so many threads run the io_context (1 with -DDEBUG)

NoKey == "no key"
NoOne == "no one"

ASSUME ConstantsAssumption ==
    /\ MaxSources \in Nat /\ MaxConnects \in Nat /\ IoThreads \in Nat \ {0}
    /\ NoKey \notin Keys /\ NoOne \notin Publishers
    /\ IsFiniteSet(Publishers) /\ IsFiniteSet(Viewers)

Sources == 1..MaxSources
Infos == Publishers \X (1..MaxConnects)
None == 0  \* an empty pointer to a source

VARIABLES
    media_sources_,  \* registry: the source each key's weak_ptr names
    life,            \* "none", "live", "dying" (refcount 0, not unregistered), "dead"
    source_info,     \* media_source::media_info_
    stream_id,       \* the key each media_info holds now
    owned_, is_registered_, dispatcher_, meta_data_,
    conn,            \* publisher: "open", "shut" (leaked) or "gone"
    step,            \* publisher, inside a handler: "idle", "taking", "releasing"
    media_info_,     \* number of the connect command that made it, or None
    rtmp_source_, src_ownership_,
    found,           \* on_amf_publish's media_ptr
    hold,            \* start_flv_muxing's media_src_ptr
    reply,           \* what the viewer was answered
    threads,         \* threads that run the io_context
    reg_key,         \* history: the key regist() used
    unreg_key        \* history: the key unregist() used

sources == <<life, source_info, owned_, is_registered_, dispatcher_, meta_data_>>
publishers == <<conn, step, media_info_, rtmp_source_, src_ownership_, found>>
viewers == <<hold, reply>>
history == <<reg_key, unreg_key>>
vars == <<media_sources_, sources, stream_id, publishers, viewers, threads, history>>

Live(s) == s # None /\ life[s] = "live"
created == Cardinality({s \in Sources : life[s] # "none"})
KeyOf(s) == stream_id[source_info[s]]

\* Handlers in progress, a destructor among them.
Busy == {p \in Publishers : step[p] # "idle"} \cup {v \in Viewers : hold[v] # None}
Dying == {s \in Sources : life[s] = "dying"}
ThreadFree == Cardinality(Busy) + Cardinality(Dying) < threads

Init ==
    /\ media_sources_ = [k \in Keys |-> None]
    /\ life = [s \in Sources |-> "none"]
    /\ source_info \in [Sources -> {<<NoOne, 0>>}]
    /\ stream_id = [i \in Infos |-> NoKey]
    /\ owned_ = [s \in Sources |-> FALSE]
    /\ is_registered_ = [s \in Sources |-> FALSE]
    /\ dispatcher_ = [s \in Sources |-> FALSE]
    /\ meta_data_ = [s \in Sources |-> NoOne]
    /\ conn = [p \in Publishers |-> "open"]
    /\ step = [p \in Publishers |-> "idle"]
    /\ media_info_ = [p \in Publishers |-> None]
    /\ rtmp_source_ = [p \in Publishers |-> None]
    /\ src_ownership_ = [p \in Publishers |-> None]
    /\ found = [p \in Publishers |-> None]
    /\ hold = [v \in Viewers |-> None]
    /\ reply = [v \in Viewers |-> "none"]
    /\ threads \in 1..IoThreads
    /\ reg_key = [s \in Sources |-> NoKey]
    /\ unreg_key = [s \in Sources |-> NoKey]

-----------------------------------------------------------------------------
(* Lifetime of a source                                                    *)

\* Fault: the registry's pointer counts.
HeldByRegistry(s) ==
    \/ \E p \in Publishers : rtmp_source_[p] = s \/ found[p] = s
    \/ \E v \in Viewers : hold[v] = s
    \/ \E k \in Keys : media_sources_[k] = s

Held(s) ==
    \/ \E p \in Publishers : rtmp_source_[p] = s \/ found[p] = s
    \/ \E v \in Viewers : hold[v] = s

\* Ends a step that drops shared_ptrs to sources: alive is life with the
\* sources the step made, and those nobody holds any more start to die.
DropUnheld(alive) ==
    life' = [s \in Sources |-> IF alive[s] = "live" /\ ~Held(s)' THEN "dying" ELSE alive[s]]

\* Fault: the deleter does nothing.
NotCleared(token) == owned_

\* The token's deleter: it clears owned_ if the source still lives.
Cleared(token) == [s \in Sources |-> owned_[s] /\ ~(s = token /\ Live(s))]

\* Faults of erase(): whatever the key names goes, or only what locks to s.
ErasedBlindly(s) == [media_sources_ EXCEPT ![KeyOf(s)] = None]

ErasedIfLocked(s) ==
    [media_sources_ EXCEPT ![KeyOf(s)] = IF @ = s /\ Live(@) THEN None ELSE @]

\* The registry without s's entry, or without a lost one under the same key;
\* another live source's entry stays.
Erased(s) ==
    LET k == KeyOf(s) IN
    [media_sources_ EXCEPT ![k] = IF @ = s \/ ~Live(@) THEN None ELSE @]

\* ~media_source
unregist(s) ==
    /\ life[s] = "dying"
    /\ media_sources_' = Erased(s)
    /\ is_registered_' = [is_registered_ EXCEPT ![s] = FALSE]
    /\ life' = [life EXCEPT ![s] = "dead"]
    /\ unreg_key' = [unreg_key EXCEPT ![s] = KeyOf(s)]
    /\ UNCHANGED <<source_info, owned_, dispatcher_, meta_data_, stream_id,
                   publishers, viewers, threads, reg_key>>

-----------------------------------------------------------------------------
(* The publisher's messages                                                *)

CanHandle(p) == conn[p] = "open" /\ step[p] = "idle" /\ ThreadFree

on_amf_connect(p) ==
    /\ CanHandle(p)
    /\ media_info_[p] < MaxConnects
    /\ media_info_' = [media_info_ EXCEPT ![p] = @ + 1]
    /\ UNCHANGED <<media_sources_, sources, stream_id, conn, step, rtmp_source_,
                   src_ownership_, found, viewers, threads, history>>

\* on_amf_publish up to get_ownership(): parse_stream, find(), and the reset
\* of the token when a live source was found.
on_amf_publish(p, k) ==
    LET s == media_sources_[k] IN
    /\ CanHandle(p)
    /\ media_info_[p] # None
    /\ Live(s) \/ created + Cardinality({q \in Publishers : step[q] = "taking"}) < MaxSources
    /\ stream_id' = [stream_id EXCEPT ![<<p, media_info_[p]>>] = k]
    /\ step' = [step EXCEPT ![p] = "taking"]
    /\ IF Live(s)
       THEN /\ found' = [found EXCEPT ![p] = s]
            /\ owned_' = Cleared(src_ownership_[p])
            /\ src_ownership_' = [src_ownership_ EXCEPT ![p] = None]
       ELSE UNCHANGED <<found, owned_, src_ownership_>>
    /\ UNCHANGED <<media_sources_, life, source_info, is_registered_, dispatcher_, meta_data_, conn, media_info_, rtmp_source_, viewers, threads, history>>

\* get_ownership() of a source of its own.
TakeNew(p) ==
    LET s == created + 1 IN
    /\ step[p] = "taking" /\ found[p] = None
    /\ source_info' = [source_info EXCEPT ![s] = <<p, media_info_[p]>>]
    /\ owned_' = [Cleared(src_ownership_[p]) EXCEPT ![s] = TRUE]
    /\ src_ownership_' = [src_ownership_ EXCEPT ![p] = s]
    /\ rtmp_source_' = [rtmp_source_ EXCEPT ![p] = s]
    /\ step' = [step EXCEPT ![p] = "idle"]
    /\ UNCHANGED <<media_sources_, stream_id, is_registered_, dispatcher_, meta_data_, conn, media_info_, found, viewers, threads, history>>
    /\ DropUnheld([life EXCEPT ![s] = "live"])

\* on_recv catches an exception: shutdown() closes the socket and no more.
Shut(p) == conn' = [conn EXCEPT ![p] = "shut"]

\* Fault: owned_ is not tested.
NeverRefused(s) == FALSE

\* get_ownership() is refused while owned_ is set.
Refused(s) == owned_[s]

\* Fault: the refusal is not an error.
RefusalIgnored(p) == UNCHANGED conn

\* The refusal's exception reaches on_recv, which shuts the session down.
OnRefusal(p) == Shut(p)

\* get_ownership() of the source find() returned.
TakeFound(p) ==
    LET s == found[p] IN
    /\ step[p] = "taking" /\ s # None
    /\ IF Refused(s)
       THEN /\ OnRefusal(p)
            /\ UNCHANGED <<owned_, src_ownership_, rtmp_source_>>
       ELSE /\ owned_' = [owned_ EXCEPT ![s] = TRUE]
            /\ src_ownership_' = [src_ownership_ EXCEPT ![p] = s]
            /\ rtmp_source_' = [rtmp_source_ EXCEPT ![p] = s]
            /\ UNCHANGED conn
    /\ found' = [found EXCEPT ![p] = None]
    /\ step' = [step EXCEPT ![p] = "idle"]
    /\ UNCHANGED <<media_sources_, stream_id, source_info, is_registered_, dispatcher_,
                   meta_data_, media_info_, viewers, threads, history>>
    /\ DropUnheld(life)

\* Any message that cannot be parsed.
Malformed(p) ==
    /\ CanHandle(p)
    /\ Shut(p)
    /\ UNCHANGED <<media_sources_, sources, stream_id, step, media_info_, rtmp_source_,
                   src_ownership_, found, viewers, threads, history>>

\* on_process_metadata and init_tracks
on_process_metadata(p) ==
    LET s == rtmp_source_[p] IN
    /\ CanHandle(p)
    /\ IF s = None
       THEN Shut(p) /\ UNCHANGED <<dispatcher_, meta_data_>>
       ELSE /\ meta_data_' = [meta_data_ EXCEPT ![s] = p]
            /\ dispatcher_' = [dispatcher_ EXCEPT ![s] = TRUE]
            /\ UNCHANGED conn
    /\ UNCHANGED <<media_sources_, life, source_info, owned_, is_registered_,
                   stream_id, step, media_info_, rtmp_source_, src_ownership_, found, viewers, threads,
                   history>>

\* regist(): the key is free or its source is lost; or it is s's already.
CanRegist(s) == LET e == media_sources_[KeyOf(s)] IN ~Live(e) \/ e = s

\* Fault: tracks need not be initialised.
PushUninitialised(p) == rtmp_source_[p] # None /\ src_ownership_[p] # None

\* handle_chunk for MSG_AUDIO and MSG_VIDEO, and process_av_packet
PushAllowed(p) ==
    /\ rtmp_source_[p] # None /\ src_ownership_[p] # None
    /\ dispatcher_[rtmp_source_[p]]

process_av_packet(p, is_config) ==
    LET s == rtmp_source_[p]
        regists == PushAllowed(p) /\ ~is_registered_[s] /\ ~is_config
    IN
    /\ CanHandle(p)
    /\ IF PushAllowed(p) /\ (regists => CanRegist(s)) THEN UNCHANGED conn ELSE Shut(p)
    /\ IF regists /\ CanRegist(s) /\ media_sources_[KeyOf(s)] # s
       THEN /\ media_sources_' = [media_sources_ EXCEPT ![KeyOf(s)] = s]
            /\ is_registered_' = [is_registered_ EXCEPT ![s] = TRUE]
            /\ reg_key' = [reg_key EXCEPT ![s] = KeyOf(s)]
       ELSE UNCHANGED <<media_sources_, is_registered_, reg_key>>
    /\ UNCHANGED <<life, source_info, owned_, dispatcher_, meta_data_, stream_id, step,
                   media_info_, rtmp_source_, src_ownership_, found, viewers, threads, unreg_key>>

\* The read fails: session_manager::stop erases the session and ~rtmp_protocol
\* destroys meta_data_, the token, and then rtmp_source_.
Close(p) ==
    /\ CanHandle(p)
    /\ conn' = [conn EXCEPT ![p] = "gone"]
    /\ owned_' = Cleared(src_ownership_[p])
    /\ src_ownership_' = [src_ownership_ EXCEPT ![p] = None]
    /\ step' = [step EXCEPT ![p] = "releasing"]
    /\ UNCHANGED <<media_sources_, life, source_info, is_registered_, dispatcher_, meta_data_, stream_id, media_info_, rtmp_source_, found, viewers, threads, history>>

ReleaseSource(p) ==
    /\ step[p] = "releasing"
    /\ rtmp_source_' = [rtmp_source_ EXCEPT ![p] = None]
    /\ step' = [step EXCEPT ![p] = "idle"]
    /\ UNCHANGED <<media_sources_, source_info, owned_, is_registered_, dispatcher_, meta_data_, stream_id, conn, media_info_, src_ownership_, found, viewers, threads,
                   history>>
    /\ DropUnheld(life)

-----------------------------------------------------------------------------
(* The viewer's request                                                    *)

\* start_flv_muxing: find() and what it decides.  A lost source is answered
\* 200 first, and 500 when start_muxing refuses the null pointer.
start_flv_muxing(v, k) ==
    LET s == media_sources_[k] IN
    /\ reply[v] = "none" /\ hold[v] = None /\ ThreadFree
    /\ \/ s = None /\ reply' = [reply EXCEPT ![v] = "404"] /\ UNCHANGED hold
       \/ s # None /\ ~Live(s) /\ reply' = [reply EXCEPT ![v] = "500"] /\ UNCHANGED hold
       \/ Live(s) /\ hold' = [hold EXCEPT ![v] = s] /\ UNCHANGED reply
    /\ UNCHANGED <<media_sources_, sources, stream_id, publishers, threads, history>>

\* start_muxing reads the source's metadata, registers a reader and returns.
StreamStarted(v) ==
    /\ hold[v] # None
    /\ reply' = [reply EXCEPT ![v] = "200"]
    /\ hold' = [hold EXCEPT ![v] = None]
    /\ UNCHANGED <<media_sources_, source_info, owned_, is_registered_, dispatcher_, meta_data_, stream_id, publishers, threads, history>>
    /\ DropUnheld(life)

-----------------------------------------------------------------------------
Publisher(p) ==
    \/ on_amf_connect(p)
    \/ \E k \in Keys : on_amf_publish(p, k)
    \/ TakeNew(p)
    \/ TakeFound(p)
    \/ Malformed(p)
    \/ on_process_metadata(p)
    \/ \E is_config \in BOOLEAN : process_av_packet(p, is_config)
    \/ Close(p)
    \/ ReleaseSource(p)

Viewer(v) ==
    \/ \E k \in Keys : start_flv_muxing(v, k)
    \/ StreamStarted(v)

Next ==
    \/ \E p \in Publishers : Publisher(p)
    \/ \E v \in Viewers : Viewer(v)
    \/ \E s \in Sources : unregist(s)

Spec == Init /\ [][Next]_vars

\* Handlers and destructors that have started finish.
Fairness ==
    /\ \A p \in Publishers : WF_vars(TakeNew(p) \/ TakeFound(p) \/ ReleaseSource(p))
    /\ \A v \in Viewers : WF_vars(StreamStarted(v))
    /\ \A s \in Sources : WF_vars(unregist(s))

FairSpec == Spec /\ Fairness

-----------------------------------------------------------------------------
(* Properties                                                              *)

\* Types of the registry, the sources and the connections; whoever holds a
\* source holds a live one.
TypeOK ==
    /\ media_sources_ \in [Keys -> {None} \cup Sources]
    /\ life \in [Sources -> {"none", "live", "dying", "dead"}]
    /\ source_info \in [Sources -> Infos \cup {<<NoOne, 0>>}]
    /\ stream_id \in [Infos -> Keys \cup {NoKey}]
    /\ owned_ \in [Sources -> BOOLEAN] /\ is_registered_ \in [Sources -> BOOLEAN]
    /\ dispatcher_ \in [Sources -> BOOLEAN]
    /\ meta_data_ \in [Sources -> Publishers \cup {NoOne}]
    /\ conn \in [Publishers -> {"open", "shut", "gone"}]
    /\ step \in [Publishers -> {"idle", "taking", "releasing"}]
    /\ media_info_ \in [Publishers -> 0..MaxConnects]
    /\ rtmp_source_ \in [Publishers -> {None} \cup Sources]
    /\ src_ownership_ \in [Publishers -> {None} \cup Sources]
    /\ found \in [Publishers -> {None} \cup Sources]
    /\ hold \in [Viewers -> {None} \cup Sources]
    /\ reply \in [Viewers -> {"none", "200", "404", "500"}]
    /\ threads \in 1..IoThreads
    /\ reg_key \in [Sources -> Keys \cup {NoKey}]
    /\ unreg_key \in [Sources -> Keys \cup {NoKey}]
    /\ \A p \in Publishers : rtmp_source_[p] # None => Live(rtmp_source_[p])
    /\ \A p \in Publishers : found[p] # None => Live(found[p])
    /\ \A v \in Viewers : hold[v] # None => Live(hold[v])

\* A stream on the air stays in the registry under the key it registered:
\* neither another publisher's regist() nor the late unregist() of an older
\* source of that key displaces it.
RegisteredStaysListed ==
    \A s \in Sources : Live(s) /\ is_registered_[s] => media_sources_[reg_key[s]] = s

\* The token is exclusive, and owned_ is set exactly while somebody has it.
ExclusiveOwnership ==
    /\ \A p, q \in Publishers :
         p # q /\ src_ownership_[p] # None => src_ownership_[p] # src_ownership_[q]
    /\ \A s \in Sources : Live(s) =>
         (owned_[s] <=> \E p \in Publishers : src_ownership_[p] = s)

\* A handler runs on an open connection, a destructor on one that is gone; the
\* token is that of the source the connection holds, and it is given back
\* before another source's is taken and before the source is released.
ConnectionsInOrder ==
    \A p \in Publishers :
        /\ step[p] = "taking" => /\ conn[p] = "open" /\ media_info_[p] # None
                                 /\ stream_id[<<p, media_info_[p]>>] \in Keys
        /\ step[p] = "releasing" => conn[p] = "gone"
        /\ conn[p] = "gone" =>
             src_ownership_[p] = None /\ (step[p] = "idle" => rtmp_source_[p] = None)
        /\ found[p] # None => step[p] = "taking" /\ src_ownership_[p] = None
        /\ src_ownership_[p] # None => src_ownership_[p] = rtmp_source_[p]

\* Publishers about to create a source.
Creators == {p \in Publishers : step[p] = "taking" /\ found[p] = None}

\* Sources are created one after the other, each from a media_info that has a
\* key, and there is a number left for every creation that has begun.
SourcesInOrder ==
    /\ \E n \in 0..MaxSources : \A s \in Sources : life[s] # "none" <=> s <= n
    /\ created + Cardinality(Creators) <= MaxSources
    /\ \A s \in Sources :
         /\ life[s] # "none" => source_info[s] \in Infos /\ KeyOf(s) \in Keys
         /\ life[s] = "none" => ~is_registered_[s] /\ meta_data_[s] = NoOne

\* What is registered or listed has a dispatcher, and that has metadata.
ListedWithMetadata ==
    /\ \A s \in Sources :
         /\ is_registered_[s] => dispatcher_[s] /\ reg_key[s] \in Keys
         /\ dispatcher_[s] => meta_data_[s] # NoOne
    /\ \A k \in Keys : media_sources_[k] # None => dispatcher_[media_sources_[k]]

\* A connection that was shut down after it lost its token, and keeps source s.
Leaked(p, s) == conn[p] = "shut" /\ rtmp_source_[p] = s /\ src_ownership_[p] = None

\* With one io thread handlers do not overlap; a source is shared by two
\* connections, or kept without the one whose metadata it points to, only if
\* a connection leaks it.
OneThread ==
    threads = 1 =>
        /\ \A p, q \in Publishers : step[p] # "idle" /\ step[q] # "idle" => p = q
        /\ \A p \in Publishers, v \in Viewers : step[p] # "idle" => hold[v] = None
        /\ \A p, q \in Publishers :
             p # q /\ rtmp_source_[p] # None /\ rtmp_source_[p] = rtmp_source_[q] =>
                Leaked(p, rtmp_source_[p]) \/ Leaked(q, rtmp_source_[q])
        /\ \A s \in Sources : Live(s) /\ meta_data_[s] # NoOne =>
             rtmp_source_[meta_data_[s]] = s \/ \E p \in Publishers : Leaked(p, s)

\* Types, the token, and how connections, sources and the registry's entries
\* come and go.
RegistryInv ==
    /\ TypeOK /\ ExclusiveOwnership /\ ConnectionsInOrder
    /\ SourcesInOrder /\ ListedWithMetadata /\ OneThread

\* handle_chunk only tests that there is a token: between messages the token
\* of an open connection is the one of the source it pushes into.
PushesIntoOwnSource ==
    \A p \in Publishers : conn[p] = "open" /\ step[p] = "idle" =>
        src_ownership_[p] = rtmp_source_[p]

\* A source that find() can return has its dispatcher and its metadata, so
\* that start_muxing neither throws nor reads an uninitialised pointer.
ListedIsServable ==
    \A k \in Keys : Live(media_sources_[k]) =>
        dispatcher_[media_sources_[k]] /\ meta_data_[media_sources_[k]] # NoOne

\* An entry whose source is destroyed is left behind only by a connection
\* that published another stream under the same media_info.
StaleEntryOnlyAfterRename ==
    \A k \in Keys : LET s == media_sources_[k] IN
        s # None /\ life[s] = "dead" => unreg_key[s] # k

\* The metadata map a viewer is about to read belongs to the rtmp_protocol
\* that sent it, not to the source: with one io thread that connection still
\* exists, unless the source is kept by a connection that was shut down after
\* losing its token to the refused publish of another stream.
MetadataAlive ==
    threads = 1 => \A s \in Sources : Live(s) /\ is_registered_[s] =>
        \/ conn[meta_data_[s]] # "gone" \/ step[meta_data_[s]] = "releasing"
        \/ \E p \in Publishers : Leaked(p, s)

\* Once every broadcaster has disconnected, every source is destroyed: no
\* token, viewer or half-finished handler keeps one alive.
SourcesEventuallyFreed ==
    (\A p \in Publishers : conn[p] = "gone") ~>
        (\A s \in Sources : life[s] \in {"none", "dead"})
=============================================================================
