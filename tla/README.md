# Verification of the streaming server

The program is a small live-streaming server: broadcasters push RTMP to port
1935, viewers pull HTTP-FLV from port 80, and everything between is in memory.
This directory holds TLA+ models of it, TLC configurations that check them on
small instances, and TLAPS proofs. `PROJECT.json` is the index: which
definition models which lines, what each run checks, the hazards the
properties are aimed at, and where the code disagrees with its own comments.

## 1. The system

| part | state | operations | talks to |
|---|---|---|---|
| `main`, `tcp_server` | acceptor, outstanding accepts, io_context | do_accept, restart, signal handler, the loop around `io_context.run()` | session_manager |
| `session`, `session_manager` | socket, is_closed_, read buffer; session_map_ | do_read, do_write, shutdown, stop; add, stop, erase, stop_all | protocols (on_recv), servers |
| `flat_buffer` | data_, capacity_, read_index_, write_index_, snapshot | socket_read_length, socket_consume, safe_consume, write, consume_or_fail, snapshots | session, rtmp_packet, AMF and codecs |
| `rtmp_protocol` | handshake step, chunk map, media_info_, rtmp_source_, src_ownership_, meta_data_ | handshake, split_rtmp, handle_chunk, connect, publish, metadata | media_source, session |
| `media_source` registry | media_sources_ (weak_ptrs); owned_, is_registered_ | find, regist, unregist, get_ownership | rtmp_protocol, http_protocol |
| `rtmp_media_source` | dispatcher_, meta_data_ (a raw pointer), config_frame_map_ | init_tracks, process_av_packet, get_dispatcher, get_metadata | packet_dispatcher |
| `packet_dispatcher`, `client_reader` | packet_list_, new_clients_, old_clients_; is_registered_ | distribute, regist_reader, deregist_reader, detach_all_readers; leave, detach, on_read | flv_muxer |
| `flv_muxer`, `resource_pool` | weak_client_reader_, a pool of header blocks | start_muxing, write_flv, destructor; obtain, recycle | dispatcher, session |
| `http_protocol` | header_, flv_muxer_ | request, start_flv_muxing, send_response | registry, flv_muxer |
| `amf`, `rtmp_packet` | none of their own | encode, decode | rtmp_protocol, flv_muxer |
| `rtmp_demuxer`, tracks, `SPSParser` | decoders with their tracks (parameter sets, size, frame rate, AAC configuration) | init_tracks_with_metadata, input_rtmp | rtmp_media_source |
| `media_info`, `http_flv_header` | the parts of a stream's name | parse_stream, extract_streaming_info | rtmp_protocol, http_protocol |

A packet's way: a read completes on the publisher's strand, `on_recv` parses
it, `process_av_packet` registers the source if need be and calls
`distribute`, which runs the `read_cb_` of every viewer, each of which starts
asynchronous writes on the viewer's socket. A broadcast ends when the last
`shared_ptr` to its source goes: the dispatcher's destructor detaches the
viewers, which closes their sockets, which aborts their reads, which takes
their sessions out of the map.

What is hard to get right here, and to test:

* `distribute` takes its locks three times, and viewers come and go in between;
* lifetime is by reference count: the destructor that ends a broadcast runs in
  whichever handler drops the last pointer, a viewer's as well as the publisher's;
* the registry holds weak pointers, so entries outlive sources, and destructors
  of old sources run after their successors have registered;
* an exception may leave a handler at every level: it is caught by `on_recv`
  (the session is closed and stays in the map), or by `main` (which restarts
  both accept loops);
* completions are queued: a stop or a detach happens between a completed read
  and its handler;
* writes are not queued: every `send` starts an asynchronous write of its own, on
  memory that mostly dies when the caller returns;
* parsers of bits and bytes have edges that no recorded stream has.

Threads: the sources start one io thread per CPU, but compiled with `-DDEBUG`,
as the Makefile always does, just one. The models take the number as a
constant (`IoThreads`): with one, a handler is not interrupted; with more, the
steps of different handlers interleave at the granularity of locks.

## 2. Modules

| module | models | lines in `PROJECT.json` under |
|---|---|---|
| `PacketDispatcher` | one dispatcher, its cache, its readers and its owners | `map.PacketDispatcher` |
| `PacketDispatcherProofs` | theorems about it, the refinement included | |
| `LiveChannel` | what a broadcast promises its viewers: the abstract specification of `PacketDispatcher` | |
| `MediaSource` | registry, ownership token, publishers' commands, viewers' requests | `map.MediaSource` |
| `MediaSourceProofs` | theorems about it | |
| `Session` | servers, sessions, managers, main's loop | `map.Session` |
| `SessionProofs` | theorems about it | |
| `FlatBuffer` | the buffer as session read buffer and as message buffer | `map.FlatBuffer` |
| `FlatBufferProofs` | theorems about it, the refinement included | |
| `ByteQueue` | what a buffer promises: the abstract specification of `FlatBuffer` | |
| `RtmpChunk` | handshake, `split_rtmp` and `send_rtmp`, a client that chunks messages, TCP | `map.RtmpChunk` |
| `RtmpChunkProofs` | theorems about it, the refinement included | |
| `MessageStream` | what a chunk stream promises: the abstract specification of `RtmpChunk` | |
| `FlvOutput` | one viewer's connection: requests, answers, the muxer's writes, a publisher's packets, the socket | `map.FlvOutput` |
| `FlvOutputProofs` | theorems about it: the connection, its muxers and their memory | |
| `FlvDeliveryProofs` | theorems about it: what the viewer is sent | |
| `Bytes` | the reading side of `flat_buffer`, byte order | `map.Bytes` |
| `Amf` | AMF0, the commands and the metadata | `map.Amf` |
| `SpsParser` | the H.264 part of `SPSParser.c` | `map.SpsParser` |
| `RtmpDemuxer` | tracks, NAL units, ADTS, times | `map.RtmpDemuxer` |
| `StreamName` | how publisher and viewer name a stream | `map.StreamName` |
| `FlvTag` | the bytes of an FLV file header and of a tag | `map.FlvTag` |
| `WireFormats` | the formats by their standards: reference definitions, no code | |
| `Codecs` | one call of a codec with one input, for TLC | |
| `MCPacketDispatcher`, `MCSession`, `MCRtmpChunk` | what TLC needs besides: symmetry, small header lengths, a bound | |

`Codecs` extends `WireFormats`, and that `Amf`, `RtmpDemuxer` (which extends `SpsParser`),
`StreamName` and `FlvTag`; all of these extend `Bytes`. `PacketDispatcher`, `FlatBuffer` and
`RtmpChunk` instantiate their abstract specifications.

Operators introduced by a comment that begins with "Fault" or "A faulty" are not
part of the models. Each is a wrong version of the definition that follows it and shows
that a property would notice (`mutants` in `PROJECT.json`).

### PacketDispatcher and LiveChannel

`packet_list_`, `new_clients_`, `old_clients_` and `is_registered_` are the
code's members. A packet is the number of the `distribute` call that carried
it. The critical sections of `distribute` are the actions `Dispatch`, `Cache`
and `Merge`; `pc` says which one is next. `viewer[r]` is how far the handler of
viewer r has come: `find`, `get_dispatcher`, `regist_reader` and `EndMuxing`
are the steps of `start_muxing` that another thread can see, `leave` and
`deregist_reader` those of `~flv_muxer`. Ownership is derived, not stored:
`Alive` says that the source or some handler on the way still holds the
dispatcher, and every step that drops a pointer ends with `DestroyIfUnowned`.
`source` is the publisher's side: it may let go, another publisher may take the
source a viewer still holds (`Reconnect`), and metadata sent again replaces
the dispatcher (`ReplaceDispatcher`).

`received` is a history of what each live muxer was handed. The `start_pts`
filter of `read_cb_` drops packets by their time stamp after that and keeps no
state, so it is left out. A reader is used once; a viewer that asks again is
another reader, as in the code.

`LiveChannel` knows nothing of caches, locks and pointers: packets are published one
by one, viewers join, and at some moment those who wait are tuned in, with the stream
from the newest IDR frame on that is no more than `Depth` packets back, and get
every packet from then on. When the channel goes off the air all of them are told.
`RefinesChannel` is the refinement: `Dispatch` publishes, `Cache` shows nothing, `Merge`
tunes in, `regist_reader` joins, the end of a muxer leaves, and the step
that drops the last pointer to the dispatcher, whichever that is, goes off the air.

### MediaSource

A key is a complete schema/vhost/app/stream name, a source the number of its
creation. `life` follows a source from creation over the moment its count
drops to zero ("dying": weak pointers no longer lock, `unregist` has not run)
to the end. `source_info` and `stream_id` keep apart which `media_info` a source
has and what that says now, because a connection that publishes a second
stream rewrites it. `on_amf_publish` is two steps, since `find` and
`get_ownership` lock separately; `Close` and `ReleaseSource` are the two ends of
`~rtmp_protocol` (the token goes before the source). A connection whose message
throws is "shut": its socket is closed, and everything it holds stays, because
its session is never erased (see `session_closes` below).

### Session

`session_map_` is one map per server. A session is destroyed when it leaves
the map, as handlers hold only weak pointers. `read` is the session's one read:
in flight, completed and queued, or none. `writes` counts asynchronous writes,
`closers` those with `is_close`. `thrown` counts exceptions that have left
`io_context.run()` and have not reached `main`'s catch. Every handler is one
action: a session's handlers share a strand. `ReadCompletes` is the operating
system's and Boost's part.

### FlatBuffer and ByteQueue

The storage is a function from index to byte number, Junk where nothing was
written, and each allocation is a new `block`. `do_read` keeps the address it hands
to `async_read_some` in `region`, so that a read into a block that is gone is
visible as such. The two arguments in session.cpp:34 are evaluated right to
left, as GCC does (the Dockerfile builds with it); the other order is the fault
`PointerFirst`. A message's buffer goes through `write`, then either the AMF
reads or `capture_snapshot`, the decoder's reads and `restore_snapshot`.
`ByteQueue` says what that must look like from outside, and `RefinesQueue` is the
refinement: the queue is the unread part. `prepend` is not called by the
program and left out.

### RtmpChunk and MessageStream

The wire is a sequence of chunks, each with the fields its format carries;
`size` is the number of bytes in the session's buffer and `in_flight` the number
TCP still has. `split_rtmp` finds the end of a chunk from the header and from
`now`, `last` (the pair in `chunked_data_map_`) and `chunk_size_in_`, and the model
does the same: `Required` is what the parser thinks a chunk takes, `WireLength`
what it does take. One round of the parser's loop is one action: `NeedHeader`
(nothing kept), `NeedBody` (the header has been applied already and will be
again), `split_rtmp` (a whole chunk) or `HandlerThrows`. If the two lengths ever
differ the parser is out of step with the stream, which `InSync` reports.

The client is any that follows the rules for chunks: every format, absolute
and relative time stamps, the extended field, type 3 chunks that start or
continue a message, interleaved chunk streams, Set Chunk Size, empty messages,
C2 and messages in one read. Or the sender is `send_rtmp` itself,
so that the program's two ends are checked against each other.
A payload is a number of bytes, and for Set Chunk Size the value. `owed` and `out`
are histories, for the refinement of `MessageStream`. The message stream id,
carried along like the type, is left out, and so are the acknowledgements:
`windows_size_` is never set, so both branches are dead.

### FlvOutput

A viewer's side, at the granularity of the steps other handlers can see. There
are two strands, the viewer's and the publisher's, and `todo` holds for each the
list of steps its handler has still to do: a `send`, the return of a call, the
creation of a muxer, `regist_reader`, a call of `read_cb_`, the end of the pointer
it holds. A handler starts when its strand is idle and one of the `cpus`
threads is free; with two threads the two lists interleave step by step, but
for `client_mtx_`, which the loops of `distribute` hold.

A write remembers the memory it reads and the call whose return frees that
(`mem`, `scope`, `block`); a write from freed memory sends junk. `Start` is what asio
does with it: at once, as far as `MaxTransfer` and the send buffer allow, and the
rest when its own completion has run, behind whatever was sent meanwhile. `due`
is what the viewer should be sent, byte by byte; `garbled` is set by the first
byte that differs, `split` by the first write that is not taken whole at once,
`fate` keeps what went wrong: a null pointer, a use after the end of the session,
a muxer that died inside a loop, an answer cut off.

Everything but a packet's body is one byte long. The registry is reduced to
whether the source is there; `PacketDispatcher` and `MediaSource` have the rest.

### Codecs

Pure functions, translated as operators. A reader takes the unread bytes and
returns a value with the rest, or throws (`Got`, `Thrown`, `Then`). Bytes are real
bytes, with these exceptions: protocol names ("connect", "app") are one byte
each; an AMF number has `2 * WordBytes` bytes, with the two words of the code;
in names, the labels that are searched for ("vhost=", ".flv") count as one
character. Each behaviour of `Codecs` is one call: `Init` chooses an operation and
its input, the action leaves the result, and the properties compare it with
`WireFormats`, which is written from the formats and shares no definition
with the translated encoders and parsers but the readers of `Bytes` and
`SpsParser`'s bits of a byte.

`SpsParser` writes the syntax of a parameter set as a table: `Syntax` lists in order what
`h264DecSeqParameterSet` reads, each element with the flags it depends on and the checks
that end the reading in their places, and `Decode` reads one element after the other.
A field that is cut off has what the code's readers return at the end of the data:
a flag counts as set, a number as zero.

## 3. Runs

| run | shows | bounds |
|---|---|---|
| `dispatcher` | the inductive invariant of the proofs, with the types, that old clients are up to date and that the two sets partition the readers in it; the cache is the decodable tail of the stream; no viewer gets a gap or a duplicate; nobody is orphaned; detach only at the end; all together is a live channel, which also says where a viewer starts and who is told of the end; new clients are served by the call in progress; everybody is released in the end | 2 readers, 4 packets, a cache of 2, 3 threads: overflow with and without an IDR frame, a join in every section, the last owner a viewer; 97,000 states |
| `registry` | a listed stream stays listed; the token is exclusive; what can be found can be served; what lost entries mean; nobody pushes into a source it does not own, and the metadata a viewer reads still exists (these two with one thread); sources are freed in the end | 2 publishers, 1 viewer, 2 keys, 2 sources, 1 or 2 threads: two competing publishers, a rename, a late destructor; 98,000 states |
| `session` | sockets, maps, reads and accept loops stay consistent; a detached viewer's session is reclaimed | 2 servers, 2 sessions, 2 writes, 2 exceptions; 412,000 states |
| `buffer` | the buffer is a byte queue; reads in flight have room; its size is bounded, and the limit hits only a flooding client; decoding leaves a packet intact | capacity 4, reads of 2, limit 9, 13 bytes: compaction, one growth and the limit all occur; 31,000 states |
| `chunk` | the parser never loses its place in the stream, never waits for bytes that will not come, and hands on what was sent, in order, with its length and time stamp; the same of what `send_rtmp` writes | 2 chunk streams with basic headers of one and three bytes, 2 chunks on the wire, headers of 4 to 1 bytes, messages of 0 and 3 bytes, chunk sizes 2 and 1, a Set Chunk Size of 2 bytes, time stamps modulo 3 with 2 as the extended mark: every format after every other, every cut of the stream, wrapping time stamps; once both streams are in use, no time stamps (`TwoPlain`); 930,000 states |
| `player` | while every write is taken whole the viewer gets its answers and tags byte by byte: what is still due is what the handlers are still to send, neither strand gets in between the other's writes, and a session that an answer stops has sent all of it; no block a write still reads is in the pool; with one thread nothing touches a session after its end (again while writes are taken whole) and no muxer dies inside a loop of `distribute`; an answer that closes does | 2 requests (1 with two threads), 2 packets of 1 or 3 bytes, a send buffer of 3, transfers of 2, 1 or 2 threads: every kind of request, a second request on a playing connection, the end of the broadcast in every step, a full send buffer; 438,000 states |
| `codecs` | objects, command answers and FLV tags can be read by a conforming peer; commands, metadata, bits, codes, parameter sets, NAL units and stream names of a conforming peer are understood; what is cut or of the wrong type is refused | 89,000 states, two for each input: strings of 0, 255, 256 and 300 bytes, zero bytes at the start, in the middle and at the end of them, every cut of the last bytes, every bit position and width, all byte strings of up to 6 or 7 bytes over small alphabets, every chroma format, depth, scaling list and picture order type, frame rates with numbers up to 2,000,000,000 at every place in a byte, times above 2^24 |

Lengths only matter through comparison and addition, so that small ones stand
for 12, 8, 4 and 1, for 4 and for 1536; the constants are in the modules.

Deadlock checking is off in all of them: every bounded broadcast comes to an
end, a stopped server does nothing more, a buffer's message gets decoded, a
connection whose handler threw is closed, and a codec returns once.

Five runs show a disagreement between the code and a comment in it, and TLC's
counterexample is the explanation (`findings` in `PROJECT.json`):

* `dispatcher_leave`: `leave()` does not release a reader that has been served.
* `session_closes`: `shutdown` closes the socket and leaves the session in the map.
* `player_order`: a packet that does not go out at once is overtaken by the size
  that is sent after it.
* `player_bad_request`: a first request that cannot be parsed ends the process, in
  `~http_protocol`.
* `metadata`: the metadata tag has keys without values.

Some properties name the exceptions they have, because the code has them, and
TLC reaches each:

* `MetadataAlive`: a refused publish leaves a shut session that holds a source
  whose token, and then whose metadata, another publisher had.
* `OpenIsRead`: a session whose buffer hit its limit is deaf but open.
* `AnsweredInFull`, `NoUseAfterFree`: only while every write is taken
  whole at once (`player_order` is the other case). With two threads a session can
  end between the lock of its muxer and the send, and a muxer can die in the loop.
* `BitsRead`: of a field that lies in five bytes the bits in the first are lost.
* `SpsUnderstood`: the same of the two 32-bit fields of the frame rate where they do not
  begin a byte. One bit into a byte, a `time_scale` of 2^24 or more can be read as another number;
  seven bits into it, one of 2^30 or more. The size of the picture is right all the same.
* `AmfAnswered`: strings go through `c_str()` and `strlen` when they are written, and when
  they become a value of an object, and end at their first zero byte; an application or `tcUrl`
  that begins with one is refused as empty. Keys, metadata and stream names are taken whole.
* `EmulationUndone`, `SpsUnderstood`: three zeros and a three lose the three.
* `SpsUnderstood`: a left crop that is no multiple of 32 (16) is rounded; the height
  of interlaced video is not doubled.
* `MediaDelivered`: a presentation time of zero is replaced by the decoding time.
* `ViewerFindsPublisher`: names begin with a letter, since `parse_stream` drops what
  comes before the first one.

### Fairness

`dispatcher` and `registry` assume that a handler or destructor that has
started finishes: these are straight-line code under locks that are always
released. Nothing is assumed of clients: no publisher has to send, no viewer
has to join or leave. `session` assumes that the io_context runs the handler
of a completed read, and that closing a socket completes the read in flight
on it (Boost guarantees both), and that main's catch goes on. Nothing is
assumed about reads on open sockets or about writes. `player` assumes that
handlers run to their end and that the io threads run posted completions;
nothing about the viewer, who may stop reading for ever.

## 4. Proofs

Each theorem holds for every value of the constants that the module's
`ConstantsAssumption` allows, and rests on nothing else.

| module | theorems | for every |
|---|---|---|
| `PacketDispatcherProofs` | `DispatcherInvariant`, `DispatcherTypeOK`, `CacheCorrect`, `StreamCorrect`, `StartCorrect`, `NobodyOrphaned`; `DetachOnlyAtEnd` (an action property); `BroadcastIsChannel` (the refinement of `LiveChannel`) | set of readers, cache size, number of packets and io threads |
| `MediaSourceProofs` | `RegistrySafe`, `StreamStaysListed`, `FoundIsServable`, `NoStaleEntry`, `PushesOwnSource`, `MetadataNotDangling` | finite set of publishers and of viewers, set of keys, number of sources, connects and io threads |
| `SessionProofs` | `SessionSafe`, `OpenStaysRead`, `ServersKeepAccepting` | set of servers and sessions, bound on writes and exceptions |
| `FlatBufferProofs` | `BufferSafe`, `ReadsHaveRoom`, `LimitIsEnforced`, `MessageIntact`; `BufferIsQueue` (the refinement of `ByteQueue`) | initial capacity, read size, limit, word size and number of bytes |
| `RtmpChunkProofs` | `PlaceKept`, `NeverStuck`; `Reassembly` (the refinement of `MessageStream`) | set of chunk streams, of message lengths and of chunk sizes, length of headers and handshake, width of time stamps, number of chunks on the wire |
| `FlvOutputProofs` | `ConnectionSafe`, `BlocksNotReused`, `SessionOutlivesUse`, `LoopKeepsItsMuxer` | number of io threads, requests and packets, size of send buffer, transfers, packets and pool |
| `FlvDeliveryProofs` | `OutputSafe`, `AnswersDelivered` | the same; with several io threads, one request |

`Induction`, which `RtmpChunkProofs` and `FlvDeliveryProofs` extend, has induction over the naturals
as a fact about sets of them (`SetInduction`, from the well-foundedness of the naturals).

What is proved by induction is in each case an invariant that a run checks too
(`IndInv`, `RegistryInv`, `SessionInv`, `BufferInv`, `OutputInv`), where need be together
with some of the properties themselves; the other theorems follow from it. The
exception is `RtmpChunk`, where the invariant says that certain functions exist, which
TLC cannot evaluate; there the run checks what follows from it. Why they have the
parts they have:

**PacketDispatcher.** "No gap" is not inductive: to append a
packet to a viewer's history one must know that the last one it got is the
one before. For old clients this is `OldClientsUpToDate`; for new ones that they
have got nothing and that the cache is a consecutive run (`CacheIsLiveTail`).
`CacheIsLiveTail` in turn depends on where `distribute` stands, since between
`Dispatch` and `Cache` the newest packet is sent but not cached (`CachedCount`).
`StartsDecodable` speaks of the future ("no IDR frame in the next max_size_
packets"), so `ReaderHistory` adds that these packets are already published when
the viewer gets its first one. `NoOrphanViewer` needs that a viewer with a muxer
is in one of the two sets (`ReadersPartitioned`) with its flag set
(`ReaderHistory`).
The lemmas follow that: `CachedLemma` (what one step does to the cache),
`ConsecutiveAppend`, `DestroyMembers` (what the end of a step that drops a pointer
does to the sets), then one lemma per part and its steps (`TypeStep`, `CacheStep`,
`OldClientsStep`, `StreamStep`, `MembersStep`).
The refinement adds that nobody is forgotten: a viewer with a muxer is in one of the
sets or detached (`NobodyForgotten`). The heart of it is `CacheIsWindow`: when `Merge` hands
the cache to the new clients it is the window of the stream from the latest start on. What
`detach_all_readers` does in the step of a viewer is told apart from that step by
`PlainMoveIsLeave` and `DestroyIsGoOffAir`: the muxer that drops the last pointer is not
in the audience any more, so that one abstract step is enough.

**MediaSource.** That a registered stream can be found needs to know whose entry the
registry has: sources are numbered in the order of their creation, every connection
that will still create one has a number left, and the token a connection holds is that
of the source it holds. The exceptions of `MetadataAlive` and `StaleEntryOnlyAfterRename`
are invariants of their own: what a refused publish leaves behind is a shut
connection, and a stale entry is one of a source whose name was rewritten. The
properties of one io thread (`PushesIntoOwnSource`, `MetadataAlive`) use that then at
most one handler is between two of its steps, which is an argument about the
cardinality of the set of busy connections; hence the finiteness of `Publishers` and `Viewers`.

**Session.** A session that is in no map and was not accepted yet is idle in every other
respect; a read that is in flight or queued is one of a session that exists; an accept is
outstanding on each server or an exception is on its way to main, which restarts it.

**FlatBuffer.** The unread bytes are the newest that arrived, in order and without a
gap, wherever compaction or growth has put them, and while a read is in flight the
region it was given lies in the current block behind them. A message's buffer keeps
its bytes between `capture_snapshot` and `restore_snapshot`. The refinement maps the queue
to the unread part: every step either appends, consumes or leaves it.

**RtmpChunk.** The parser decides from its own context where a chunk ends, the sender from
its own, and the two are as far apart as the wire is long. So `IInv` says that the wire is
a *trace* (`Trace`): there is a sequence of contexts, one before and one after each chunk,
from one that agrees with the parser's to the sender's present one, such that every chunk is
what a sender in that context writes (`Link`), and `owed` is what the chunks that end a
message carry. Sending joins a trace to the end (`TracedConcat`), parsing a chunk takes
its first link off (`TracedTail`). What `send_rtmp` writes for a message is a trace
too (`PiecesTraced`), for which the pieces have to be counted (`PieceLengths`).

The parser agrees with the start of the trace (`InContext`) with one exception: when a chunk's
header is there and its body is not, the header has already been applied to the
packet, and is applied again when more has arrived. `HeaderAgain` shows that the second
time changes nothing, time stamp deltas included. `Place` adds the sum: what is in the buffer
and in flight is the handshake that is left and the chunks of the wire (`InSync`), and between
two calls of `on_recv` less has arrived than the parser waits for (`Waiting`), from which
`NothingStuck` follows. For the refinement, a chunk that ends a message carries the
message that has been owed longest, so each iteration of the loop delivers that or nothing.

The lengths of the chunks on a wire of any length are summed by a recursive function.
The facts about it are proved by induction, over the set of the numbers for which they hold.

**FlvOutput.** Handlers are lists of steps, so the invariant speaks of lists: a
request's list has at most one `create`, and nothing that needs a muxer before it
(`ViewerInOrder`); the list of `distribute` is the rest of one `read_cb_` up to its
`release`, for as long as `holding` is set, and then steps of the loops (`InReadCb`). With
one io thread only one of the two lists is not empty, and what `read_cb_` holds
is the session's muxer: hence `NoUseAfterFree` and `MuxerDiesOutsideLoop`, which are
part of the induction. `InFlightNotPooled` holds because pools only shrink: their
blocks are numbered, a pool has the first of them, and a write has one beyond those
(`BlocksInOrder`). `NothingLeft` says that without a split write no completion goes on, the case
in which the session would be used after its end.

`AnsweredInFull` says that `due` is what the two handlers are still to send, the viewer's first. That
is not inductive: a publisher's write would come too early if the viewer's handler had one left,
and a new answer would be added behind the packets under way. So `DeliveryInv` says why neither
happens. With one io thread a handler starts when the other strand is idle. With more there
is one request (a bound of `on_recv`: the answer to a second one would be written among the tags of
the first, by two threads, and nothing in the code prevents that), and so two times (`OneAtATime`): until `regist_reader` runs the publisher has no reader to call, and from then on
the viewer's handler has nothing left to send, since `regist_reader` is the last of it
(`StepsInTurn`). What a step still to do will send depends on the session's muxer and its `start_pts`;
when those change, no call of the old muxer may be under way, or it must be that of
another (`MuxersInOrder`). The session is not stopped under an answer, because nothing
is due any more when the completion runs that stops it (`NothingCutOff`).
In the proofs `Plan` is what a list of steps will send, and `Part` says of
a list that it sends certain bytes and does nothing else of interest. Parts are put together with
`PartConcat`, from one write up to the whole answer (`WriteFlvPart`, `MuxingPart`,
`HandlerLemma`) and to a tag (`TagPart`), so that a handler's list is shown to send what
`on_recv` promises. That rests on what `FlattenSeq` does to lists one after the other
(`FlattenConcat`), proved by induction. `StartWhole` then shows that a write that is started
and taken whole removes just its bytes from the front of `due`.

Only model-checked:

* liveness, which is out of the prover's reach: `ViewersEventuallyReleased`, `NewClientServed`,
  `SourcesEventuallyFreed`, `DetachedIsReclaimed`, `AnswerCloses`;
* the codecs: what they compute for every input is a property of recursive operators, and where
  those are not in the way (`FlvTag`), of powers of 256 and 2, which no backend interprets.

## 5. Not modelled, and why

* Code the program does not run: the H.265 and PPS functions of `SPSParser.c`, AMF3
  integers, `flat_buffer::prepend` and copies of buffers, status 415, the
  acknowledgement windows (`windows_size_` is never set), `muxer::translate_frame`,
  which is empty.
* Chunk headers that break the rules, and parameter sets that are cut: the code
  promises nothing about those. Exp-Golomb codes with 31 or more leading zeros
  (undefined shifts) are not among the inputs.
* Parts of four hazards: what several io threads do to a muxer that dies in the loop, the
  session left in the map by a detach behind a completed read, the deaf session of a buffer
  at its limit, and a packet whose decoder threw. The models contain the first three, no
  property rules them out; the `note` of each hazard says which part is left.
* A source is registered by its first audio or video packet, config frame or not;
  no property depends on it.
* Data races on single pointers and maps when more than one io thread runs
  (`dispatcher_`, `session_map_`): a read or an update is one step of the models.
  With several threads `dispatcher_` is read by `start_muxing` while `init_tracks`
  assigns it; both outcomes are in `PacketDispatcher`, a torn pointer is not.
* `publish` before `connect` ends the program (null `media_info_`).
* Every exception that reaches `main` leaves one more accept outstanding on both
  servers; `Session` counts them, and no bound holds.
* Wording of HTTP responses and status texts, logging, the stopwatch, counters
  that nothing reads.
* Vendored code: `magic_enum`, the thread pool.

## 6. Plan

Done: the dispatcher, the registry, sessions, the buffer, the chunk stream and a viewer's
connection, with proofs, three of which (dispatcher, buffer, chunk stream) show that an
abstract specification is implemented; the codecs, model-checked. Left:

1. A composition of source, dispatcher and sessions: a broadcaster's disconnect leads
   to its viewers' sockets closed and sessions reclaimed. Each half is checked
   (`ViewersEventuallyReleased`, `DetachedIsReclaimed`), and the callback between them is
   one call.
