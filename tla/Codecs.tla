------------------------------- MODULE Codecs --------------------------------
(* The codecs on what their peers send them: a call takes one of the inputs *)
(* below and leaves its result, which is compared with the reference of     *)
(* WireFormats.                                                             *)
EXTENDS WireFormats

VARIABLES
    call,       \* the operation and its arguments
    done,       \* whether it has returned
    out         \* what it has returned

vars == <<call, done, out>>

-----------------------------------------------------------------------------
(* The inputs.                                                              *)

Strings ==
    {<<>>, <<97>>, <<97, 98>>, Copies(255, 97), Copies(256, 98), Copies(300, 99),
     <<0>>, <<97, 0, 98>>, Copies(300, 0), Copies(256, 98) \o <<0>>}
Numbers == {0, 1, 255, 256, 65535}
Keys == {<<1>>, <<1, 0>>}

StringCalls == [op : {"string"}, str : Strings]

\* The values there can be: a string that is made a value has lost its zero bytes.
Leaves == {StringValue(s) : s \in Strings} \cup {Number(n) : n \in Numbers}
Objects == {Object(m) : m \in UNION {[K -> Leaves] : K \in SUBSET Keys}}

ObjectCalls == [op : {"object"}, value : Leaves \cup Objects \cup {Object(<<7>> :> o) : o \in Objects}]

\* Scalars of each type, and null, which the server's readers do not take.
Scalars == {String(<<97>>), String(<<97, 0>>), String(<<>>), Number(256), Boolean(TRUE), Boolean(FALSE), Null}

ConnectPairs ==
    { <<<<kApp, String(app)>>, <<key, v>>, <<kTcUrl, String(url)>>>> :
        app \in {<<>>, <<97>>, <<98, 99>>, <<98, 0, 99>>, <<0, 99>>}, key \in {<<20>>, <<20, 21>>}, v \in Scalars, url \in {<<>>, <<100>>, <<0>>} }

CommandCalls ==
    [op : {"command"}, method : {kConnect, kCreateStream, kPublish, <<30>>}, transaction : {1, 300},
     pairs : ConnectPairs, name : {<<>>, <<40, 41>>, <<40, 0, 41>>}, cut : 0..2]

CommandBytes(c) ==
    LET s == AmfScalar(String(c.method)) \o AmfScalar(Number(c.transaction)) \o
                CASE c.method = kConnect -> <<3>> \o AmfPairs(c.pairs)
                  [] c.method = kPublish -> AmfScalar(Null) \o AmfScalar(String(c.name))
                  [] OTHER -> AmfScalar(Null)
    IN  SubSeq(s, 1, Len(s) - c.cut)

MetadataCalls ==
    [op : {"metadata"}, old : {<<>>, <<1>> :> Number(9)},
     pairs : { <<<<<<1>>, a>>, <<<<1, 2>>, b>>>> : a, b \in Scalars \ {Null} } \cup {<<>>}, cut : 0..3]

MetadataBytes(c) ==
    LET s == AmfScalar(String(kSetDataFrame)) \o AmfScalar(String(kOnMetaData))
                \o <<8>> \o SetBe(4, Len(c.pairs)) \o AmfPairs(c.pairs)
    IN  SubSeq(s, 1, Len(s) - c.cut)

OnMetaDataCalls == [op : {"onMetaData"}, metadata : {<<1>> :> v : v \in {Number(256), Boolean(TRUE)}}]

BitCalls ==
    [op : {"bits"}, buf : [1..5 -> {165, 15}] \cup {<<0, 0, 1, 200, 100>>, <<255, 255, 255, 0, 3>>}, pos : 0..9, n : 0..33]

GolombCalls == [op : {"golomb"}, k : (-20..70) \cup {254, 255, 1023}, signed : BOOLEAN, pos : 0..7]

GolombBytes(c) ==
    LET bits == Copies(c.pos, 1) \o (IF c.signed THEN SeBits(c.k) ELSE UeBits(c.k)) \o <<1>>
    IN  ToBytes(bits \o Copies((8 - (Len(bits) % 8)) % 8, 0))

EmulationCalls == [op : {"emulation"}, raw : UNION {[1..n -> {0, 1, 3, 4}] : n \in 0..6}]

Baseline == [profile |-> 66, chroma |-> 1, depth |-> 8, scaling |-> "none"]

Formats ==
    {Baseline} \cup [profile : {100}, chroma : 0..3, depth : {8, 10}, scaling : {"none", "default", "short", "full"}]

Sps(format, poc, interlaced, size, crop, vui, units, scale) ==
    format @@ [poc |-> poc, interlaced |-> interlaced, width |-> size[1], height |-> size[2], crop |-> crop,
               vui |-> vui, units |-> units, scale |-> scale]

Crops == {<<0, 0, 0, 0>>, <<0, 5, 0, 4>>, <<32, 1, 2, 1>>, <<5, 0, 0, 0>>}

(* Every syntax with usual timing information, and timing information that  *)
(* begins at every place in a byte, with zeros and with values getBits loses*)
(* bits of in one place and not in another.                                 *)
SpsCalls ==
    [op : {"sps"}, f : { Sps(format, poc, interlaced, size, crop, "timing", 1001, 60000) :
                            format \in Formats, poc \in 0..2, interlaced \in BOOLEAN,
                            size \in {<<8, 6>>, <<120, 68>>}, crop \in Crops }
                       \cup { Sps(Baseline, poc, FALSE, <<8, 6>>, crop, vui, units, scale) :
                                poc \in 0..2, crop \in {<<0, 0, 0, 0>>, <<0, 1, 0, 0>>},
                                vui \in {"none", "timing", "full"}, units \in {0, 1, 1001, 33554432, 90000000},
                                scale \in {0, 50, 8388607, 8388608, 27000000, 2000000000} }]

SplitCalls == [op : {"split"}, buf : UNION {[1..n -> {0, 1, 4}] : n \in 0..7}]

AdtsCalls ==
    [op : {"adts"}, object : 1..4, index : 0..12, channels : 0..7, size : {0, 1, 250}]
        \cup [op : {"adts"}, object : {2}, index : {4}, channels : {2}, size : {1017, 2041, 2042, 8184}]

\* A publisher: what it announces, its configuration, then two packets.
MediaPackets ==
    [kind : {"video"}, key : {TRUE}, units : {<<<<101, 1>>, <<9>>>>}, time : {0, 40}, composition : {0, 40, -40, -7}]
        \cup [kind : {"video"}, key : {FALSE}, units : {<<>>, <<<<65, 7, 7>>>>}, time : {40}, composition : {0}]
        \cup [kind : {"audio"}, raw : {<<>>, <<33, 17>>}, time : {0, 23}]

PublishCalls ==
    [op : {"publish"}, video : {0, 7, 12}, audio : {0, 10, 2}, stereo : {"bool", "double"},
     packets : {<<a, b>> : a, b \in MediaPackets}]

SomeSps == SpsNal(Sps(Baseline, 2, FALSE, <<8, 6>>, <<0, 0, 0, 0>>, "none", 0, 0))
SomePps == <<104, 206, 56, 128>>
SomeCfg == AudioConfig(2, 4, 2)

Names == {<<"a">>, <<"a", "1">>, <<"b", "/", "1">>, <<"a", ".", "b">>}
HttpRest == {<<>>, <<"host", " ", "x">>, <<"host", " ", "x", "&", "y">>}

NameCalls ==
    [op : {"name"}, app : {<<"l">>, <<"1", "l">>}, stream : Names, vhost : {<<"v">>, <<"1", ".", "v">>}, token : {<<>>, <<"t", "1">>},
     start : {<<>>, <<"5", "5">>}, rest : HttpRest]

PublishName(c) == c.stream \o <<"?", "vhost=">> \o c.vhost \o <<"&", "token=">> \o c.token

RequestLine(c) ==
    <<"GET", " ", "/">> \o c.app \o <<"/">> \o c.stream \o <<".flv", "?", "vhost=">> \o c.vhost \o <<"&", "token=">> \o c.token
        \o Chosen(c.start # <<>>, <<"&", "startpts=">> \o c.start) \o <<" ", "HTTP">> \o c.rest

TagCalls ==
    [op : {"tag"}, type : {8, 9, 18}, size : {1, 255, 256, 700}, time : {0, 255, 65536, 16777215, 16777216, 2000000000}]

-----------------------------------------------------------------------------
Init ==
    /\ \/ call \in StringCalls \/ call \in ObjectCalls \/ call \in CommandCalls \/ call \in MetadataCalls \/ call \in OnMetaDataCalls
       \/ call \in BitCalls \/ call \in {c \in GolombCalls : c.signed \/ c.k >= 0} \/ call \in EmulationCalls
       \/ call \in SpsCalls \/ call \in SplitCalls \/ call \in AdtsCalls \/ call \in PublishCalls
       \/ call \in NameCalls \/ call \in TagCalls
    /\ done = FALSE
    /\ out = "nothing"

Returns(op, value) == ~ done /\ call.op = op /\ done' = TRUE /\ out' = value /\ UNCHANGED call

EncodeText == Returns("string", EncodeString(call.str))

EncodeObject == Returns("object", EncodeValue(call.value))

Command == Returns("command", on_process_cmd(7, CommandBytes(call)))

Metadata == Returns("metadata", on_process_metadata(call.old, MetadataBytes(call)))

OnMetaData == Returns("onMetaData", EncodeMetadata(call.metadata))

ReadBits == Returns("bits", getBits([buf |-> call.buf, pos |-> call.pos], call.n))

ReadGolomb ==
    LET ctx == [buf |-> GolombBytes(call), pos |-> call.pos]
    IN  Returns("golomb", IF call.signed THEN parseSe(ctx) ELSE parseUe(ctx))

RemoveEmulation == Returns("emulation", deEmulationPrevention(Escape(call.raw)))

ParseSps == Returns("sps", extract_bitstream_sps([size |-> <<0, 0>>, fps |-> <<>>], SpsNal(call.f)))

Split == Returns("split", split_nal_frame(call.buf, 0, 0, <<>>))

WrapAac ==
    LET track == [cfg |-> AudioConfig(call.object, call.index, call.channels)]
    IN  Returns("adts", aac_input_rtmp(track, AacFrame(Copies(call.size, 170), 0)))

PacketOf(p) ==
    IF p.kind = "video" THEN AvcFrame(p.key, p.units, p.time, p.composition) ELSE AacFrame(p.raw, p.time)

Demux ==
    LET metadata == [key \in Range(Announced) |->
                        [type |-> IF key = "stereo" THEN call.stereo ELSE "double",
                         v |-> IF key = "videocodecid" THEN call.video ELSE IF key = "audiocodecid" THEN call.audio ELSE 1]]
        packets == <<AvcConfig(SomeSps, SomePps), AacConfig(SomeCfg), PacketOf(call.packets[1]), PacketOf(call.packets[2])>>
    IN  Returns("publish", FoldLeft(input_rtmp, init_tracks_with_metadata(demuxer, metadata), packets))

Name == Returns("name", [publisher |-> parse_stream(PublishName(call)), viewer |-> extract_streaming_info(RequestLine(call))])

WriteTag == Returns("tag", write_flv_tag(call.type, Copies(call.size, 3), call.time))

Next ==
    \/ EncodeText \/ EncodeObject \/ Command \/ Metadata \/ OnMetaData \/ ReadBits \/ ReadGolomb \/ RemoveEmulation
    \/ ParseSps \/ Split \/ WrapAac \/ Demux \/ Name \/ WriteTag

Spec == Init /\ [][Next]_vars

-----------------------------------------------------------------------------
Returned(op) == done /\ call.op = op

(* What AMFEncoder writes for a string is read back by a conforming peer as *)
(* the string up to its first zero byte: the rest of it is not written.     *)
StringsReadable == Returned("string") => ReadAmf(out) = Got(String(UpToZero(call.str)), <<>>)

(* What AMFEncoder writes for a value of strings, numbers and objects, at   *)
(* any depth, is read back by a conforming peer as that value.              *)
ObjectsReadable == Returned("object") => ReadAmf(out) = Got(call.value, <<>>)

(* on_process_cmd on a message of a publisher: the answer to connect and to *)
(* createStream names the transaction of this command, publish keeps the    *)
(* stream that was sent, and connect the application, of which, as of every *)
(* string in an object, what follows a zero byte is lost; a connect whose   *)
(* object is cut or has a value that is no string, or whose application or  *)
(* URL is then empty, is refused as a whole, and never taken for another.   *)
AnswerTo(message) == ReadAllAmf(message).val

AllStrings(pairs) == \A i \in DOMAIN pairs : pairs[i][2].type = AMF_STRING

CommandsAnswered ==
    Returned("command") =>
        LET whole == call.cut = 0
            id == Number(call.transaction)
            params == PairsMap(call.pairs)
            app == UpToZero(params[kApp].str)
        IN  CASE call.method = kConnect ->
                    /\ out.ok <=> /\ whole /\ AllStrings(call.pairs)
                                  /\ app # <<>> /\ UpToZero(params[kTcUrl].str) # <<>>
                    /\ out.ok => /\ out.val.app = app
                                 /\ AnswerTo(out.val.sent[1]) = <<String(kResult), id, Version, Status>>
                                 /\ AnswerTo(out.val.sent[2]) = <<String(kOnBWDone), Number(0), Null>>
              [] call.method = kCreateStream ->
                    out.ok => AnswerTo(out.val.sent[1]) = <<String(kResult), id, Null, Number(0)>>
              [] call.method = kPublish ->
                    /\ out.ok <=> whole /\ call.name # <<>>
                    /\ out.ok => out.val.stream = call.name
              [] OTHER -> out.ok /\ out.val.sent = <<>>

(* AMF on both ways: what is written can be read, strings up to their first *)
(* zero byte, and commands are answered.                                    *)
AmfAnswered == StringsReadable /\ ObjectsReadable /\ CommandsAnswered

(* on_process_metadata: from an array of numbers, booleans and strings each *)
(* key gets the value that was sent for it, unless it has one from an       *)
(* earlier message; an array that is cut is refused.                        *)
MetadataDecoded ==
    Returned("metadata") =>
        /\ out.ok <=> call.cut = 0
        /\ out.ok => out.val = call.old @@ PairsMap(call.pairs)

(* The metadata a viewer is sent (amf.h:118, amf.cpp:338): a reader of the  *)
(* script tag gets the numbers and the booleans of the source back.         *)
MetadataReadable == Returned("onMetaData") => ReadAmf(out) = Got(Object(call.metadata), <<>>)

(* What getBits keeps of the bits of a field at pos: of one that lies in    *)
(* five bytes the bits in the first are lost, and read as copies of the next*)
(* one.  They are right when they are such copies.                          *)
Kept(bits, pos) ==
    LET lost == IF (pos % 8) + Len(bits) > 32 THEN 8 - (pos % 8) ELSE 0
    IN  \A i \in 1..lost : bits[i] = bits[lost + 1]

(* getBits returns the bits at its place and moves past them, for any place *)
(* and number of bits, and returns nothing and stays when there are too few.*)
(* Of a field that lies in five bytes the bits of the first are lost: see   *)
(* Kept.                                                                    *)
BitsRead ==
    Returned("bits") =>
        LET n == IF call.n > 32 THEN 32 ELSE call.n
            bits == SubSeq(BitsOf(call.buf), call.pos + 1, call.pos + n)
        IN  IF call.pos + n > 40 THEN out = Read(<<>>, [buf |-> call.buf, pos |-> call.pos])
            ELSE /\ out.ctx.pos = call.pos + n
                 /\ Kept(bits, call.pos) => out.v = bits

(* parseUe and parseSe undo the Exp-Golomb codes at every place in a byte,  *)
(* and stop right after the code.                                           *)
GolombRead ==
    Returned("golomb") =>
        /\ out.v = call.k
        /\ out.ctx.pos = call.pos + Len(IF call.signed THEN SeBits(call.k) ELSE UeBits(call.k))

(* deEmulationPrevention restores every byte string that has been escaped,  *)
(* but for one with three zeros and a three in it, which loses the three.   *)
ThreeZerosThree(raw) == \E i \in 1..(Len(raw) - 3) : SubSeq(raw, i, i + 3) = <<0, 0, 0, 3>>

EmulationUndone == Returned("emulation") => (ThreeZerosThree(call.raw) \/ out = call.raw)

(* The three primitives the parser of parameter sets is made of.            *)
BitstreamRead == BitsRead /\ GolombRead /\ EmulationUndone

(* The picture size and frame rate of a conforming sequence parameter set,  *)
(* whatever its profile, chroma format, scaling lists, picture order and    *)
(* usability information: the width, when the left crop is a multiple of    *)
(* the unit it is rounded to; the height, of progressive video; the frame   *)
(* rate, when neither of its parts is zero, and none when one is, as long as*)
(* getBits keeps both: of num_units_in_tick and time_scale, where they do   *)
(* not begin a byte, the top bits are lost, so that 27000000, one bit into a*)
(* byte, is read as another number.  The bytes of the set have no three     *)
(* zeros and a three in them, of which the three would be lost.             *)
SpsUnderstood ==
    (Returned("sps") /\ ~ ThreeZerosThree(SpsPayload(call.f))) =>
        LET f == call.f
            unit == IF f.profile = 100 /\ f.depth > 8 THEN 16 ELSE 32
            timed == f.vui # "none" /\ f.units # 0 /\ f.scale # 0
            units == AllBits(32, f.units)
            scale == AllBits(32, f.scale)
            kept == Kept(units, TimingAt(f)) /\ Kept(scale, TimingAt(f) + 32)
        IN  /\ out.ok
            /\ f.crop[1] % unit = 0 => out.val.size[1] = TrueSize(f)[1]
            /\ ~ f.interlaced => out.val.size[2] = TrueSize(f)[2]
            /\ (f.vui = "none" \/ kept) => out.val.fps = IF timed THEN <<scale, units>> ELSE <<>>

(* split_nal_frame: whatever the bytes, the units delivered are the bytes   *)
(* in front, none left out or taken twice; what is left does not begin with *)
(* a whole unit, and it is refused unless it is a length with nothing after.*)
Joined(frames) ==
    FlattenSeq([i \in DOMAIN frames |-> SetBe(4, Len(frames[i].data) - 4) \o SubSeq(frames[i].data, 5, Len(frames[i].data))])

SplitLossless ==
    Returned("split") =>
        LET joined == Joined(out.frames)
            left == SubSeq(call.buf, Len(joined) + 1, Len(call.buf))
        IN  /\ joined = SubSeq(call.buf, 1, Len(joined))
            /\ Len(left) >= 4 => Len(left) - 4 < LoadBe[SubSeq(left, 1, 4)]
            /\ out.ok <=> Len(left) \in {0, 4}

(* The ADTS header in front of each AAC frame says what the publisher's     *)
(* AudioSpecificConfig says, and the length of the frame, up to the 13 bits *)
(* there are for it.                                                        *)
AdtsDescribesFrame ==
    Returned("adts") =>
        LET data == out.frames[1].data
        IN  ReadAdts(data) = [sync |-> 4095, layer |-> 0, absent |-> 1, profile |-> call.object - 1,
                              index |-> call.index, channels |-> call.channels, length |-> Len(data), blocks |-> 0]

(* A publisher of H.264 and AAC, or of one of them, whose metadata has the  *)
(* types the demuxer casts to: every unit of a packet of an announced kind  *)
(* becomes a frame, in order, with its decoding and its presentation time,  *)
(* the sets of parameters in front; a kind that is not announced is passed  *)
(* over.  Any other codec or type of metadata is refused.                   *)
Shown(time, composition) == LET t == (time + composition) % TimeMod IN IF t = 0 THEN time ELSE t

FramesOf(p) ==
    IF p.kind = "video"
    THEN [i \in DOMAIN p.units |-> <<H264, p.time, Shown(p.time, p.composition), p.units[i]>>]
    ELSE << <<AAC, p.time, p.time, p.raw>> >>

Payload(frame) ==
    <<frame.codec, frame.dts, frame.pts, SubSeq(frame.data, IF frame.codec = AAC THEN 8 ELSE 5, Len(frame.data))>>

FramesDelivered ==
    Returned("publish") =>
        LET has == [video |-> call.video # 0, audio |-> call.audio # 0]
            sets == Chosen(has.video, << <<H264, 0, 0, SomeSps>>, <<H264, 0, 0, SomePps>> >>)
            expected == sets \o FlattenSeq([i \in 1..2 |-> Chosen(has[call.packets[i].kind], FramesOf(call.packets[i]))])
        IN  /\ out.ok <=> call.video \in {0, 7} /\ call.audio \in {0, 10} /\ call.stereo = "bool"
            /\ out.ok => [i \in DOMAIN out.frames |-> Payload(out.frames[i])] = expected

(* What the demuxer makes of a publisher's packets: the units, the headers  *)
(* in front of audio, and the frames with their times.                      *)
MediaDelivered == SplitLossless /\ AdtsDescribesFrame /\ FramesDelivered

(* A stream whose name begins with a letter, published as                   *)
(* stream?vhost=...&token=..., is looked for under the key it is registered *)
(* under when a viewer asks for /app/stream.flv?vhost=...&token=..., with or*)
(* without a start time, whatever the rest of the request.                  *)
ViewerFindsPublisher ==
    Returned("name") =>
        /\ out.publisher.ok /\ out.viewer.ok
        /\ MediaKey(call.app, out.publisher.val) = MediaKey(out.viewer.val.app, out.viewer.val)

(* A player reads from a tag its type, time stamp and body, and the size    *)
(* after it is that of the tag.                                             *)
TagsReadable ==
    Returned("tag") =>
        out.ok /\ ReadTag(out.val) = [type |-> call.type, time |-> call.time, body |-> Copies(call.size, 3), complete |-> TRUE]
=============================================================================
