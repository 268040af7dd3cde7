----------------------------- MODULE RtmpDemuxer -----------------------------
(* rtmp_demuxer with the decoders of audio and video (aac_rtmp, h264_rtmp), *)
(* their tracks, and what rtmp_packet says of a packet from its first bytes.*)
(*                                                                          *)
(* A packet is [type, buf, time]; a frame given to the muxer is             *)
(* [codec, dts, pts, data].  A decoder is its track, in a sequence that is  *)
(* empty while there is none.  Times are modulo TimeMod, 2^32 in the code.  *)
EXTENDS SpsParser

CONSTANT TimeMod

ASSUME TimeModAssumption == TimeMod \in Nat \ {0}

MSG_AUDIO == 8
MSG_VIDEO == 9
kAdtsHeaderLength == 7
kH264HeaderPrefix == <<0, 0, 0, 1>>
H264 == 7
AAC == 10

-----------------------------------------------------------------------------
(* rtmp_packet.                                                             *)

High(byte) == byte \div 16

Low(byte) == byte % 16

IsExHeader(byte) == High(byte) >= 8

is_video_keyframe(pkt) ==
    pkt.type = MSG_VIDEO /\ (High(pkt.buf[1]) % (IF IsExHeader(pkt.buf[1]) THEN 8 ELSE 16)) = 1

\* get_av_codec_id and is_config_frame: 7 and 12 are the codes of h264 and h265.
is_config_frame(pkt) ==
    \/ /\ is_video_keyframe(pkt)
       /\ \/ IsExHeader(pkt.buf[1]) /\ Low(pkt.buf[1]) = 0
          \/ ~ IsExHeader(pkt.buf[1]) /\ Low(pkt.buf[1]) \in {7, 12} /\ pkt.buf[2] = 0
    \/ pkt.type = MSG_AUDIO /\ High(pkt.buf[1]) = AAC /\ pkt.buf[2] = 0

-----------------------------------------------------------------------------
(* Tracks.  What input_rtmp of a decoder does is [ok, track, frames].       *)

Done(track, frames) == [ok |-> TRUE, track |-> track, frames |-> frames]

\* An exception.  What it leaves half assigned in the track is overwritten before it is read.
Refused(track, frames) == [ok |-> FALSE, track |-> track, frames |-> frames]

\* frame::pts: no presentation time is the decoding time, and zero is none.
Frame(codec, dts, pts, data) ==
    [codec |-> codec, dts |-> dts, pts |-> IF pts = 0 THEN dts ELSE pts, data |-> data]

encapsulate_config_frame(config) ==
    IF config = <<>> THEN <<>> ELSE << Frame(H264, 0, 0, kH264HeaderPrefix \o config) >>

(* AVCDecoderConfigurationRecord: a set of sequence and one of picture      *)
(* parameters, whatever number of them it announces.                        *)
parse_avc_record(s) ==
    Then(consume_or_fail(6, s), LAMBDA head, a :
        Then(read_uint16(a), LAMBDA sps_size, b :
            Then(to_string(sps_size, b), LAMBDA sps, c :
                Then(consume_or_fail(1, c), LAMBDA count, d :
                    Then(read_uint16(d), LAMBDA pps_size, e :
                        Then(to_string(pps_size, e), LAMBDA pps, rest :
                            Got([sps |-> sps, pps |-> pps], rest)))))))

ConfigFrames(record) == encapsulate_config_frame(record.sps) \o encapsulate_config_frame(record.pps)

\* The track with what the record says of it, unless the parser of the sets throws.
UpdatedTrack(track, record, parsed) ==
    IF ~ parsed.ok THEN Refused(track, <<>>)
    ELSE Done([sps |-> record.sps, pps |-> record.pps] @@ parsed.val, ConfigFrames(record))

parse_h264_config(track, s) ==
    LET record == parse_avc_record(s)
    IN  IF ~ record.ok THEN Refused(track, <<>>)
        ELSE UpdatedTrack(track, record.val, extract_bitstream_sps(track, record.val.sps))

UnitFits(frame_len, s) == frame_len <= Len(s)

(* split_nal_frame: NAL units after a length of four bytes each.  It throws *)
(* at bytes it cannot split, but not at a last length with nothing after it.*)
RECURSIVE split_nal_frame(_, _, _, _)

split_nal_frame(s, dts, pts, frames) ==
    LET head == read_uint32(s)
        unit == to_string(head.val, head.rest)
        frame == Frame(H264, dts, pts, kH264HeaderPrefix \o unit.val)
    IN  IF ~ head.ok THEN [ok |-> s = <<>>, frames |-> frames]
        ELSE IF ~ UnitFits(head.val, head.rest) THEN [ok |-> head.rest = <<>>, frames |-> frames]
        ELSE split_nal_frame(unit.rest, dts, pts, Append(frames, frame))

\* A faulty composition time that is taken for unsigned.
CtsUnsigned(b) == LoadBe[b]

\* Three bytes in two's complement.
cts(b) == IF b[1] >= 128 THEN LoadBe[b] - 2^24 ELSE LoadBe[b]

h264_input_rtmp(track, pkt) ==
    LET pts == (pkt.time + cts(SubSeq(pkt.buf, 3, 5))) % TimeMod
        rest == SubSeq(pkt.buf, 6, Len(pkt.buf))
        split == split_nal_frame(rest, pkt.time, pts, <<>>)
    IN  IF Len(pkt.buf) < 5 THEN Refused(track, <<>>)
        ELSE IF is_config_frame(pkt) THEN parse_h264_config(track, rest)
        ELSE [ok |-> split.ok, track |-> track, frames |-> split.frames]

-----------------------------------------------------------------------------
(* AAC: the AudioSpecificConfig is kept as it is, and each raw frame gets an*)
(* ADTS header made from its first two bytes.                               *)

sampling_index(cfg) == (cfg[1] % 8) * 2 + (cfg[2] \div 128)

channel_config(cfg) == (cfg[2] % 128) \div 8

\* The sampling index has four bits and the table sixteen entries: none is out of range.
parse_aac_config(track, s) ==
    IF Len(s) < 2 THEN Refused(track, <<>>) ELSE Done([track EXCEPT !.cfg = s], <<>>)

extract_aac_config(cfg) ==
    [syncword |-> 4095, id |-> 0, layer |-> 0, protection_absent |-> 1,
     profile |-> (cfg[1] \div 8) - 1, index |-> sampling_index(cfg), channel |-> channel_config(cfg),
     fullness |-> 2047, blocks |-> 0]

\* `width` bits of v from bit `low` on, as << and & take them out.
Field(v, low, width) == (v \div 2^low) % 2^width

\* The originality, home and copyright bits are zero.  The length has 13 bits.
dump_adts_header(h, length) ==
    << Field(h.syncword, 4, 8),
       Field(h.syncword, 0, 4) * 16 + h.id * 8 + h.layer * 2 + h.protection_absent,
       Field(h.profile, 0, 2) * 64 + Field(h.index, 0, 4) * 4 + Field(h.channel, 2, 1),
       Field(h.channel, 0, 2) * 64 + Field(length, 11, 2),
       Field(length, 3, 8),
       Field(length, 0, 3) * 32 + Field(h.fullness, 6, 5),
       Field(h.fullness, 0, 6) * 4 + h.blocks >>

aac_input_rtmp(track, pkt) ==
    LET raw == SubSeq(pkt.buf, 3, Len(pkt.buf))
        header == dump_adts_header(extract_aac_config(track.cfg), Len(raw) + kAdtsHeaderLength)
    IN  IF Len(pkt.buf) < 2 THEN Refused(track, <<>>)
        ELSE IF is_config_frame(pkt) THEN parse_aac_config(track, raw)
        ELSE IF track.cfg = <<>> THEN Refused(track, <<>>)
        ELSE Done(track, << Frame(AAC, pkt.time, 0, header \o raw) >>)

-----------------------------------------------------------------------------
(* rtmp_demuxer.  Its state is [ok, video, audio, frames]: the two decoders *)
(* and the frames given to the muxer; ok is false once it has thrown.       *)

H264Track == [size |-> <<0, 0>>, fps |-> <<>>, sps |-> <<>>, pps |-> <<>>]
AacTrack == [cfg |-> <<>>]
NoDecoder == <<>>

demuxer == [ok |-> TRUE, video |-> NoDecoder, audio |-> NoDecoder, frames |-> <<>>]

\* Read in this order, each an any_cast that throws on a missing or other value.
Announced == <<"duration", "audiosamplerate", "audiosamplesize", "stereo",
               "videocodecid", "audiocodecid", "audiodatarate", "videodatarate">>

TypeOf(key) == IF key = "stereo" THEN "bool" ELSE "double"

\* rtmp_flv_codec_id has eight bits.
CodecId(n) == n % 256

(* The video track comes first: it stays when the audio codec is refused.   *)
(* A decoder that is there already stays as it is, whatever is announced.   *)
init_video_track(d, id) ==
    IF id = 0 \/ d.video # NoDecoder THEN d
    ELSE IF CodecId(id) # H264 THEN [d EXCEPT !.ok = FALSE] ELSE [d EXCEPT !.video = <<H264Track>>]

init_audio_track(d, id) ==
    IF id = 0 \/ d.audio # NoDecoder \/ ~ d.ok THEN d
    ELSE IF CodecId(id) # AAC THEN [d EXCEPT !.ok = FALSE] ELSE [d EXCEPT !.audio = <<AacTrack>>]

init_tracks_with_metadata(d, metadata) ==
    IF \E key \in Range(Announced) : key \notin DOMAIN metadata \/ metadata[key].type # TypeOf(key)
    THEN [d EXCEPT !.ok = FALSE]
    ELSE init_audio_track(init_video_track(d, metadata["videocodecid"].v), metadata["audiocodecid"].v)

Taken(d, which, input) ==
    [d EXCEPT ![which] = <<input.track>>, !.ok = input.ok, !.frames = @ \o input.frames]

\* A packet no decoder is there for passes; snapshots leave its buffer as it was.
input_rtmp(d, pkt) ==
    IF ~ d.ok THEN d
    ELSE IF pkt.type = MSG_VIDEO /\ d.video # NoDecoder
    THEN Taken(d, "video", h264_input_rtmp(d.video[1], pkt))
    ELSE IF pkt.type = MSG_AUDIO /\ d.audio # NoDecoder
    THEN Taken(d, "audio", aac_input_rtmp(d.audio[1], pkt))
    ELSE d
=============================================================================
