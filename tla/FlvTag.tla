------------------------------- MODULE FlvTag --------------------------------
(* The bytes of an FLV stream (flv_header.h, flv_muxer.cpp): the header of  *)
(* the file, and a tag with its header and the size that follows it.        *)
EXTENDS Bytes

kFlvVersion == 1
kFlvHeaderLength == 9
kTagHeaderLength == 11

\* Both audio and video are announced, whatever the source has.
prepare_flv_header == <<70, 76, 86, kFlvVersion, 5>> \o SetBe(4, kFlvHeaderLength)

\* A faulty time stamp without its upper byte.
TagHeaderShortTime(type, size, time) ==
    <<type>> \o SetBe(3, size) \o SetBe(3, time % 2^24) \o <<0>> \o <<0, 0, 0>>

\* The size is cut to 24 bits; the upper byte of the time comes last.
prepare_flv_tag_header(type, size, time) ==
    <<type>> \o SetBe(3, size) \o SetBe(3, time % 2^24) \o SetBe(1, time \div 2^24) \o <<0, 0, 0>>

\* Nothing is written, and it throws, for an empty body.
write_flv_tag(type, body, time) ==
    IF body = <<>> THEN Thrown
    ELSE Got(prepare_flv_tag_header(type, Len(body), time) \o body \o SetBe(4, kTagHeaderLength + Len(body)), <<>>)
=============================================================================
