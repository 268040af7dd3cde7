----------------------------- MODULE StreamName ------------------------------
(* How a publisher and a viewer name a stream: media_info::parse_stream of  *)
(* the name in the publish command, and http_flv_header of the request.     *)
(*                                                                          *)
(* A string is a sequence of characters, in which each of the labels that   *)
(* are searched for ("vhost=", ".flv", ...) counts as one.                  *)
EXTENDS Bytes, SequencesExt

(* The letters, a label counting as its first character, and the digits.    *)
CONSTANTS Letters, Digits

ASSUME LettersAssumption == {"vhost=", "token=", "startpts=", "GET"} \subseteq Letters

kVhostParam == "vhost="
kTokenParam == "token="
kFlv == ".flv"
kStart_Pts == "startpts="
NPOS == 1000000

\* std::string::find: the first place of a label from one on, or NPOS.
FindFrom(s, label, from) ==
    LET places == {i \in DOMAIN s : i >= from /\ s[i] = label}
    IN  IF places = {} THEN NPOS ELSE CHOOSE i \in places : \A j \in places : i <= j

From(s, start) == SubSeq(s, start, Len(s))

-----------------------------------------------------------------------------
(* media_info.                                                              *)

(* The stream begins at the first letter of the whole string, which is in   *)
(* the parameters when the name has none.                                   *)
FirstAlphabet(stream) ==
    LET letters == {i \in DOMAIN stream : stream[i] \in Letters}
    IN  IF letters = {} THEN 1 ELSE CHOOSE i \in letters : \A j \in letters : i <= j

TokenOf(stream, amper_pos) ==
    LET pos == FindFrom(stream, kTokenParam, amper_pos)
    IN  IF pos = NPOS THEN <<>> ELSE From(stream, pos + 1)

UpTo(s, start, end) == SubSeq(s, start, IF end = NPOS THEN Len(s) ELSE end - 1)

\* Of an object that has not parsed a name before: vhost and token are empty.
parse_stream(stream) ==
    LET start == FirstAlphabet(stream)
        stream_pos == FindFrom(stream, "?", start)
        vhost_pos == FindFrom(stream, kVhostParam, stream_pos)
        amper_pos == FindFrom(stream, "&", vhost_pos + 1)
        has_vhost == vhost_pos # NPOS
    IN  IF stream = <<>> THEN Thrown
        ELSE Got([stream |-> UpTo(stream, start, stream_pos),
                  vhost |-> IF has_vhost THEN UpTo(stream, vhost_pos + 1, amper_pos) ELSE <<>>,
                  token |-> IF has_vhost THEN TokenOf(stream, amper_pos) ELSE <<>>],
                 <<>>)

-----------------------------------------------------------------------------
(* http_flv_header.  extract_param returns the text between two labels and  *)
(* where it ends; the second label is searched for in all that follows, the *)
(* other lines of the request included.                                     *)

\* An optional end label that is not given is the end label itself.
extract_param(str, start_label, end_label, offset, optional_end_label) ==
    LET start == FindFrom(str, start_label, offset)
        end == FindFrom(str, end_label, start + 1)
        optional == FindFrom(str, optional_end_label, start + 1)
        last == IF end # NPOS THEN end ELSE optional
    IN  IF start = NPOS \/ last = NPOS THEN Thrown ELSE Got(SubSeq(str, start + 1, last - 1), last)

\* A faulty order of the two: the vhost is searched for after the token.
ExtractTokenFirst(temp) ==
    Then(extract_param(temp, "/", "/", FindFrom(temp, " ", 1), "/"), LAMBDA app, a :
        Then(extract_param(temp, "/", kFlv, a, kFlv), LAMBDA stream, b :
            Then(extract_param(temp, kTokenParam, "&", b, " "), LAMBDA token, c :
                Then(extract_param(temp, kVhostParam, "&", c, " "), LAMBDA vhost, d :
                    Got([app |-> app, stream |-> stream, vhost |-> vhost, token |-> token, start |-> <<>>], d)))))

(* The start is optional, and the digits in front are its value (stoul);    *)
(* without any it throws, as without a blank after the method.              *)
extract_streaming_info(temp) ==
    Then(extract_param(temp, "/", "/", FindFrom(temp, " ", 1), "/"), LAMBDA app, a :
        Then(extract_param(temp, "/", kFlv, a, kFlv), LAMBDA stream, b :
            Then(extract_param(temp, kVhostParam, "&", b, "&"), LAMBDA vhost, c :
                Then(extract_param(temp, kTokenParam, "&", c, " "), LAMBDA token, d :
                    LET start == extract_param(temp, kStart_Pts, " ", d, "&")
                    IN  IF start.ok /\ (start.val = <<>> \/ start.val[1] \notin Digits)
                        THEN Thrown
                        ELSE Got([app |-> app, stream |-> stream, vhost |-> vhost, token |-> token,
                                  start |-> start.val], d)))))

\* The key under which a source is registered, and looked for.
MediaKey(app, name) == <<app, name.vhost, name.stream>>
=============================================================================
