--------------------------------- MODULE Amf ---------------------------------
(* AMF0 as the server reads and writes it (amf.cpp), and the commands and   *)
(* the metadata a publisher sends in it (rtmp_protocol.cpp).                *)
(*                                                                          *)
(* A value has a type and, by type, the 64 bits of a number as a natural, a *)
(* Boolean, a string or a map from keys to values.  The names of the        *)
(* protocol are shortened to a byte each.  A number has 2 * WordBytes bytes,*)
(* 8 in the code, and it is written and read as two words.                  *)
EXTENDS Bytes, SequencesExt

CONSTANT WordBytes

ASSUME WordBytesAssumption == WordBytes \in 1..4

AMF_NUMBER == 0
AMF_BOOLEAN == 1
AMF_STRING == 2
AMF_OBJECT == 3
AMF_NULL == 5
AMF_OBJECT_END == 9

Number(n) == [type |-> AMF_NUMBER, number |-> n]
Boolean(b) == [type |-> AMF_BOOLEAN, bool |-> b]
String(s) == [type |-> AMF_STRING, str |-> s]
Object(map) == [type |-> AMF_OBJECT, map |-> map]
Null == [type |-> AMF_NULL]

\* c_str(): as a C string, s ends at its first zero byte.
CString(s) == LET end == SelectInSeq(s, LAMBDA b : b = 0) IN IF end = 0 THEN s ELSE SubSeq(s, 1, end - 1)

StringValue(s) == String(CString(s))

-----------------------------------------------------------------------------
(* AMFEncoder: each operator << appends to the buffer what is here the      *)
(* value of an operator.                                                    *)

Word(v) == SetBe(WordBytes, v)

EncodeNumber(n) ==
    <<AMF_NUMBER>> \o Word(n \div 256^WordBytes) \o Word(n % 256^WordBytes)

EncodeBool(b) == <<AMF_BOOLEAN, IF b THEN 1 ELSE 0>>

EncodeNull == <<AMF_NULL>>

\* The length is cast to 16 bits: that of a string of 2^16 bytes is written as 0.
write_key(s) == SetBe(2, Len(s)) \o s

EncodeString(s) == <<AMF_STRING>> \o write_key(CString(s))

(* A value: booleans, nulls and arrays are not supported and nothing at all *)
(* is appended for them, although their key has been.  The iteration order  *)
(* of the map is of no consequence.                                         *)
RECURSIVE EncodeValue(_)

EncodePair(map, key) == write_key(key) \o EncodeValue(map[key])

EncodeValue(value) ==
    CASE value.type = AMF_STRING -> EncodeString(value.str)
      [] value.type = AMF_NUMBER -> EncodeNumber(value.number)
      [] value.type = AMF_OBJECT ->
            LET keys == SetToSeq(DOMAIN value.map)
            IN  <<AMF_OBJECT>> \o FlattenSeq([i \in DOMAIN keys |-> EncodePair(value.map, keys[i])])
                    \o write_key(<<>>) \o <<AMF_OBJECT_END>>
      [] OTHER -> <<>>

(* Metadata: a value is written when type().name() is the literal "double"  *)
(* or "bool".  The comparison is one of pointers, and the names the compiler*)
(* gives the types are "d" and "b": no value is ever written.               *)
TypeNameIs(value, name) == FALSE

EncodeMetadata(metadata) ==
    LET keys == SetToSeq(DOMAIN metadata)
        Pair(key) == write_key(key) \o
            CASE TypeNameIs(metadata[key], "double") -> EncodeNumber(metadata[key].number)
              [] TypeNameIs(metadata[key], "bool") -> EncodeBool(metadata[key].bool)
              [] OTHER -> <<>>
    IN  <<AMF_OBJECT>> \o FlattenSeq([i \in DOMAIN keys |-> Pair(keys[i])])
            \o write_key(<<>>) \o <<AMF_OBJECT_END>>

-----------------------------------------------------------------------------
(* AMFDecoder.                                                              *)

pop_front(s) == read_uint8(s)

peek_front(s) == peek_uint8(s)

(* The rest of a reader once the marker it expects has been popped.         *)
Expect(marker, s, Rest(_)) ==
    Then(pop_front(s), LAMBDA x, t : IF x = marker THEN Rest(t) ELSE Thrown)

load_key(s) == Then(read_uint16(s), LAMBDA n, t : to_string(n, t))

load_string(s) == Expect(AMF_STRING, s, load_key)

ReadWord(s) == Then(to_string(WordBytes, s), LAMBDA b, t : Got(LoadBe[b], t))

load_number(s) ==
    Expect(AMF_NUMBER, s, LAMBDA t :
        Then(ReadWord(t), LAMBDA first, u :
            Then(ReadWord(u), LAMBDA second, rest : Got(first * 256^WordBytes + second, rest))))

load_bool(s) ==
    Expect(AMF_BOOLEAN, s, LAMBDA t : Then(pop_front(t), LAMBDA b, rest : Got(b # 0, rest)))

\* AMFValue::set, and meta_data_: emplace keeps the value a key already has.
set(map, key, value) == [k \in DOMAIN map \cup {key} |-> IF k \in DOMAIN map THEN map[k] ELSE value]

RECURSIVE LoadPairs(_, _)

LoadPairs(map, s) ==
    Then(load_key(s), LAMBDA key, t :
        IF key = <<>>
        THEN Got(map, t)
        ELSE Then(load_string(t), LAMBDA value, u : LoadPairs(set(map, key, StringValue(value)), u)))

\* Only string values: any other one throws.
load_object(s) ==
    Expect(AMF_OBJECT, s, LAMBDA t :
        Then(LoadPairs(<<>>, t), LAMBDA map, u : Expect(AMF_OBJECT_END, u, LAMBDA rest : Got(map, rest))))

\* operator[] and as_string: a key that is missing is a null, which throws.
as_string(map, key) == IF key \in DOMAIN map THEN Got(map[key].str, <<>>) ELSE Thrown

-----------------------------------------------------------------------------
(* The commands of rtmp_protocol: what is answered, and what is kept.       *)

kConnect == <<1>>
kCreateStream == <<2>>
kPublish == <<3>>
kResult == <<4>>
kOnBWDone == <<5>>
kApp == <<6>>
kTcUrl == <<7>>

(* The answer to connect: objects with the names and the values in the code.*)
Version == Object((<<8>> :> String(<<8, 8>>)) @@ (<<9>> :> Number(31)))
Status == Object((<<10>> :> String(<<10, 10>>)) @@ (<<11>> :> String(<<11, 11>>)) @@ (<<12>> :> String(<<12>>)))

\* set_app and set_tc_url refuse an empty name.
on_amf_connect(transaction_id, s) ==
    Then(load_object(s), LAMBDA params, rest :
        Then(as_string(params, kApp), LAMBDA app, x :
            Then(as_string(params, kTcUrl), LAMBDA tc_url, y :
                IF app = <<>> \/ tc_url = <<>>
                THEN Thrown
                ELSE Got([app |-> app, stream |-> <<>>,
                          sent |-> << EncodeString(kResult) \o EncodeNumber(transaction_id)
                                          \o EncodeValue(Version) \o EncodeValue(Status),
                                      EncodeString(kOnBWDone) \o EncodeNumber(0) \o EncodeNull >>],
                         rest))))

on_amf_createStream(transaction_id, s) ==
    Got([app |-> <<>>, stream |-> <<>>,
         sent |-> << EncodeString(kResult) \o EncodeNumber(transaction_id) \o EncodeNull \o EncodeNumber(0) >>],
        s)

\* Up to the name that parse_stream takes apart; the rest is in MediaSource.
on_amf_publish(transaction_id, s) ==
    Expect(AMF_NULL, s, LAMBDA t :
        Then(load_string(t), LAMBDA stream, rest :
            IF stream = <<>> THEN Thrown ELSE Got([app |-> <<>>, stream |-> stream, sent |-> <<>>], rest)))

Ignored(s) == Got([app |-> <<>>, stream |-> <<>>, sent |-> <<>>], s)

\* A faulty on_process_cmd: the transaction of the previous command is kept.
ProcessStaleTransaction(transaction_id, s) ==
    Then(load_string(s), LAMBDA method, t :
        IF method \notin {kConnect, kCreateStream, kPublish}
        THEN Ignored(t)
        ELSE Then(load_number(t), LAMBDA transaction, rest :
            CASE method = kConnect -> on_amf_connect(transaction_id, rest)
              [] method = kCreateStream -> on_amf_createStream(transaction_id, rest)
              [] method = kPublish -> on_amf_publish(transaction_id, rest)))

\* transaction_id is transaction_id_ of the command before, which this one replaces.
on_process_cmd(transaction_id, s) ==
    Then(load_string(s), LAMBDA method, t :
        IF method \notin {kConnect, kCreateStream, kPublish}
        THEN Ignored(t)
        ELSE Then(load_number(t), LAMBDA transaction, rest :
            CASE method = kConnect -> on_amf_connect(transaction, rest)
              [] method = kCreateStream -> on_amf_createStream(transaction, rest)
              [] method = kPublish -> on_amf_publish(transaction, rest)))

-----------------------------------------------------------------------------
(* @setDataFrame.                                                           *)

kSetDataFrame == <<13>>
kOnMetaData == <<14>>

(* The value of a key; of a type that is none of the three nothing is       *)
(* consumed, and the key gets the value of the key before it.               *)
LoadMetaValue(previous, s) ==
    Then(peek_front(s), LAMBDA value_type, t :
        CASE value_type = AMF_NUMBER -> Then(load_number(t), LAMBDA n, rest : Got(Number(n), rest))
          [] value_type = AMF_BOOLEAN -> Then(load_bool(t), LAMBDA b, rest : Got(Boolean(b), rest))
          [] value_type = AMF_STRING -> Then(load_string(t), LAMBDA x, rest : Got(String(x), rest))
          [] OTHER -> Got(previous, t))

RECURSIVE LoadMetaPairs(_, _, _)

LoadMetaPairs(meta, previous, s) ==
    Then(load_key(s), LAMBDA key, t :
        IF key = <<>>
        THEN Got(meta, t)
        ELSE Then(LoadMetaValue(previous, t), LAMBDA value, rest :
                LoadMetaPairs(set(meta, key, value), value, rest)))

\* A faulty on_process_metadata that skips an object's marker, and no count.
ProcessMetadataObject(meta, s) ==
    Then(load_string(s), LAMBDA type, t :
        Then(load_string(t), LAMBDA name, u :
            Then(consume_or_fail(1, u), LAMBDA marker, x :
                Then(LoadMetaPairs(meta, Null, x), LAMBDA new, y :
                    Expect(AMF_OBJECT_END, y, LAMBDA rest : Got(new, rest))))))

(* The metadata of the source after the message; it throws in a publisher   *)
(* that has no source yet, which MediaSource models, and init_tracks runs   *)
(* on the result whatever the message was.                                  *)
on_process_metadata(meta, s) ==
    Then(load_string(s), LAMBDA type, t :
        IF type # kSetDataFrame
        THEN Got(meta, t)
        ELSE Then(load_string(t), LAMBDA name, u :
                IF name # kOnMetaData
                THEN Got(meta, u)
                ELSE Then(consume_or_fail(5, u), LAMBDA marker, x :
                        Then(LoadMetaPairs(meta, Null, x), LAMBDA new, y :
                            Expect(AMF_OBJECT_END, y, LAMBDA rest : Got(new, rest))))))
=============================================================================
