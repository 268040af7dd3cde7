----------------------------- MODULE WireFormats -----------------------------
(* The formats the server reads and writes as their standards define them:  *)
(* what a conforming peer sends, and what it makes of what it receives.     *)
(* These are the references the codecs are checked against, and model no    *)
(* code of the server.                                                      *)
EXTENDS Amf, RtmpDemuxer, StreamName, FlvTag

\* v < 2^31 in n bits.
AllBits(n, v) == [i \in 1..n |-> IF n - i > 30 THEN 0 ELSE (v \div 2^(n - i)) % 2]

Chosen(cond, s) == IF cond THEN s ELSE <<>>

-----------------------------------------------------------------------------
(* A C string: s up to its first zero byte, or all of it.                   *)

UpToZero(s) ==
    CHOOSE t \in {SubSeq(s, 1, n) : n \in 0..Len(s)} : 0 \notin Range(t) /\ (t = s \/ s[Len(t) + 1] = 0)

-----------------------------------------------------------------------------
(* AMF0.  The map of an object is written as a sequence of pairs, in any    *)
(* order, and read as a function.                                           *)

PairsMap(pairs) == [k \in {p[1] : p \in Range(pairs)} |-> (CHOOSE p \in Range(pairs) : p[1] = k)[2]]

AmfScalar(value) ==
    CASE value.type = AMF_NUMBER -> <<0>> \o SetBe(2 * WordBytes, value.number)
      [] value.type = AMF_BOOLEAN -> <<1, IF value.bool THEN 1 ELSE 0>>
      [] value.type = AMF_STRING -> <<2>> \o SetBe(2, Len(value.str)) \o value.str
      [] value.type = AMF_NULL -> <<5>>

AmfPairs(pairs) ==
    FlattenSeq([i \in DOMAIN pairs |-> SetBe(2, Len(pairs[i][1])) \o pairs[i][1] \o AmfScalar(pairs[i][2])])
        \o <<0, 0, 9>>

RECURSIVE ReadAmf(_), ReadAmfPairs(_, _)

ReadAmfPairs(map, s) ==
    Then(read_uint16(s), LAMBDA n, t :
        Then(to_string(n, t), LAMBDA key, u :
            IF key = <<>>
            THEN IF u # <<>> /\ u[1] = 9 THEN Got(Object(map), Tail(u)) ELSE Thrown
            ELSE Then(ReadAmf(u), LAMBDA value, rest : ReadAmfPairs((key :> value) @@ map, rest))))

ReadAmf(s) ==
    LET t == Tail(s)
    IN  IF s = <<>> THEN Thrown
        ELSE CASE s[1] = 0 -> Then(to_string(2 * WordBytes, t), LAMBDA b, rest : Got(Number(LoadBe[b]), rest))
               [] s[1] = 1 -> Then(to_string(1, t), LAMBDA b, rest : Got(Boolean(b[1] # 0), rest))
               [] s[1] = 2 -> Then(read_uint16(t), LAMBDA n, u :
                                  Then(to_string(n, u), LAMBDA x, rest : Got(String(x), rest)))
               [] s[1] = 3 -> ReadAmfPairs(<<>>, t)
               [] s[1] = 5 -> Got(Null, t)
               [] s[1] = 8 -> Then(to_string(4, t), LAMBDA count, rest : ReadAmfPairs(<<>>, rest))
               [] OTHER -> Thrown

RECURSIVE ReadAllAmf(_)

ReadAllAmf(s) ==
    IF s = <<>> THEN Got(<<>>, <<>>)
    ELSE Then(ReadAmf(s), LAMBDA value, t :
            Then(ReadAllAmf(t), LAMBDA values, rest : Got(<<value>> \o values, rest)))

-----------------------------------------------------------------------------
(* H.264: Exp-Golomb codes, emulation prevention and the syntax of a        *)
(* sequence parameter set (7.3.1, 7.3.2.1, 9.1 and annex E).                *)

CodeLength(k) == CHOOSE m \in 0..30 : 2^m <= k + 1 /\ k + 1 < 2^(m + 1)

UeBits(k) == Copies(CodeLength(k), 0) \o AllBits(CodeLength(k) + 1, k + 1)

SeBits(v) == UeBits(IF v > 0 THEN 2 * v - 1 ELSE -2 * v)

ToBytes(bits) == [i \in 1..(Len(bits) \div 8) |-> Value(SubSeq(bits, 8 * i - 7, 8 * i))]

\* A 3 before any byte of 0..3 that would follow two zeros.
Escape(raw) ==
    LET Step(out, b) ==
            LET n == Len(out)
            IN  Append(IF n >= 2 /\ out[n] = 0 /\ out[n - 1] = 0 /\ b <= 3 THEN Append(out, 3) ELSE out, b)
    IN  FoldLeft(Step, <<>>, raw)

(* A scaling list: absent, the default one, a short one or one in full.     *)
ListBits(kind, size) ==
    CASE kind = "default" -> <<1>> \o SeBits(-8)
      [] kind = "short" -> <<1>> \o SeBits(2) \o SeBits(-10)
      [] kind = "full" -> <<1>> \o FlattenSeq(Copies(size, SeBits(0)))

ScalingBits(f) ==
    IF f.scaling = "none" THEN <<0>>
    ELSE <<1>> \o FlattenSeq([i \in 1..(IF f.chroma = 3 THEN 12 ELSE 8) |->
                                 IF i = 2 THEN <<0>> ELSE ListBits(f.scaling, IF i <= 6 THEN 16 ELSE 64)])

PocBits(f) ==
    UeBits(f.poc) \o
    CASE f.poc = 0 -> UeBits(2)
      [] f.poc = 1 -> <<0>> \o SeBits(-1) \o SeBits(2) \o UeBits(2) \o SeBits(1) \o SeBits(-3)
      [] f.poc = 2 -> <<>>

HrdBits == UeBits(1) \o AllBits(8, 0) \o FlattenSeq(Copies(2, UeBits(9) \o UeBits(5) \o <<1>>)) \o AllBits(20, 12345)

\* Up to the flag in front of the timing information.
VuiHead(f) ==
    LET full == f.vui = "full"
    IN  Chosen(full, <<1>> \o AllBits(8, 255) \o AllBits(16, 4) \o AllBits(16, 3)) \o Chosen(~ full, <<0>>)
        \o (IF full THEN <<1, 0>> ELSE <<0>>)
        \o (IF full THEN <<1>> \o AllBits(3, 5) \o <<0, 1>> \o AllBits(24, 65793) ELSE <<0>>)
        \o (IF full THEN <<1>> \o UeBits(1) \o UeBits(1) ELSE <<0>>)
        \o <<1>>

VuiBits(f) ==
    LET full == f.vui = "full"
    IN  VuiHead(f) \o AllBits(32, f.units) \o AllBits(32, f.scale) \o <<1>>
        \o (IF full THEN <<1>> \o HrdBits \o <<0, 0>> ELSE <<0, 0>>) \o <<0>>
        \o (IF full THEN <<1, 1>> \o FlattenSeq(Copies(6, UeBits(2))) ELSE <<0>>)

\* Up to the crop.
SpsHead(f) ==
    AllBits(8, f.profile) \o AllBits(8, 0) \o AllBits(8, 30) \o UeBits(0)
    \o Chosen(f.profile = 100, UeBits(f.chroma) \o Chosen(f.chroma = 3, <<0>>)
                                   \o UeBits(f.depth - 8) \o UeBits(f.depth - 8) \o <<0>> \o ScalingBits(f))
    \o UeBits(0) \o PocBits(f) \o UeBits(1) \o <<0>> \o UeBits(f.width - 1) \o UeBits(f.height - 1)
    \o (IF f.interlaced THEN <<0, 0>> ELSE <<1>>) \o <<1>>
    \o (IF f.crop = <<0, 0, 0, 0>> THEN <<0>> ELSE <<1>> \o FlattenSeq([i \in 1..4 |-> UeBits(f.crop[i])]))

SpsBits(f) == SpsHead(f) \o (IF f.vui = "none" THEN <<0>> ELSE <<1>> \o VuiBits(f))

\* Where num_units_in_tick begins; time_scale follows it, 32 bits on.
TimingAt(f) == Len(SpsHead(f)) + 1 + Len(VuiHead(f))

\* The set up to a stop bit and alignment, and the NAL unit.
SpsPayload(f) ==
    LET bits == SpsBits(f) \o <<1>>
    IN  ToBytes(bits \o Copies((8 - (Len(bits) % 8)) % 8, 0))

SpsNal(f) == <<103>> \o Escape(SpsPayload(f))

\* The size of the picture: 7.4.2.1.1.
ChromaFormat(f) == IF f.profile = 100 THEN f.chroma ELSE 1

TrueSize(f) ==
    LET field == IF f.interlaced THEN 2 ELSE 1
        unit_x == IF ChromaFormat(f) \in {1, 2} THEN 2 ELSE 1
        unit_y == field * (IF ChromaFormat(f) = 1 THEN 2 ELSE 1)
    IN  << 16 * f.width - unit_x * (f.crop[1] + f.crop[2]),
           16 * f.height * field - unit_y * (f.crop[3] + f.crop[4]) >>

-----------------------------------------------------------------------------
(* FLV: packets of AVC and AAC as a publisher sends them, and tags and ADTS *)
(* frames as a player reads them.                                           *)

AvcConfig(sps, pps) ==
    [type |-> MSG_VIDEO, time |-> 0,
     buf |-> <<23, 0, 0, 0, 0>> \o <<1, 66, 0, 30, 255, 225>> \o SetBe(2, Len(sps)) \o sps
                 \o <<1>> \o SetBe(2, Len(pps)) \o pps]

AvcFrame(key, units, time, composition) ==
    [type |-> MSG_VIDEO, time |-> time,
     buf |-> <<IF key THEN 23 ELSE 39, 1>> \o SetBe(3, composition % 2^24)
                 \o FlattenSeq([i \in DOMAIN units |-> SetBe(4, Len(units[i])) \o units[i]])]

AacConfig(cfg) == [type |-> MSG_AUDIO, time |-> 0, buf |-> <<175, 0>> \o cfg]

AacFrame(raw, time) == [type |-> MSG_AUDIO, time |-> time, buf |-> <<175, 1>> \o raw]

\* AudioSpecificConfig: 5, 4 and 4 bits and three of zero.
AudioConfig(object, index, channels) ==
    ToBytes(AllBits(5, object) \o AllBits(4, index) \o AllBits(4, channels) \o <<0, 0, 0>>)

\* An ADTS header of 56 bits, by the widths of its fields.
ReadAdts(data) ==
    LET bits == BitsOf(SubSeq(data, 1, 7))
        FieldAt(from, n) == Value(SubSeq(bits, from + 1, from + n))
    IN  [sync |-> FieldAt(0, 12), layer |-> FieldAt(13, 2), absent |-> FieldAt(15, 1), profile |-> FieldAt(16, 2), index |-> FieldAt(18, 4),
         channels |-> FieldAt(23, 3), length |-> FieldAt(30, 13), blocks |-> FieldAt(54, 2)]

\* A tag and the size after it: its type, time and body.
ReadTag(s) ==
    LET size == LoadBe[SubSeq(s, 2, 4)]
        time == LoadBe[<<s[8]>> \o SubSeq(s, 5, 7)]
        body == SubSeq(s, 12, 11 + size)
    IN  [type |-> s[1], time |-> time, body |-> body,
         complete |-> Len(s) = size + 15 /\ LoadBe[SubSeq(s, size + 12, size + 15)] = size + 11]
=============================================================================
